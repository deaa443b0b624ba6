---------------------------- MODULE PairingProofs -----------------------------
(***************************************************************************)
(* Proofs about Pairing, for any number of attempts, commands and codes,   *)
(* and any MAX_PAIRING_FAILURES.                                           *)
(***************************************************************************)
EXTENDS Pairing, TLAPS

(***************************************************************************)
(* The inductive invariant.  A code's guesses are its counted failures and *)
(* the attempt that holds the session; codes are numbered as they are      *)
(* generated, so a new code has no guesses yet and was never cancelled.    *)
(***************************************************************************)
Sessions == [code: Code, expired: BOOLEAN, failures: 0..MaxPairingFailures - 1]

OneHolder == \A j \in Attempt : attempt[j].pc = "exchange" => holder = j

Counted ==
  /\ \A code \in Code : code > issued => guesses[code] = 0 /\ code \notin cancelled
  /\ session # None =>
       /\ session.code <= issued /\ session.code \notin cancelled
       /\ guesses[session.code] <= session.failures + (IF holder = None THEN 0 ELSE 1)
  /\ GuessesBounded

IInv == TypeOK /\ mounts \in Nat /\ OneHolder /\ Counted

LEMMA NewSessionType ==
  ASSUME NEW code \in Code
  PROVE  /\ NewSession(code) \in Sessions
         /\ NewSession(code) # None
         /\ NewSession(code).code = code
         /\ NewSession(code).failures = 0
<1>1. code \in Nat /\ 0 \in 0..MaxPairingFailures - 1
  BY PairingAssumption DEF Code
<1>2. NewSession(code) \in [code: Nat, expired: BOOLEAN, failures: Nat]
  BY <1>1 DEF NewSession
<1>3. NewSession(code) # None
  BY <1>2, PairingAssumption
<1> QED
  BY <1>1, <1>3 DEF NewSession, Sessions

LEMMA InitIInv == Init => IInv
<1> SUFFICES ASSUME Init PROVE IInv
  OBVIOUS
<1> USE PairingAssumption DEF Init
<1>1. NoAttempt \in [pc: {"new", "waiting", "exchange", "ending", "done"},
                     guess: {0} \cup Code, agreed: BOOLEAN]
  BY DEF NoAttempt
<1>2. NoCommand \in [op: {"none", "start", "cancel"}, mount: Nat, code: {0} \cup Code,
                     pc: {"new", "lock", "advertise", "reply", "done"}]
  BY DEF NoCommand
<1>3. events \in Seq({0} \cup Code \cup {MaxCodes + 1})
  OBVIOUS
<1>4. open \in 0..mounts /\ mounts \in Nat
  OBVIOUS
<1>5. guesses \in [Code -> Nat] /\ \A code \in Code : guesses[code] = 0
  OBVIOUS
<1>6. GuessesBounded
  BY <1>5 DEF GuessesBounded
<1>7. TypeOK
  BY <1>1, <1>2, <1>3, <1>4, <1>5 DEF TypeOK, Code
<1>8. OneHolder
  BY DEF OneHolder, NoAttempt
<1> QED
  BY <1>4, <1>5, <1>6, <1>7, <1>8 DEF IInv, Counted

LEMMA SessionType ==
  ASSUME IInv, session # None
  PROVE  session \in Sessions
BY DEF IInv, TypeOK, Sessions

(* A step that touches neither the session nor what is counted of it.      *)
LEMMA Uncounted ==
  ASSUME Counted, UNCHANGED <<session, holder, issued, guesses, cancelled>>
  PROVE  Counted'
BY DEF Counted, GuessesBounded

Commands == [op: {"none", "start", "cancel"}, mount: Nat, code: {0} \cup Code,
             pc: {"new", "lock", "advertise", "reply", "done"}]
Attempts == [pc: {"new", "waiting", "exchange", "ending", "done"},
             guess: {0} \cup Code, agreed: BOOLEAN]
Events   == Seq({0} \cup Code \cup {MaxCodes + 1})

LEMMA CommandTypes ==
  /\ [NoCommand EXCEPT !.pc = "done"] \in Commands
  /\ \A r \in Commands, op \in {"start", "cancel"}, mount \in Nat :
       [r EXCEPT !.op = op, !.mount = mount, !.pc = "lock"] \in Commands
  /\ \A r \in Commands, pc \in {"advertise", "reply", "done"} : [r EXCEPT !.pc = pc] \in Commands
  /\ \A r \in Commands, code \in Code : [r EXCEPT !.pc = "advertise", !.code = code] \in Commands
BY DEF Commands, NoCommand

LEMMA AttemptTypes ==
  /\ [NoAttempt EXCEPT !.pc = "done"] \in Attempts
  /\ \A r \in Attempts, guess \in {0} \cup Code :
       [r EXCEPT !.pc = "waiting", !.guess = guess] \in Attempts
  /\ \A r \in Attempts, pc \in {"exchange", "ending"} : [r EXCEPT !.pc = pc] \in Attempts
  /\ \A r \in Attempts : [r EXCEPT !.pc = "ending", !.agreed = TRUE] \in Attempts
BY DEF Attempts, NoAttempt

LEMMA EventTypes ==
  ASSUME TypeOK
  PROVE  /\ events # <<>> => /\ Head(events) \in {0} \cup Code \cup {MaxCodes + 1}
                             /\ Tail(events) \in Events
         /\ \A e \in {0} \cup Code \cup {MaxCodes + 1} : Append(events, e) \in Events
BY DEF TypeOK, Events

LEMMA GiveType ==
  ASSUME TypeOK, NEW c \in Command, NEW op \in {"start", "cancel"}, NEW mount \in Nat,
         Give(c, op, mount)
  PROVE  command' \in [Command -> Commands]
<1>1. command \in [Command -> Commands]
  BY DEF TypeOK, Commands
<1> QED
  BY <1>1, CommandTypes DEF Give

(* A step of the window or of a command that leaves attempts alone.        *)
LEMMA WindowTyped ==
  ASSUME IInv, UNCHANGED <<session, holder, attempt, issued, guesses, cancelled>>,
         command' \in [Command -> Commands], events' \in Events,
         advertised' \in BOOLEAN, crossed' \in BOOLEAN,
         mounts' \in Nat, open' \in 0..mounts', shown' \in {0} \cup Code
  PROVE  IInv'
<1>1. TypeOK'
  BY DEF IInv, TypeOK, Commands, Events
<1>2. OneHolder'
  BY DEF IInv, OneHolder
<1> QED
  BY <1>1, <1>2, Uncounted DEF IInv

LEMMA PanelStep ==
  ASSUME IInv,
         \/ Panel
         \/ \E c \in Command : OpenPanel(c) \/ NewCode(c) \/ ClosePanel(c)
  PROVE  IInv'
<1>1. /\ TypeOK /\ mounts \in Nat /\ open \in 0..mounts /\ shown \in {0} \cup Code
      /\ command \in [Command -> Commands] /\ events \in Events
      /\ advertised \in BOOLEAN /\ crossed \in BOOLEAN
  BY DEF IInv, TypeOK, Commands, Events
<1>2. mounts + 1 \in Nat /\ mounts + 1 \in 0..mounts + 1 /\ 0 \in 0..mounts /\ open \in Nat
  BY <1>1
<1>3. ASSUME NEW c \in Command, OpenPanel(c) PROVE IInv'
  <2>1. command' \in [Command -> Commands]
    BY <1>1, <1>2, <1>3, GiveType DEF OpenPanel
  <2> QED
    BY <1>1, <1>2, <1>3, <2>1, WindowTyped DEF OpenPanel
<1>4. ASSUME NEW c \in Command, NewCode(c) PROVE IInv'
  <2>1. command' \in [Command -> Commands]
    BY <1>1, <1>2, <1>4, GiveType DEF NewCode
  <2> QED
    BY <1>1, <1>4, <2>1, WindowTyped DEF NewCode, windowVars
<1>5. ASSUME NEW c \in Command, Close(c),
             UNCHANGED <<session, holder, attempt, issued, guesses, cancelled, advertised, crossed>>,
             events' \in Events
      PROVE  IInv'
  <2>1. command' \in [Command -> Commands]
    BY <1>1, <1>2, <1>5, GiveType DEF Close
  <2> QED
    BY <1>1, <1>2, <1>5, <2>1, WindowTyped DEF Close
<1>6. CASE DeliverCode
  <2>1. events' \in Events
    BY <1>1, <1>6, EventTypes DEF DeliverCode
  <2>2. Head(events) \in {0} \cup Code
    BY <1>1, <1>6, EventTypes DEF DeliverCode, PairedEvent
  <2>3. shown' \in {0} \cup Code /\ crossed' \in BOOLEAN
    BY <1>1, <1>6, <2>2 DEF DeliverCode, Show
  <2> QED
    BY <1>1, <1>6, <2>1, <2>3, WindowTyped DEF DeliverCode
<1>7. CASE DeliverPaired
  <2>1. events' \in Events
    BY <1>1, <1>7, EventTypes DEF DeliverPaired
  <2>2. CASE open # 0
    BY <1>5, <1>7, <2>1, <2>2 DEF DeliverPaired
  <2>3. CASE open = 0
    BY <1>1, <1>7, <2>1, <2>3, WindowTyped DEF DeliverPaired
  <2> QED
    BY <2>2, <2>3
<1>8. ASSUME NEW c \in Command, ClosePanel(c) PROVE IInv'
  BY <1>1, <1>5, <1>8 DEF ClosePanel
<1> QED
  BY <1>3, <1>4, <1>6, <1>7, <1>8 DEF Panel

(* The commands.  A cancelled code is one that was generated.              *)
LEMMA RunStep ==
  ASSUME IInv, NEW c \in Command, Run(c)
  PROVE  IInv'
<1>1. /\ TypeOK /\ mounts \in Nat /\ open \in 0..mounts /\ shown \in {0} \cup Code
      /\ command \in [Command -> Commands] /\ events \in Events
      /\ advertised \in BOOLEAN /\ crossed \in BOOLEAN
  BY DEF IInv, TypeOK, Commands, Events
<1>2. CASE Advertise(c)
  <2>1. command' \in [Command -> Commands]
    <3>1. CASE Returned(c)
      BY <1>1, <3>1, CommandTypes DEF Returned
    <3>2. CASE command' = [command EXCEPT ![c].pc = "reply"]
      BY <1>1, <3>2, CommandTypes
    <3> QED
      BY <1>2, <3>1, <3>2 DEF Advertise
  <2>2. advertised' \in BOOLEAN /\ crossed' \in BOOLEAN
    BY <1>2 DEF Advertise
  <2> QED
    BY <1>1, <1>2, <2>1, <2>2, WindowTyped DEF Advertise, windowVars
<1>3. CASE Reply(c)
  <2>1. command' \in [Command -> Commands]
    BY <1>1, <1>3, CommandTypes DEF Reply, Returned
  <2>2. command[c].code \in {0} \cup Code
    BY <1>1 DEF Commands
  <2>3. shown' \in {0} \cup Code /\ crossed' \in BOOLEAN
    BY <1>1, <1>3, <2>2 DEF Reply, Show
  <2> QED
    BY <1>1, <1>3, <2>1, <2>3, WindowTyped DEF Reply
<1>4. CASE StartPairing(c)
  <2>1. issued' = issued + 1 /\ issued' \in Code /\ session' = NewSession(issued')
    BY <1>1, <1>4, PairingAssumption DEF StartPairing, TypeOK, Code
  <2>2. session' \in Sessions /\ session' # None /\ session'.code = issued' /\ session'.failures = 0
    BY <2>1, NewSessionType
  <2>3. command' \in [Command -> Commands]
    BY <1>1, <1>4, <2>1, CommandTypes DEF StartPairing
  <2>4. TypeOK' /\ mounts' \in Nat
    BY <1>1, <1>4, <2>1, <2>2, <2>3
    DEF StartPairing, Holds, TypeOK, Sessions, Commands, windowVars
  <2>5. holder = None /\ holder' = None
    BY <1>4 DEF StartPairing, Holds
  <2>6. guesses'[issued'] = 0 /\ issued' \notin cancelled'
    BY <1>4, <2>1 DEF IInv, Counted, StartPairing, TypeOK, Code
  <2>7. Counted'
    BY <1>1, <1>4, <2>1, <2>2, <2>5, <2>6
    DEF IInv, Counted, StartPairing, GuessesBounded, TypeOK, Code
  <2>8. OneHolder'
    BY <1>4 DEF StartPairing, IInv, OneHolder
  <2> QED
    BY <2>4, <2>7, <2>8 DEF IInv
<1>5. CASE EndPairing(c)
  <2>1. command' \in [Command -> Commands]
    BY <1>1, <1>5, CommandTypes DEF EndPairing
  <2>2. session # None => session.code \in Code /\ session.code <= issued
    BY SessionType DEF IInv, Counted, Sessions
  <2>3. TypeOK' /\ mounts' \in Nat
    BY <1>1, <1>5, <2>1, <2>2 DEF EndPairing, Holds, TypeOK, Commands, windowVars
  <2>4. Counted'
    BY <1>5, <2>2 DEF EndPairing, IInv, Counted, GuessesBounded, TypeOK, Code
  <2>5. OneHolder'
    BY <1>5 DEF EndPairing, IInv, OneHolder
  <2> QED
    BY <2>3, <2>4, <2>5 DEF IInv
<1> QED
  BY <1>2, <1>3, <1>4, <1>5 DEF Run

LEMMA ExpireStep ==
  ASSUME IInv, Expire
  PROVE  IInv'
<1>1. session' \in Sessions /\ session'.code = session.code /\ session'.failures = session.failures
  BY SessionType DEF Expire, Sessions
<1>2. session' # None
  BY <1>1, PairingAssumption DEF Sessions, Code
<1>3. TypeOK' /\ mounts' \in Nat
  BY <1>1, <1>2 DEF Expire, IInv, TypeOK, Sessions, windowVars
<1>4. Counted'
  BY <1>1, <1>2 DEF Expire, IInv, Counted, GuessesBounded
<1>5. OneHolder'
  BY DEF Expire, IInv, OneHolder
<1> QED
  BY <1>3, <1>4, <1>5 DEF IInv

(* An attempt: only the one that holds the session tries its code.         *)
LEMMA AttemptStep ==
  ASSUME IInv, NEW j \in Attempt, Arrive(j) \/ Accept(j)
  PROVE  IInv'
<1>1. /\ TypeOK /\ mounts \in Nat /\ attempt \in [Attempt -> Attempts] /\ events \in Events
      /\ j # None
  BY PairingAssumption DEF IInv, TypeOK, Attempts, Events, Attempt
<1>2. CASE Arrive(j)
  <2>1. PICK guess \in {0, shown} :
          attempt' = [attempt EXCEPT ![j].pc = "waiting", ![j].guess = guess]
    BY <1>2 DEF Arrive
  <2>2. guess \in {0} \cup Code /\ attempt[j].pc = "new"
    BY <1>1, <1>2, <2>1 DEF Arrive, TypeOK
  <2>3. attempt' \in [Attempt -> Attempts]
    BY <1>1, <2>1, <2>2, AttemptTypes
  <2>4. OneHolder'
    BY <1>1, <1>2, <2>1 DEF Arrive, IInv, OneHolder, Attempts
  <2>5. TypeOK' /\ mounts' \in Nat
    BY <1>1, <1>2, <2>1, <2>2, <2>3 DEF Arrive, TypeOK, Attempts, windowVars
  <2> QED
    BY <1>2, <2>4, <2>5, Uncounted DEF Arrive, IInv
<1>3. CASE NotPairing(j)
  <2>1. attempt' \in [Attempt -> Attempts]
    BY <1>1, <1>3, AttemptTypes DEF NotPairing, Over
  <2>2. OneHolder'
    BY <1>1, <1>3 DEF NotPairing, Over, IInv, OneHolder, NoAttempt
  <2>3. TypeOK' /\ mounts' \in Nat
    BY <1>1, <1>3, <2>1 DEF NotPairing, TypeOK, Attempts, windowVars
  <2> QED
    BY <1>3, <2>2, <2>3, Uncounted DEF NotPairing, IInv
<1>4. CASE CodeExpired(j)
  <2>1. attempt' \in [Attempt -> Attempts]
    BY <1>1, <1>4, AttemptTypes DEF CodeExpired, Step
  <2>2. OneHolder'
    BY <1>1, <1>4 DEF CodeExpired, Step, IInv, OneHolder, Attempts
  <2>3. TypeOK' /\ mounts' \in Nat
    BY <1>1, <1>4, <2>1 DEF CodeExpired, TypeOK, Attempts, windowVars
  <2>4. Counted'
    BY <1>4 DEF CodeExpired, IInv, Counted, GuessesBounded
  <2> QED
    BY <2>2, <2>3, <2>4 DEF IInv
<1>5. CASE Exchange(j)
  <2>1. session \in Sessions /\ session # None /\ holder = None
    BY <1>5, SessionType DEF Exchange, Meets
  <2>2. attempt' \in [Attempt -> Attempts]
    BY <1>1, <1>5, AttemptTypes DEF Exchange, Step
  <2>3. attempt' = [attempt EXCEPT ![j].pc = "exchange"] /\ holder' = j /\ session' = session
    BY <1>5 DEF Exchange, Step
  <2>4. attempt'[j].pc = "exchange" /\ \A i \in Attempt \ {j} : attempt'[i] = attempt[i]
    BY <1>1, <2>3 DEF Attempts
  <2>5. OneHolder'
    BY <1>1, <2>1, <2>3, <2>4, PairingAssumption DEF IInv, OneHolder, Attempt
  <2>6. /\ guesses' = [guesses EXCEPT ![session.code] = @ + 1]
        /\ guesses \in [Code -> Nat] /\ session.code \in Code
    BY <1>1, <1>5, <2>1 DEF Exchange, TypeOK, Sessions
  <2>7. guesses' \in [Code -> Nat]
    BY <2>6
  <2>8. TypeOK' /\ mounts' \in Nat
    BY <1>1, <1>5, <2>1, <2>2, <2>3, <2>4, <2>7 DEF Exchange, TypeOK, Attempts, windowVars
  <2>9. guesses[session.code] <= session.failures /\ session.code <= issued
        /\ session.failures \in 0..MaxPairingFailures - 1
    BY <2>1 DEF IInv, Counted, Sessions
  <2>10. Counted'
    <3>1. guesses'[session.code] <= session.failures + 1
          /\ guesses'[session.code] <= MaxPairingFailures
      BY <2>6, <2>9, PairingAssumption
    <3>2. \A code \in Code : code # session.code => guesses'[code] = guesses[code]
      BY <2>6
    <3>3. GuessesBounded'
      BY <3>1, <3>2 DEF IInv, Counted, GuessesBounded
    <3>4. \A code \in Code : code > issued => code # session.code
      BY <2>6, <2>9, <1>1 DEF TypeOK, Code
    <3> QED
      BY <1>1, <1>5, <2>1, <2>3, <3>1, <3>2, <3>3, <3>4 DEF Exchange, IInv, Counted
  <2> QED
    BY <2>5, <2>8, <2>10 DEF IInv
<1>6. CASE Succeed(j)
  <2>1. attempt' \in [Attempt -> Attempts]
    BY <1>1, <1>6, AttemptTypes DEF Succeed
  <2>2. holder = j
    BY <1>6 DEF Succeed, IInv, OneHolder
  <2>3. OneHolder'
    BY <1>1, <1>6, <2>2 DEF Succeed, IInv, OneHolder, Attempts
  <2>4. TypeOK' /\ mounts' \in Nat
    BY <1>1, <1>6, <2>1 DEF Succeed, TypeOK, Attempts, windowVars
  <2>5. Counted'
    BY <1>6 DEF Succeed, IInv, Counted, GuessesBounded
  <2> QED
    BY <2>3, <2>4, <2>5 DEF IInv
<1>7. CASE Failed(j)
  <2>1. attempt' \in [Attempt -> Attempts]
    BY <1>1, <1>7, AttemptTypes DEF Failed, Over
  <2>2. holder = j /\ session \in Sessions /\ session # None
    BY <1>7, SessionType DEF Failed, IInv, OneHolder
  <2>3. OneHolder'
    BY <1>1, <1>7, <2>2 DEF Failed, Over, IInv, OneHolder, NoAttempt
  <2>4. CASE session.failures + 1 < MaxPairingFailures
    <3>1. session' = [session EXCEPT !.failures = @ + 1] /\ UNCHANGED <<issued, events>>
      BY <1>7, <2>4 DEF Failed
    <3>2. session' \in Sessions /\ session'.code = session.code
          /\ session'.failures = session.failures + 1
      BY <2>2, <2>4, <3>1, PairingAssumption DEF Sessions
    <3>3. TypeOK' /\ mounts' \in Nat
      BY <1>1, <1>7, <2>1, <3>1, <3>2 DEF Failed, TypeOK, Attempts, Sessions
    <3>4. Counted'
      BY <1>1, <1>7, <2>2, <3>1, <3>2 DEF Failed, IInv, Counted, GuessesBounded, Sessions, TypeOK
    <3> QED
      BY <2>3, <3>3, <3>4 DEF IInv
  <2>5. CASE ~ (session.failures + 1 < MaxPairingFailures)
    <3>1. /\ issued' = issued + 1 /\ issued' \in Code /\ session' = NewSession(issued')
          /\ events' = Append(events, issued')
      <4>1. /\ issued' = issued + 1 /\ session' = NewSession(issued')
            /\ events' = Append(events, issued') /\ issued < MaxCodes
        BY <1>7, <2>5 DEF Failed
      <4>2. issued \in {0} \cup Code /\ MaxCodes \in Nat
        BY <1>1, PairingAssumption DEF TypeOK
      <4> QED
        BY <4>1, <4>2 DEF Code
    <3>2. session' \in Sessions /\ session' # None /\ session'.code = issued'
          /\ session'.failures = 0
      BY <3>1, NewSessionType
    <3>3. events' \in Events
      BY <1>1, <3>1, EventTypes
    <3>4. TypeOK' /\ mounts' \in Nat
      BY <1>1, <1>7, <2>1, <3>1, <3>2, <3>3 DEF Failed, TypeOK, Attempts, Sessions, Events
    <3>5. guesses'[issued'] = 0 /\ issued' \notin cancelled' /\ holder' = None
      BY <1>7, <3>1 DEF Failed, IInv, Counted, TypeOK, Code
    <3>6. Counted'
      BY <1>1, <1>7, <3>1, <3>2, <3>5 DEF Failed, IInv, Counted, GuessesBounded, TypeOK, Code
    <3> QED
      BY <2>3, <3>4, <3>6 DEF IInv
  <2> QED
    BY <2>4, <2>5
<1>8. CASE EndAttempt(j)
  <2>1. attempt' \in [Attempt -> Attempts]
    BY <1>1, <1>8, AttemptTypes DEF EndAttempt, Over
  <2>2. OneHolder'
    BY <1>1, <1>8 DEF EndAttempt, Over, IInv, OneHolder, NoAttempt
  <2>3. events' \in Events
    BY <1>1, <1>8, EventTypes DEF EndAttempt, PairedEvent
  <2>4. TypeOK' /\ mounts' \in Nat
    BY <1>1, <1>8, <2>1, <2>3 DEF EndAttempt, TypeOK, Attempts, Events
  <2>5. Counted'
    BY <1>8 DEF EndAttempt, IInv, Counted, GuessesBounded
  <2> QED
    BY <2>2, <2>4, <2>5 DEF IInv
<1> QED
  BY <1>2, <1>3, <1>4, <1>5, <1>6, <1>7, <1>8 DEF Accept, Fail

LEMMA StutterStep == IInv /\ UNCHANGED vars => IInv'
<1> SUFFICES ASSUME IInv, UNCHANGED vars PROVE IInv'
  OBVIOUS
<1>1. TypeOK' /\ mounts' \in Nat
  BY DEF IInv, vars, windowVars, TypeOK
<1>2. OneHolder'
  BY DEF IInv, vars, OneHolder
<1> QED
  BY <1>1, <1>2, Uncounted DEF IInv, vars

LEMMA NextStep == IInv /\ [Next]_vars => IInv'
<1> SUFFICES ASSUME IInv, [Next]_vars PROVE IInv'
  OBVIOUS
<1>1. CASE UNCHANGED vars
  BY <1>1, StutterStep
<1>2. CASE Next
  BY <1>2, PanelStep, RunStep, ExpireStep, AttemptStep DEF Next
<1> QED
  BY <1>1, <1>2

LEMMA IInvariant == Spec => []IInv
BY InitIInv, NextStep, PTL DEF Spec

(* The state types; a session that has MAX_PAIRING_FAILURES is replaced.   *)
THEOREM PairingTyped == Spec => []TypeOK
<1>1. IInv => TypeOK
  BY DEF IInv
<1> QED
  BY <1>1, IInvariant, PTL

(* "Cap guessing": no code is ever tried more often than                   *)
(* MAX_PAIRING_FAILURES, for any number of attempts at the same time and   *)
(* whatever the window does meanwhile.                                     *)
THEOREM FewGuesses == Spec => []GuessesBounded
<1>1. IInv => GuessesBounded
  BY DEF IInv, Counted
<1> QED
  BY <1>1, IInvariant, PTL

(* Once cancel_pairing has ended a code, no attempt succeeds with it.      *)
THEOREM CancelIsFinal == Spec => NoneAfterCancel
<1>1. IInv /\ [Next]_vars
        => [\A j \in Attempt : attempt'[j].agreed /\ ~attempt[j].agreed
              => attempt[j].guess \notin cancelled]_vars
  <2> SUFFICES ASSUME IInv, Next, NEW j \in Attempt, attempt'[j].agreed, ~attempt[j].agreed
               PROVE  attempt[j].guess \notin cancelled
    BY DEF vars
  <2>1. attempt \in [Attempt -> Attempts]
    BY DEF IInv, TypeOK, Attempts
  <2>2. ASSUME UNCHANGED attempt PROVE FALSE
    BY <2>2
  <2>3. ASSUME NEW i \in Attempt, Arrive(i) \/ Accept(i), ~ Succeed(i) PROVE FALSE
    <3>1. ~NoAttempt.agreed
      BY DEF NoAttempt
    <3>2. \/ \E guess : attempt' = [attempt EXCEPT ![i].pc = "waiting", ![i].guess = guess]
          \/ \E pc : attempt' = [attempt EXCEPT ![i].pc = pc]
          \/ attempt' = [attempt EXCEPT ![i] = [NoAttempt EXCEPT !.pc = "done"]]
      BY <2>3 DEF Arrive, Accept, NotPairing, CodeExpired, Exchange, Fail, Failed, EndAttempt,
                  Over, Step
    <3> QED
      BY <2>1, <3>1, <3>2 DEF Attempts, NoAttempt
  <2>4. PICK i \in Attempt : Succeed(i)
    BY <2>2, <2>3
    DEF Next, Panel, DeliverCode, DeliverPaired, OpenPanel, NewCode, ClosePanel, Run,
        StartPairing, EndPairing, Advertise, Reply, Expire
  <2>5. i = j
    BY <2>1, <2>4 DEF Succeed
  <2>6. session # None /\ attempt[j].guess = session.code
    BY <2>4, <2>5 DEF Succeed
  <2> QED
    BY <2>6 DEF IInv, Counted
<1> QED
  BY <1>1, IInvariant, PTL DEF Spec, NoneAfterCancel
-----------------------------------------------------------------------------
(* What the panel shows.                                                   *)

(* The commands given so far are the first l.                              *)
Given(l) == \A c \in Command : command[c].pc # "new" <=> c <= l

Sound(c) ==
  /\ command[c].pc \in {"lock", "advertise", "reply"} /\ command[c].op = "start"
       => command[c].mount # 0
  /\ command[c].pc \in {"advertise", "reply"} /\ command[c].op = "start" => command[c].code # 0
  /\ command[c].pc \in {"lock", "advertise"} => command[c].op \in {"start", "cancel"}
  /\ command[c].pc = "reply" => command[c].op = "start"

Active == session # None /\ session.code = shown
Ending == \E j \in Attempt : attempt[j].pc = "ending"

(* The last command given closed the panel: it is on its way to end the    *)
(* session, or has.                                                        *)
Closed(l) ==
  /\ open = 0
  /\ l # 0 => \/ command[l].pc = "done"
              \/ command[l].op = "cancel" /\ command[l].pc \in {"lock", "advertise"}
  /\ l # 0 /\ command[l].pc = "advertise" => session = None
  /\ l = 0 \/ command[l].pc = "done" => session = None /\ ~advertised

(* It asked for a code, which will be shown; or has been, and is the       *)
(* session's until an attempt or an event says otherwise.                  *)
Opened(l) ==
  /\ open # 0 /\ l # 0
  /\ command[l].pc # "done" => command[l].op = "start" /\ command[l].mount = open
  /\ command[l].pc = "done" => (events = <<>> /\ shown # 0 => Active \/ Ending)

PanelInv ==
  /\ open = 0 => shown = 0
  /\ \A c \in Command : Sound(c)
  /\ \E l \in 0..MaxCommands : Given(l) /\ (crossed \/ Closed(l) \/ Opened(l))

LEMMA PanelTypes ==
  ASSUME IInv
  PROVE  /\ open \in Nat /\ mounts \in Nat /\ shown \in {0} \cup Code
         /\ command \in [Command -> Commands] /\ attempt \in [Attempt -> Attempts]
         /\ issued \in {0} \cup Code /\ Code \subseteq Nat \ {0} /\ Command \subseteq Nat \ {0}
         /\ MaxCommands \in Nat
BY PairingAssumption DEF IInv, TypeOK, Commands, Attempts, Code, Command

(* What the steps of the commands do to them.                              *)
LEMMA GiveEffect ==
  ASSUME IInv, NEW c \in Command, NEW op \in {"start", "cancel"}, NEW mount \in Nat,
         Give(c, op, mount), NEW l \in 0..MaxCommands, Given(l), \A d \in Command : Sound(d),
         op = "start" => mount # 0
  PROVE  /\ Given(c)' /\ c \in 0..MaxCommands /\ c # 0
         /\ command'[c].op = op /\ command'[c].mount = mount /\ command'[c].pc = "lock"
         /\ \A d \in Command : Sound(d)'
<1>1. command \in [Command -> Commands] /\ Command = 1..MaxCommands /\ MaxCommands \in Nat
  BY PanelTypes DEF Command
<1>2. command[c].pc = "new" /\ \A b \in Command : b < c => command[b].pc # "new"
  BY DEF Give, NextCommand
<1>3. c = l + 1
  <2>1. ~(c <= l)
    BY <1>2 DEF Given
  <2>2. ~(l + 1 < c)
    <3>1. SUFFICES ASSUME l + 1 < c PROVE FALSE
      OBVIOUS
    <3>2. l + 1 \in Command
      BY <1>1, <3>1
    <3> QED
      BY <1>1, <1>2, <3>1, <3>2 DEF Given
  <2> QED
    BY <1>1, <2>1, <2>2
<1>4. PICK k \in Commands : k = command[c]
  BY <1>1
<1>5. PICK m : m = [k EXCEPT !.op = op, !.mount = mount, !.pc = "lock"]
  OBVIOUS
<1>6. m.op = op /\ m.mount = mount /\ m.pc = "lock"
  BY <1>4, <1>5 DEF Commands
<1>7. command' = [command EXCEPT ![c] = m]
  BY <1>4, <1>5 DEF Give
<1>8. command'[c] = m /\ \A d \in Command : d # c => command'[d] = command[d]
  BY <1>1, <1>7
<1>9. Given(c)'
  BY <1>1, <1>3, <1>6, <1>8 DEF Given
<1>10. \A d \in Command : Sound(d)'
  BY <1>6, <1>8 DEF Sound
<1> QED
  BY <1>1, <1>6, <1>8, <1>9, <1>10

LEMMA RunEffect ==
  ASSUME IInv, NEW c \in Command, Run(c)
  PROVE  /\ \A d \in Command : d # c => command'[d] = command[d]
         /\ StartPairing(c) =>
              /\ command[c].pc = "lock" /\ command[c].op = "start"
              /\ command'[c].pc = "advertise" /\ command'[c].op = "start"
              /\ command'[c].mount = command[c].mount /\ command'[c].code = issued + 1
         /\ EndPairing(c) =>
              /\ command[c].pc = "lock" /\ command[c].op = "cancel"
              /\ command'[c].pc = "advertise" /\ command'[c].op = "cancel"
         /\ Advertise(c) =>
              /\ command[c].pc = "advertise"
              /\ command[c].op = "cancel" => command'[c].pc = "done" /\ command'[c].op = "none"
              /\ command[c].op # "cancel" =>
                   /\ command'[c].pc = "reply" /\ command'[c].op = command[c].op
                   /\ command'[c].mount = command[c].mount /\ command'[c].code = command[c].code
         /\ Reply(c) =>
              /\ command[c].pc = "reply"
              /\ command'[c].pc = "done" /\ command'[c].op = "none"
<1>1. command \in [Command -> Commands]
  BY PanelTypes
<1>2. PICK k \in Commands : k = command[c]
  BY <1>1
<1>3. \A m : command' = [command EXCEPT ![c] = m] =>
        command'[c] = m /\ \A d \in Command : d # c => command'[d] = command[d]
  BY <1>1
<1>4. ASSUME StartPairing(c)
      PROVE  /\ k.pc = "lock" /\ k.op = "start"
             /\ command'[c].pc = "advertise" /\ command'[c].op = "start"
             /\ command'[c].mount = k.mount /\ command'[c].code = issued + 1
             /\ \A d \in Command : d # c => command'[d] = command[d]
  <2>1. PICK m : m = [k EXCEPT !.pc = "advertise", !.code = issued']
    OBVIOUS
  <2>2. k.pc = "lock" /\ k.op = "start" /\ issued' = issued + 1
    BY <1>2, <1>4 DEF StartPairing, Holds
  <2>3. m.pc = "advertise" /\ m.op = "start" /\ m.mount = k.mount /\ m.code = issued + 1
    BY <2>1, <2>2 DEF Commands
  <2>4. command' = [command EXCEPT ![c] = m]
    BY <1>2, <1>4, <2>1 DEF StartPairing
  <2> QED
    BY <1>3, <2>2, <2>3, <2>4
<1>5. ASSUME EndPairing(c)
      PROVE  /\ k.pc = "lock" /\ k.op = "cancel"
             /\ command'[c].pc = "advertise" /\ command'[c].op = "cancel"
             /\ \A d \in Command : d # c => command'[d] = command[d]
  <2>1. PICK m : m = [k EXCEPT !.pc = "advertise"]
    OBVIOUS
  <2>2. k.pc = "lock" /\ k.op = "cancel" /\ m.pc = "advertise" /\ m.op = "cancel"
    BY <1>2, <1>5, <2>1 DEF EndPairing, Holds, Commands
  <2>3. command' = [command EXCEPT ![c] = m]
    BY <1>2, <1>5, <2>1 DEF EndPairing
  <2> QED
    BY <1>3, <2>2, <2>3
<1>6. ASSUME Returned(c)
      PROVE  /\ command'[c].pc = "done" /\ command'[c].op = "none"
             /\ \A d \in Command : d # c => command'[d] = command[d]
  <2>1. PICK m : m = [NoCommand EXCEPT !.pc = "done"]
    OBVIOUS
  <2>2. m.pc = "done" /\ m.op = "none"
    BY <2>1 DEF NoCommand
  <2>3. command' = [command EXCEPT ![c] = m]
    BY <1>6, <2>1 DEF Returned
  <2> QED
    BY <1>3, <2>2, <2>3
<1>7. ASSUME command' = [command EXCEPT ![c].pc = "reply"]
      PROVE  /\ command'[c].pc = "reply" /\ command'[c].op = k.op
             /\ command'[c].mount = k.mount /\ command'[c].code = k.code
             /\ \A d \in Command : d # c => command'[d] = command[d]
  <2>1. PICK m : m = [k EXCEPT !.pc = "reply"]
    OBVIOUS
  <2>2. m.pc = "reply" /\ m.op = k.op /\ m.mount = k.mount /\ m.code = k.code
    BY <2>1 DEF Commands
  <2>3. command' = [command EXCEPT ![c] = m]
    BY <1>2, <1>7, <2>1
  <2> QED
    BY <1>3, <2>2, <2>3
<1>8. Advertise(c) =>
        /\ k.pc = "advertise"
        /\ IF k.op = "cancel" THEN Returned(c)
           ELSE command' = [command EXCEPT ![c].pc = "reply"]
  BY <1>2 DEF Advertise
<1>9. Reply(c) => k.pc = "reply" /\ Returned(c)
  BY <1>2 DEF Reply
<1> QED
  BY <1>2, <1>4, <1>5, <1>6, <1>7, <1>8, <1>9 DEF Run

(* A step that neither the commands nor the panel take part in.            *)
LEMMA BesidePanel ==
  ASSUME PanelInv, UNCHANGED <<command, open, shown>>,
         crossed => crossed', advertised' => advertised,
         session = None => session' = None,
         events' = <<>> => events = <<>> /\ (Active \/ Ending => Active' \/ Ending')
  PROVE  PanelInv'
<1>1. PICK l \in 0..MaxCommands : Given(l) /\ (crossed \/ Closed(l) \/ Opened(l))
  BY DEF PanelInv
<1>2. Closed(l) => Closed(l)'
  BY DEF Closed
<1>3. Opened(l) => Opened(l)'
  BY DEF Opened
<1>4. Given(l)' /\ \A c \in Command : Sound(c)'
  BY <1>1 DEF Given, PanelInv, Sound
<1> QED
  BY <1>1, <1>2, <1>3, <1>4 DEF PanelInv

LEMMA AttemptPanel ==
  ASSUME IInv, PanelInv, NEW j \in Attempt, Arrive(j) \/ Accept(j)
  PROVE  PanelInv'
<1>1. attempt \in [Attempt -> Attempts]
  BY PanelTypes
<1>2. ASSUME NEW k, attempt' = [attempt EXCEPT ![j] = k], attempt[j].pc # "ending"
      PROVE  Ending => Ending'
  <2>1. ASSUME NEW i \in Attempt, attempt[i].pc = "ending"
        PROVE  attempt'[i].pc = "ending"
    BY <1>1, <1>2, <2>1
  <2> QED
    BY <2>1 DEF Ending
<1>3. ASSUME Step(j, "ending") \/ attempt' = [attempt EXCEPT ![j].pc = "ending", ![j].agreed = TRUE]
      PROVE  Ending'
  <2>1. PICK k \in Attempts : k = attempt[j]
    BY <1>1
  <2>2. \E m : attempt' = [attempt EXCEPT ![j] = m] /\ m.pc = "ending"
    <3>1. [k EXCEPT !.pc = "ending"].pc = "ending"
          /\ [k EXCEPT !.pc = "ending", !.agreed = TRUE].pc = "ending"
      BY DEF Attempts
    <3> QED
      BY <1>3, <2>1, <3>1 DEF Step
  <2>3. attempt'[j].pc = "ending"
    BY <1>1, <2>2
  <2> QED
    BY <2>3 DEF Ending
<1>4. CASE Arrive(j) \/ NotPairing(j) \/ Exchange(j)
  <2>1. attempt[j].pc # "ending" /\ \E k : attempt' = [attempt EXCEPT ![j] = k]
    BY <1>4 DEF Arrive, NotPairing, Exchange, Meets, Over, Step
  <2>2. Ending => Ending'
    BY <1>2, <2>1
  <2>3. UNCHANGED <<command, open, shown, crossed, advertised, session, events>>
    BY <1>4 DEF Arrive, NotPairing, Exchange, windowVars
  <2>4. Active => Active'
    BY <2>3 DEF Active
  <2> QED
    BY <2>2, <2>3, <2>4, BesidePanel
<1>5. CASE CodeExpired(j) \/ Succeed(j)
  <2>1. Ending'
    BY <1>3, <1>5 DEF CodeExpired, Succeed
  <2>2. UNCHANGED <<command, open, shown, crossed, advertised, events>> /\ session' = None
    BY <1>5 DEF CodeExpired, Succeed, windowVars
  <2> QED
    BY <2>1, <2>2, BesidePanel
<1>6. CASE Failed(j)
  <2>1. UNCHANGED <<command, open, shown, crossed, advertised>> /\ session # None
    BY <1>6 DEF Failed
  <2>2. ASSUME events' = <<>>
        PROVE  events = <<>> /\ (Active \/ Ending => Active' \/ Ending')
    <3>1. session' = [session EXCEPT !.failures = @ + 1] /\ events' = events
      BY <1>6, <2>2 DEF Failed, IInv, TypeOK
    <3>2. session \in Sessions
      BY <2>1, SessionType
    <3>3. session' \in [code: Nat, expired: BOOLEAN, failures: Nat] /\ session'.code = session.code
      BY <3>1, <3>2, PanelTypes DEF Sessions
    <3>4. Active => Active'
      BY <2>1, <3>3, PairingAssumption DEF Active
    <3>5. attempt[j].pc # "ending" /\ \E k : attempt' = [attempt EXCEPT ![j] = k]
      BY <1>6 DEF Failed, Over
    <3> QED
      BY <1>2, <2>2, <3>1, <3>4, <3>5
  <2> QED
    BY <2>1, <2>2, BesidePanel
<1>7. CASE EndAttempt(j)
  <2>1. /\ UNCHANGED <<command, open, shown>> /\ session' = None /\ ~advertised'
        /\ crossed => crossed'
    BY <1>7 DEF EndAttempt
  <2>2. events' # <<>>
    BY <1>7 DEF EndAttempt, IInv, TypeOK
  <2> QED
    BY <2>1, <2>2, BesidePanel
<1> QED
  BY <1>4, <1>5, <1>6, <1>7 DEF Accept, Fail

LEMMA ExpirePanel ==
  ASSUME IInv, PanelInv, Expire
  PROVE  PanelInv'
<1>1. session # None /\ session \in Sessions /\ session' = [session EXCEPT !.expired = TRUE]
  BY SessionType DEF Expire
<1>2. session' \in Sessions /\ session'.code = session.code
  BY <1>1 DEF Sessions
<1>3. Sessions \subseteq [code: Nat, expired: BOOLEAN, failures: Nat]
  BY PanelTypes, PairingAssumption DEF Sessions
<1>4. Active => Active'
  BY <1>1, <1>2, <1>3, PairingAssumption DEF Expire, Active, windowVars
<1>5. Ending => Ending'
  BY DEF Expire, Ending
<1> QED
  BY <1>1, <1>4, <1>5, BesidePanel DEF Expire, windowVars

(* The panel's own steps.                                                  *)
LEMMA GivePanel ==
  ASSUME IInv, PanelInv, NEW c \in Command, OpenPanel(c) \/ NewCode(c) \/ Close(c),
         crossed => crossed'
  PROVE  PanelInv'
<1>1. PICK l \in 0..MaxCommands : Given(l)
  BY DEF PanelInv
<1>2. open \in Nat /\ mounts \in Nat
  BY PanelTypes
<1>3. CASE Close(c)
  <2>1. /\ Given(c)' /\ c \in 0..MaxCommands /\ c # 0
        /\ command'[c].op = "cancel" /\ command'[c].pc = "lock"
        /\ \A d \in Command : Sound(d)'
    BY <1>1, <1>2, <1>3, GiveEffect DEF Close, PanelInv
  <2>2. open' = 0 /\ shown' = 0
    BY <1>3 DEF Close
  <2>3. Closed(c)'
    BY <2>1, <2>2 DEF Closed
  <2> QED
    BY <2>1, <2>2, <2>3 DEF PanelInv
<1>4. CASE OpenPanel(c) \/ NewCode(c)
  <2>1. PICK mount \in Nat : Give(c, "start", mount) /\ mount # 0 /\ open' = mount
    BY <1>2, <1>4 DEF OpenPanel, NewCode, windowVars
  <2>2. /\ Given(c)' /\ c \in 0..MaxCommands /\ c # 0
        /\ command'[c].op = "start" /\ command'[c].mount = mount /\ command'[c].pc = "lock"
        /\ \A d \in Command : Sound(d)'
    BY <1>1, <2>1, GiveEffect DEF PanelInv
  <2>3. Opened(c)'
    BY <2>1, <2>2 DEF Opened
  <2> QED
    BY <2>1, <2>2, <2>3 DEF PanelInv
<1> QED
  BY <1>3, <1>4

LEMMA DeliverPanel ==
  ASSUME IInv, PanelInv, Panel
  PROVE  PanelInv'
<1>1. PICK l \in 0..MaxCommands : Given(l) /\ (crossed \/ Closed(l) \/ Opened(l))
  BY DEF PanelInv
<1>2. CASE DeliverCode
  <2>1. /\ UNCHANGED <<session, advertised, attempt, command, open>>
        /\ open = 0 => shown' = shown
    BY <1>2 DEF DeliverCode
  <2>2. Given(l)' /\ \A c \in Command : Sound(c)'
    BY <1>1, <2>1 DEF Given, PanelInv, Sound
  <2>3. crossed => crossed'
    BY <1>2 DEF DeliverCode, Show
  <2>4. Closed(l) => Closed(l)'
    BY <2>1 DEF Closed
  <2>5. Opened(l) => crossed' \/ Opened(l)'
    <3>1. SUFFICES ASSUME Opened(l) PROVE crossed' \/ (shown' # 0 => Active')
      BY <2>1 DEF Opened
    <3>2. Show(Head(events))
      BY <1>2, <3>1 DEF DeliverCode, Opened
    <3> QED
      BY <2>1, <3>2 DEF Show, Active
  <2> QED
    BY <1>1, <2>1, <2>2, <2>3, <2>4, <2>5 DEF PanelInv
<1>3. CASE DeliverPaired /\ open # 0
  BY <1>3, GivePanel DEF DeliverPaired
<1>4. CASE DeliverPaired /\ open = 0
  <2>1. UNCHANGED <<session, advertised, attempt, command, open, shown, crossed>>
    BY <1>4 DEF DeliverPaired
  <2>2. Given(l)' /\ \A c \in Command : Sound(c)'
    BY <1>1, <2>1 DEF Given, PanelInv, Sound
  <2>3. Closed(l) => Closed(l)'
    BY <2>1 DEF Closed
  <2>4. ~Opened(l)
    BY <1>4 DEF Opened
  <2> QED
    BY <1>1, <2>1, <2>2, <2>3, <2>4 DEF PanelInv
<1> QED
  BY <1>2, <1>3, <1>4 DEF Panel

(* The commands.                                                           *)
LEMMA RunPanel ==
  ASSUME IInv, PanelInv, NEW c \in Command, Run(c)
  PROVE  PanelInv'
<1>1. PICK l \in 0..MaxCommands : Given(l) /\ (crossed \/ Closed(l) \/ Opened(l))
  BY DEF PanelInv
<1>2. /\ open \in Nat /\ issued \in Nat /\ Command \subseteq Nat \ {0}
      /\ Command = 1..MaxCommands /\ MaxCommands \in Nat
  BY PanelTypes DEF Command
<1>3. \A d \in Command : d # c => command'[d] = command[d]
  BY RunEffect
<1>4. command[c].pc # "new" /\ command'[c].pc # "new" /\ Sound(c)' /\ command[c].pc # "done"
  <2>1. Sound(c)
    BY DEF PanelInv
  <2>2. CASE StartPairing(c)
    BY <1>2, <2>1, <2>2, RunEffect DEF Sound
  <2>3. CASE EndPairing(c)
    BY <2>3, RunEffect DEF Sound
  <2>4. CASE Advertise(c)
    <3>1. command[c].op \in {"start", "cancel"}
      BY <2>1, <2>4, RunEffect DEF Sound
    <3> QED
      BY <2>1, <2>4, <3>1, RunEffect DEF Sound
  <2>5. CASE Reply(c)
    BY <2>5, RunEffect DEF Sound
  <2> QED
    BY <2>2, <2>3, <2>4, <2>5 DEF Run
<1>5. Given(l)' /\ \A d \in Command : Sound(d)'
  BY <1>1, <1>3, <1>4 DEF Given, PanelInv, Sound
<1>6. c <= l /\ l \in Command /\ l # 0 /\ command[l].pc # "new"
  BY <1>1, <1>2, <1>4 DEF Given
<1>7. open' = open /\ (crossed => crossed')
  BY DEF Run, StartPairing, EndPairing, Advertise, Reply, Show, windowVars
<1>8. open = 0 => shown' = 0
  <2>1. CASE Reply(c)
    <3>1. command[c].mount # 0
      BY <2>1, RunEffect DEF PanelInv, Sound
    <3> QED
      BY <2>1, <3>1 DEF Reply, PanelInv
  <2>2. CASE ~Reply(c)
    BY <2>2 DEF Run, StartPairing, EndPairing, Advertise, PanelInv, windowVars
  <2> QED
    BY <2>1, <2>2
<1>9. ASSUME ~crossed'
      PROVE  Closed(l)' \/ Opened(l)'
  <2>1. Closed(l) \/ Opened(l)
    BY <1>1, <1>7, <1>9
  <2>2. CASE Reply(c)
    <3>1. UNCHANGED <<session, advertised, attempt, events>>
      BY <2>2 DEF Reply
    <3>2. CASE Closed(l)
      <4>1. c # l
        BY <1>6, <2>2, <3>2, RunEffect DEF Closed
      <4> QED
        BY <1>3, <1>6, <1>7, <3>1, <3>2, <4>1 DEF Closed
    <3>3. CASE Opened(l)
      <4>1. CASE open = command[c].mount
        <5>1. shown' # 0 => Active'
          BY <1>9, <2>2, <3>1, <4>1 DEF Reply, Show, Active
        <5>2. c # l => command'[l] = command[l]
          BY <1>3, <1>6
        <5>3. c = l => command'[l].pc = "done"
          BY <2>2, RunEffect
        <5> QED
          BY <1>7, <3>3, <5>1, <5>2, <5>3 DEF Opened
      <4>2. CASE open # command[c].mount
        <5>1. c # l
          BY <2>2, <3>3, <4>2, RunEffect DEF Opened
        <5>2. command'[l] = command[l] /\ shown' = shown
          BY <1>3, <1>6, <2>2, <4>2, <5>1 DEF Reply
        <5> QED
          BY <1>7, <3>1, <3>3, <5>2 DEF Opened, Active, Ending
      <4> QED
        BY <4>1, <4>2
    <3> QED
      BY <2>1, <3>2, <3>3
  <2>3. CASE ~Reply(c) /\ c # l
    <3>1. OutOfOrder(c) => crossed'
      BY <2>3 DEF Run, StartPairing, EndPairing, Advertise
    <3>2. ~OutOfOrder(c) /\ l > c
      <4>1. l > c
        BY <1>2, <1>6, <2>3
      <4> QED
        BY <1>9, <3>1, <4>1
    <3>3. command[l].pc \notin {"advertise", "reply", "done"}
      BY <1>6, <3>2 DEF OutOfOrder
    <3>4. command'[l] = command[l]
      BY <1>3, <1>6, <2>3
    <3> QED
      BY <1>6, <1>7, <2>1, <3>3, <3>4 DEF Closed, Opened
  <2>4. CASE StartPairing(c) /\ c = l
    <3>1. Opened(l)
      BY <1>6, <2>1, <2>4, RunEffect DEF Closed
    <3> QED
      BY <1>7, <2>4, <3>1, RunEffect DEF Opened
  <2>5. CASE EndPairing(c) /\ c = l
    <3>1. Closed(l)
      BY <1>6, <2>1, <2>5, RunEffect DEF Opened
    <3>2. session' = None
      BY <2>5 DEF EndPairing
    <3> QED
      BY <1>6, <1>7, <2>5, <3>1, <3>2, RunEffect DEF Closed
  <2>6. CASE Advertise(c) /\ c = l
    <3>1. CASE Closed(l)
      <4>1. command[l].op = "cancel" /\ session = None
        BY <1>6, <2>6, <3>1, RunEffect DEF Closed
      <4>2. session' = None /\ ~advertised'
        BY <2>6, <4>1 DEF Advertise
      <4>3. command'[l].pc = "done"
        BY <2>6, <4>1, RunEffect
      <4> QED
        BY <1>7, <3>1, <4>2, <4>3 DEF Closed
    <3>2. CASE Opened(l)
      <4>1. command[l].op = "start" /\ command[l].mount = open
        BY <2>6, <3>2, RunEffect DEF Opened
      <4>2. command'[l].pc = "reply" /\ command'[l].op = "start" /\ command'[l].mount = open
        BY <2>6, <4>1, RunEffect
      <4> QED
        BY <1>7, <3>2, <4>2 DEF Opened
    <3> QED
      BY <2>1, <3>1, <3>2
  <2> QED
    BY <2>2, <2>3, <2>4, <2>5, <2>6 DEF Run
<1> QED
  BY <1>5, <1>7, <1>8, <1>9 DEF PanelInv

LEMMA PanelInvariant == Spec => []PanelInv
<1>1. Init => PanelInv
  <2>1. SUFFICES ASSUME Init PROVE PanelInv
    OBVIOUS
  <2>2. 0 \in 0..MaxCommands /\ \A c \in Command : ~(c <= 0)
    BY PairingAssumption DEF Command
  <2>3. \A c \in Command : command[c].pc = "new"
    BY <2>1 DEF Init, NoCommand
  <2>4. Given(0) /\ Closed(0) /\ \A c \in Command : Sound(c)
    BY <2>1, <2>2, <2>3 DEF Init, Given, Closed, Sound
  <2> QED
    BY <2>1, <2>2, <2>4 DEF Init, PanelInv
<1>2. IInv /\ PanelInv /\ [Next]_vars => PanelInv'
  <2>1. SUFFICES ASSUME IInv, PanelInv, [Next]_vars PROVE PanelInv'
    OBVIOUS
  <2>2. ASSUME NEW c \in Command, OpenPanel(c) \/ NewCode(c) \/ ClosePanel(c)
        PROVE  PanelInv'
    BY <2>1, <2>2, GivePanel DEF OpenPanel, NewCode, ClosePanel
  <2>3. CASE UNCHANGED vars
    <3>1. (Active => Active') /\ (Ending => Ending')
      BY <2>3 DEF vars, windowVars, Active, Ending
    <3> QED
      BY <2>1, <2>3, <3>1, BesidePanel DEF vars, windowVars
  <2> QED
    BY <2>1, <2>2, <2>3, DeliverPanel, RunPanel, AttemptPanel, ExpirePanel DEF Next
<1> QED
  BY <1>1, <1>2, IInvariant, PTL DEF Spec

(* When nothing is under way, the code on show is the session's, and a     *)
(* device whose panel is closed accepts no attempts and is not announced;  *)
(* however start_pairing, cancel_pairing, the attempts and their events    *)
(* interleave, unless one came after what had replaced it.                 *)
THEOREM ShownWorks == Spec => []ShownIsActive
<1>1. PanelInv => ShownIsActive
  <2>1. SUFFICES ASSUME PanelInv, Idle, events = <<>>, ~crossed
                 PROVE  IF open = 0 THEN session = None /\ ~advertised
                        ELSE shown # 0 => session # None /\ session.code = shown
    BY DEF ShownIsActive
  <2>2. PICK l \in 0..MaxCommands : Given(l) /\ (Closed(l) \/ Opened(l))
    BY <2>1 DEF PanelInv
  <2>3. l # 0 => command[l].pc = "done"
    <3>1. l # 0 => l \in Command /\ l <= l
      BY PairingAssumption DEF Command
    <3>2. l # 0 => command[l].pc \in {"new", "done"} /\ command[l].pc # "new"
      BY <2>1, <2>2, <3>1 DEF Idle, Given
    <3> QED
      BY <3>2
  <2>4. ~Ending
    BY <2>1 DEF Idle, Ending
  <2> QED
    BY <2>1, <2>2, <2>3, <2>4 DEF Closed, Opened, Active
<1> QED
  BY <1>1, PanelInvariant, PTL
================================================================================
