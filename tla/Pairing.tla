-------------------------------- MODULE Pairing --------------------------------
(***************************************************************************)
(* The side that shows a pairing code: the commands start_pairing and      *)
(* cancel_pairing, the attempts of other devices (accept_pairing), both in *)
(* crates/cled-lan/src/node.rs, and the panel that shows the code          *)
(* (components/PairingPanel.tsx).  All of them take the mutex of the       *)
(* pairing session; an attempt keeps it while it talks with the other      *)
(* device.  Commands run on threads of their own, in any order.  What a    *)
(* paired device is then told is Membership's.                             *)
(***************************************************************************)
EXTENDS Integers, Sequences

CONSTANTS
  None,
  MaxAttempts, \* bound: attempts of other devices
  MaxPairingFailures,  \* MAX_PAIRING_FAILURES, 3
  MaxCommands, \* bound: commands of the panel
  MaxCodes     \* bound: codes generated

ASSUME PairingAssumption ==
  /\ {MaxPairingFailures, MaxAttempts, MaxCommands, MaxCodes} \subseteq Nat \ {0}
  /\ None \notin Nat \cup [code: Nat, expired: BOOLEAN, failures: Nat]

VARIABLES
  session,    \* Inner.pairing
  holder,     \* the attempt that holds its mutex
  advertised, \* what discovery announces
  attempt,
  command,
  events,     \* codes, and "paired", on their way to the window
  open,       \* the panel: which time it is open, or 0
  shown,      \* the code it shows, or 0
  mounts, issued,
  guesses,    \* history: attempts to use each code
  cancelled,  \* history: codes that a finished cancel_pairing ended
  crossed     \* history: a command, a reply or the end of an attempt came
              \* after what had replaced it

windowVars == <<events, open, shown, mounts>>
vars == <<session, holder, advertised, attempt, command, windowVars, issued,
          guesses, cancelled, crossed>>

Code == 1..MaxCodes
Attempt == 1..MaxAttempts   \* in the order they come
Command == 1..MaxCommands   \* in the order they are given

TypeOK ==
  /\ session \in {None} \cup
       [code: Code, expired: BOOLEAN, failures: 0..MaxPairingFailures - 1]
  /\ holder \in {None} \cup Attempt
  /\ holder # None => session # None /\ attempt[holder].pc = "exchange"
  /\ advertised \in BOOLEAN
  /\ attempt \in [Attempt -> [pc: {"new", "waiting", "exchange", "ending", "done"},
                              guess: {0} \cup Code, agreed: BOOLEAN]]
  /\ command \in [Command -> [op: {"none", "start", "cancel"}, mount: Nat, code: {0} \cup Code,
                              pc: {"new", "lock", "advertise", "reply", "done"}]]
  /\ events \in Seq({0} \cup Code \cup {MaxCodes + 1})
  /\ open \in 0..mounts /\ shown \in {0} \cup Code /\ issued \in {0} \cup Code
  /\ guesses \in [Code -> Nat] /\ cancelled \subseteq Code /\ crossed \in BOOLEAN

PairedEvent == MaxCodes + 1

NoCommand == [op |-> "none", mount |-> 0, code |-> 0, pc |-> "new"]
NoAttempt == [pc |-> "new", guess |-> 0, agreed |-> FALSE]

Init ==
  /\ session = None /\ holder = None /\ advertised = FALSE
  /\ attempt = [j \in Attempt |-> NoAttempt]
  /\ command = [c \in Command |-> NoCommand]
  /\ events = <<>> /\ open = 0 /\ shown = 0 /\ mounts = 0 /\ issued = 0
  /\ guesses = [c \in Code |-> 0] /\ cancelled = {} /\ crossed = FALSE
-----------------------------------------------------------------------------
(* The panel.                                                              *)

NextCommand(c) == command[c].pc = "new" /\ \A b \in Command : b < c => command[b].pc # "new"

(* A later command has already had the mutex.                              *)
OutOfOrder(c) == \E b \in Command : b > c /\ command[b].pc \in {"advertise", "reply", "done"}

Give(c, op, mount) ==
  /\ NextCommand(c)
  /\ command' = [command EXCEPT ![c] = [@ EXCEPT !.op = op, !.mount = mount, !.pc = "lock"]]

(* Opened, or the button "New code", there whenever no code is shown.      *)
OpenPanel(c) ==
  /\ open = 0
  /\ open' = mounts + 1 /\ mounts' = mounts + 1
  /\ Give(c, "start", mounts + 1)
  /\ UNCHANGED <<session, holder, advertised, attempt, events, shown, issued, guesses,
                 cancelled, crossed>>

NewCode(c) ==
  /\ open # 0 /\ shown = 0
  /\ Give(c, "start", open)
  /\ UNCHANGED <<session, holder, advertised, attempt, windowVars, issued, guesses,
                 cancelled, crossed>>

Close(c) ==
  /\ open # 0
  /\ open' = 0 /\ shown' = 0
  /\ Give(c, "cancel", open)
  /\ UNCHANGED mounts

ClosePanel(c) ==
  /\ Close(c)
  /\ UNCHANGED <<session, holder, advertised, attempt, events, issued, guesses, cancelled, crossed>>

Show(code) ==
  /\ shown' = code
  /\ crossed' = (crossed \/ (code # 0 /\ (session = None \/ session.code # code)))

(* An event of the node: a code, none (0), or a device was paired.         *)
DeliverCode ==
  /\ events # <<>> /\ Head(events) # PairedEvent
  /\ events' = Tail(events)
  /\ IF open # 0 THEN Show(Head(events)) ELSE UNCHANGED <<shown, crossed>>
  /\ UNCHANGED <<session, holder, advertised, attempt, command, open, mounts, issued,
                 guesses, cancelled>>

DeliverPaired ==
  /\ events # <<>> /\ Head(events) = PairedEvent
  /\ events' = Tail(events)
  /\ IF open # 0 THEN \E c \in Command : Close(c)
     ELSE UNCHANGED <<command, open, shown, mounts>>
  /\ UNCHANGED <<session, holder, advertised, attempt, issued, guesses, cancelled, crossed>>
-----------------------------------------------------------------------------
(* start_pairing and cancel_pairing.                                       *)

Holds(c) == command[c].pc = "lock" /\ holder = None

Returned(c) == command' = [command EXCEPT ![c] = [NoCommand EXCEPT !.pc = "done"]]

NewSession(code) == [code |-> code, expired |-> FALSE, failures |-> 0]

StartPairing(c) ==
  /\ Holds(c) /\ command[c].op = "start" /\ issued < MaxCodes
  /\ issued' = issued + 1
  /\ session' = NewSession(issued')
  /\ command' = [command EXCEPT ![c].pc = "advertise", ![c].code = issued']
  /\ crossed' = (crossed \/ OutOfOrder(c))
  /\ UNCHANGED <<holder, advertised, attempt, windowVars, guesses, cancelled>>

\* Mutant: cancelling only takes the announcement back.
EndPairingKeeps(c) ==
  /\ Holds(c) /\ command[c].op = "cancel"
  /\ cancelled' = IF session = None THEN cancelled ELSE cancelled \cup {session.code}
  /\ command' = [command EXCEPT ![c].pc = "advertise"]
  /\ crossed' = (crossed \/ OutOfOrder(c))
  /\ UNCHANGED <<session, holder, advertised, attempt, windowVars, issued, guesses>>

EndPairing(c) ==
  /\ Holds(c) /\ command[c].op = "cancel"
  /\ session' = None
  /\ cancelled' = IF session = None THEN cancelled ELSE cancelled \cup {session.code}
  /\ command' = [command EXCEPT ![c].pc = "advertise"]
  /\ crossed' = (crossed \/ OutOfOrder(c))
  /\ UNCHANGED <<holder, advertised, attempt, windowVars, issued, guesses>>

(* Discovery is told after the mutex is released.                          *)
Advertise(c) ==
  /\ command[c].pc = "advertise"
  /\ advertised' = (command[c].op = "start")
  /\ IF command[c].op = "cancel" THEN Returned(c)
     ELSE command' = [command EXCEPT ![c].pc = "reply"]
  /\ crossed' = (crossed \/ OutOfOrder(c))
  /\ UNCHANGED <<session, holder, attempt, windowVars, issued, guesses, cancelled>>

(* The code reaches the panel that asked for it.                           *)
Reply(c) ==
  /\ command[c].pc = "reply"
  /\ Returned(c)
  /\ IF open = command[c].mount THEN Show(command[c].code) ELSE UNCHANGED <<shown, crossed>>
  /\ UNCHANGED <<session, holder, advertised, attempt, events, open, mounts, issued, guesses,
                 cancelled>>

(* CODE_LIFETIME.                                                          *)
Expire ==
  /\ session # None /\ holder = None
  /\ session' = [session EXCEPT !.expired = TRUE]
  /\ UNCHANGED <<holder, advertised, attempt, command, windowVars, issued, guesses, cancelled,
                 crossed>>
-----------------------------------------------------------------------------
(* accept_pairing.                                                         *)

Step(j, pc) == attempt' = [attempt EXCEPT ![j].pc = pc]
Over(j) == attempt' = [attempt EXCEPT ![j] = [NoAttempt EXCEPT !.pc = "done"]]

(* A device comes with the code its user typed: the one shown, or wrong.   *)
Arrive(j) ==
  /\ attempt[j].pc = "new" /\ \A i \in Attempt : i < j => attempt[i].pc # "new"
  /\ \E guess \in {0, shown} :
       attempt' = [attempt EXCEPT ![j].pc = "waiting", ![j].guess = guess]
  /\ UNCHANGED <<session, holder, advertised, command, windowVars, issued, guesses, cancelled,
                 crossed>>

NotPairing(j) ==
  /\ attempt[j].pc = "waiting" /\ holder = None
  /\ session = None
  /\ Over(j)
  /\ UNCHANGED <<session, holder, advertised, command, windowVars, issued, guesses, cancelled,
                 crossed>>

CodeExpired(j) ==
  /\ attempt[j].pc = "waiting" /\ holder = None
  /\ session # None /\ session.expired
  /\ session' = None
  /\ Step(j, "ending")
  /\ UNCHANGED <<holder, advertised, command, windowVars, issued, guesses, cancelled, crossed>>

Meets(j) == attempt[j].pc = "waiting" /\ holder = None /\ session # None /\ ~session.expired

\* Mutant: the mutex is released before the exchange.
ExchangeUnlocked(j) ==
  /\ Meets(j)
  /\ guesses' = [guesses EXCEPT ![session.code] = @ + 1]
  /\ Step(j, "exchange")
  /\ UNCHANGED <<session, holder, advertised, command, windowVars, issued, cancelled, crossed>>

Exchange(j) ==
  /\ Meets(j)
  /\ holder' = j
  /\ guesses' = [guesses EXCEPT ![session.code] = @ + 1]
  /\ Step(j, "exchange")
  /\ UNCHANGED <<session, advertised, command, windowVars, issued, cancelled, crossed>>

\* Mutant: the mutex is not released before end_pairing takes it again.
SucceedLocked(j) ==
  /\ attempt[j].pc = "exchange" /\ session # None /\ attempt[j].guess = session.code
  /\ attempt' = [attempt EXCEPT ![j].pc = "ending", ![j].agreed = TRUE]
  /\ session' = None
  /\ UNCHANGED <<holder, advertised, command, windowVars, issued, guesses, cancelled, crossed>>

(* Both sides know the code.                                               *)
Succeed(j) ==
  /\ attempt[j].pc = "exchange" /\ session # None /\ attempt[j].guess = session.code
  /\ attempt' = [attempt EXCEPT ![j].pc = "ending", ![j].agreed = TRUE]
  /\ session' = None /\ holder' = None
  /\ UNCHANGED <<advertised, command, windowVars, issued, guesses, cancelled, crossed>>

\* Mutant: the window is not told of the new code.
FailSilently(j) ==
  /\ attempt[j].pc = "exchange" /\ session # None
  /\ IF session.failures + 1 < MaxPairingFailures
     THEN session' = [session EXCEPT !.failures = @ + 1] /\ UNCHANGED issued
     ELSE /\ issued < MaxCodes /\ issued' = issued + 1
          /\ session' = NewSession(issued')
  /\ holder' = None
  /\ Over(j)
  /\ UNCHANGED <<advertised, command, windowVars, guesses, cancelled, crossed>>

(* Wrong code, lost connection, or HANDSHAKE_TIMEOUT; a code that failed   *)
(* too often is replaced.                                                  *)
Failed(j) ==
  /\ attempt[j].pc = "exchange" /\ session # None
  /\ IF session.failures + 1 < MaxPairingFailures
     THEN session' = [session EXCEPT !.failures = @ + 1] /\ UNCHANGED <<issued, events>>
     ELSE /\ issued < MaxCodes /\ issued' = issued + 1
          /\ session' = NewSession(issued')
          /\ events' = Append(events, issued')
  /\ holder' = None
  /\ Over(j)
  /\ UNCHANGED <<advertised, command, open, shown, mounts, guesses, cancelled, crossed>>

\* Mutant: an exchange has no time limit.
FailUntimed(j) == attempt[j].guess # 0 /\ Failed(j)

Fail(j) == Failed(j)

(* end_pairing once more, after the mutex was released: it also ends a     *)
(* session that was started in between.                                    *)
EndAttempt(j) ==
  /\ attempt[j].pc = "ending" /\ holder = None
  /\ session' = None
  /\ crossed' = (crossed \/ session # None)
  /\ advertised' = FALSE
  /\ events' = Append(events, IF attempt[j].agreed THEN PairedEvent ELSE 0)
  /\ Over(j)
  /\ UNCHANGED <<holder, command, open, shown, mounts, issued, guesses, cancelled>>

Panel == DeliverCode \/ DeliverPaired
Run(c) == StartPairing(c) \/ EndPairing(c) \/ Advertise(c) \/ Reply(c)
Accept(j) == NotPairing(j) \/ CodeExpired(j) \/ Exchange(j) \/ Succeed(j) \/ Fail(j) \/ EndAttempt(j)

Next ==
  \/ \E c \in Command : OpenPanel(c) \/ NewCode(c) \/ ClosePanel(c) \/ Run(c)
  \/ \E j \in Attempt : Arrive(j) \/ Accept(j)
  \/ Panel \/ Expire

Spec == Init /\ [][Next]_vars

(* Threads and tasks run, an exchange times out, and the window handles    *)
(* events.                                                                 *)
FairSpec ==
  /\ Spec /\ WF_vars(Panel)
  /\ WF_vars(\E c \in Command : Run(c))
  /\ WF_vars(\E j \in Attempt : Accept(j))
-----------------------------------------------------------------------------
(* "Cap guessing": no code is ever tried more often than allowed, however  *)
(* many devices try at once ("attempts (and guesses) are sequential").     *)
GuessesBounded == \A code \in Code : guesses[code] <= MaxPairingFailures

(* Once cancel_pairing has ended a code, no attempt succeeds with it.      *)
NoneAfterCancel ==
  [][\A j \in Attempt : attempt'[j].agreed /\ ~attempt[j].agreed
       => attempt[j].guess \notin cancelled]_vars

(* When nothing is under way, the code on show is one that works, and a    *)
(* device whose panel is closed does not accept attempts; unless commands, *)
(* replies or ends of attempts had crossed.                                *)
Idle ==
  /\ \A c \in Command : command[c].pc \in {"new", "done"}
  /\ \A j \in Attempt : attempt[j].pc \in {"new", "done"}

ShownIsActive ==
  Idle /\ events = <<>> /\ ~crossed =>
    IF open = 0 THEN session = None /\ ~advertised
    ELSE shown # 0 => session # None /\ session.code = shown

(* Attempts end, even of a device that says nothing, so that none keeps    *)
(* the others, or the commands of the window, from the mutex.              *)
CommandsReturn == <>[]Idle
===============================================================================
