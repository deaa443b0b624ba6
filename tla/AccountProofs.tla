----------------------------- MODULE AccountProofs -----------------------------
(***************************************************************************)
(* Proofs about Account, for any number of commands, users, refresh        *)
(* tokens, relay URLs, faults and crashes.                                 *)
(***************************************************************************)
EXTENDS Account, TLAPS

(* What a call has got at each place: a setter what it saved, a command of *)
(* the sign-in nothing or a sign-in.                                       *)
CallRecord == [op: {"none", "set", "signIn", "signOut"}, pc: Pc, generation: 0..MaxCalls,
               cancelled: BOOLEAN, got: {None} \cup Stored \cup Settings, next: Status]

GoodCall ==
  {k \in CallRecord :
    /\ k.pc = "configure" => k.got \in Settings
    /\ k.pc # "configure" => k.got \in {None} \cup Stored
    /\ k.pc \in {"save", "set"} => k.got \in Stored
    /\ k.pc \in {"browser", "exchange", "save", "set", "check", "settle"} => k.op = "signIn"
    /\ k.pc \in {"take", "forget", "revoke"} => k.op = "signOut"
    /\ k.pc \in {"publish", "tell"} => k.op \in {"signIn", "signOut"}
    /\ k.op = "signOut" => k.next = "signedOut"}

Session == [stored: Stored, fresh: BOOLEAN]
Refresh == [at: {"none", "sent", "answered", "forget", "report"}, token: {0} \cup Token]

(* TypeOK, with the types of what TypeOK takes for granted.                *)
AuthTyped ==
  /\ session \in {None} \cup Session
  /\ file \in {None} \cup Stored
  /\ status \in Status
  /\ pending \in {None} \cup Call
  /\ generation \in {0} \cup Call
  /\ call \in [Call -> GoodCall]
  /\ \A c \in Call : At(c, "new") => generation < c
  /\ refresh \in Refresh
  /\ refresh.at \in {"sent", "answered"} => session # None
  /\ accepted \subseteq Token
  /\ issued \in 0..MaxTokens
  /\ revoked \in BOOLEAN /\ overtaken \in BOOLEAN /\ cut \in BOOLEAN

RelayTyped == RelayTypeOK /\ desired = FromInputs(inputs)

Typed ==
  /\ AuthTyped /\ RelayTyped
  /\ crashes \in 0..MaxCrashes /\ overlapped \in BOOLEAN
  /\ refresh.at # "none" => at = "token"
-----------------------------------------------------------------------------
(* What each step does to the calls.                                       *)

SameCall(k, l) ==
  k.op = l.op /\ k.pc = l.pc /\ k.generation = l.generation /\ k.got = l.got /\ k.next = l.next

OthersKeep(c) == \A d \in Call : d # c => SameCall(call[d], call'[d])

LEMMA Parameters ==
  /\ MaxCalls \in Nat /\ MaxTokens \in Nat \ {0} /\ MaxFaults \in Nat /\ MaxCrashes \in Nat
  /\ "signedOut" \notin User /\ "signingIn" \notin User
  /\ None \notin Stored /\ None \notin Session
BY SignInAssumption, NoneAssumption, RelayClientAssumption, AccountAssumption DEF Session

LEMMA NoCallGood ==
  /\ NoCall \in GoodCall /\ Done \in GoodCall
  /\ Done.pc = "done" /\ Done.op = "none" /\ Done.got = None
  /\ Done.generation = 0 /\ Done.next = "signedOut"
<1>1. NoCall = [op |-> "none", pc |-> "new", generation |-> 0, cancelled |-> FALSE,
               got |-> None, next |-> "signedOut"]
  BY DEF NoCall
<1>2. "signedOut" \in Status /\ 0 \in 0..MaxCalls /\ {"new", "done"} \subseteq Pc
  BY Parameters DEF Status, Pc
<1>3. NoCall \in CallRecord
  BY <1>1, <1>2 DEF CallRecord
<1>4. ASSUME NEW k \in CallRecord
      PROVE  LET l == [k EXCEPT !.pc = "done"]
             IN  /\ l \in CallRecord /\ l.pc = "done"
                 /\ l.op = k.op /\ l.got = k.got /\ l.generation = k.generation /\ l.next = k.next
  BY <1>2 DEF CallRecord
<1>5. /\ Done \in CallRecord
      /\ Done.pc = "done" /\ Done.op = "none" /\ Done.got = None
      /\ Done.generation = 0 /\ Done.next = "signedOut"
  <2>1. Done = [NoCall EXCEPT !.pc = "done"]
    BY DEF Done
  <2>2. /\ NoCall.op = "none" /\ NoCall.got = None
        /\ NoCall.generation = 0 /\ NoCall.next = "signedOut"
    BY <1>1
  <2> QED
    BY <1>3, <1>4, <2>1, <2>2
<1>6. NoCall \in GoodCall
  BY <1>1, <1>3 DEF GoodCall
<1>7. Done \in GoodCall
  BY <1>5 DEF GoodCall
<1> QED
  BY <1>5, <1>6, <1>7

LEMMA SetCall ==
  ASSUME call \in [Call -> GoodCall], NEW c \in Call, NEW r \in GoodCall,
         call' = [call EXCEPT ![c] = r]
  PROVE  /\ call' \in [Call -> GoodCall] /\ OthersKeep(c)
         /\ call'[c] = r
BY DEF OthersKeep, SameCall

LEMMA SetPc ==
  ASSUME call \in [Call -> GoodCall], NEW c \in Call, NEW p \in Pc, Step(c, p),
         [call[c] EXCEPT !.pc = p] \in GoodCall
  PROVE  /\ call' \in [Call -> GoodCall] /\ OthersKeep(c)
         /\ call'[c] = [call[c] EXCEPT !.pc = p]
<1>1. call' = [call EXCEPT ![c] = [call[c] EXCEPT !.pc = p]]
  BY DEF Step
<1> QED
  BY <1>1, SetCall

LEMMA CancelledCalls ==
  ASSUME call \in [Call -> GoodCall]
  PROVE  /\ Cancelled(call) \in [Call -> GoodCall]
         /\ \A d \in Call : SameCall(call[d], Cancelled(call)[d])
<1>1. ASSUME NEW k \in GoodCall
      PROVE  [k EXCEPT !.cancelled = TRUE] \in GoodCall
             /\ SameCall(k, [k EXCEPT !.cancelled = TRUE])
  BY DEF GoodCall, CallRecord, SameCall
<1>2. CASE pending # None /\ Listens(pending)
  <2>1. Cancelled(call) = [call EXCEPT ![pending] = [call[pending] EXCEPT !.cancelled = TRUE]]
    BY <1>2 DEF Cancelled
  <2>2. \A d \in Call : Cancelled(call)[d] =
          IF d = pending THEN [call[pending] EXCEPT !.cancelled = TRUE] ELSE call[d]
    BY <2>1
  <2>3. \A d \in Call : Cancelled(call)[d] \in GoodCall /\ SameCall(call[d], Cancelled(call)[d])
    <3>1. ASSUME NEW d \in Call
          PROVE  call[d] \in GoodCall /\ SameCall(call[d], call[d])
      BY DEF SameCall
    <3>2. ASSUME NEW d \in Call, d = pending
          PROVE  Cancelled(call)[d] \in GoodCall /\ SameCall(call[d], Cancelled(call)[d])
      BY <1>1, <2>2, <3>1, <3>2, Zenon
    <3>3. ASSUME NEW d \in Call, d # pending
          PROVE  Cancelled(call)[d] \in GoodCall /\ SameCall(call[d], Cancelled(call)[d])
      BY <2>2, <3>1, <3>3, Zenon
    <3> QED
      BY <3>2, <3>3
  <2> QED
    BY <2>1, <2>3
<1>3. CASE ~(pending # None /\ Listens(pending))
  BY <1>3 DEF Cancelled, SameCall
<1> QED
  BY <1>2, <1>3

(* The steps that only move a call on.                                     *)
Moves ==
  {<<"publish", "tell">>, <<"browser", "exchange">>, <<"browser", "check">>,
   <<"exchange", "check">>, <<"save", "set">>, <<"set", "check">>, <<"check", "settle">>,
   <<"forget", "publish">>}

Becomes(c, op, pc, gen, got, next) ==
  /\ call' \in [Call -> GoodCall] /\ OthersKeep(c)
  /\ call'[c].op = op /\ call'[c].pc = pc /\ call'[c].generation = gen
  /\ call'[c].got = got /\ call'[c].next = next

LEMMA GoodParts ==
  ASSUME NEW k \in GoodCall
  PROVE  /\ k.op \in {"none", "set", "signIn", "signOut"} /\ k.pc \in Pc
         /\ k.generation \in 0..MaxCalls /\ k.next \in Status
         /\ k.pc = "configure" => k.got \in Settings
         /\ k.pc # "configure" => k.got \in {None} \cup Stored
         /\ k.pc \in {"save", "set"} => k.got \in Stored
         /\ k.pc \in {"browser", "exchange", "save", "set", "check", "settle"} => k.op = "signIn"
         /\ k.pc \in {"take", "forget", "revoke"} => k.op = "signOut"
         /\ k.pc \in {"publish", "tell"} => k.op \in {"signIn", "signOut"}
         /\ k.op = "signOut" => k.next = "signedOut"
BY DEF GoodCall, CallRecord

LEMMA CallParts ==
  ASSUME call \in [Call -> GoodCall], NEW c \in Call
  PROVE  call[c] \in GoodCall
OBVIOUS

LEMMA MoveGood ==
  ASSUME NEW k \in GoodCall, NEW p, <<k.pc, p>> \in Moves
  PROVE  LET l == [k EXCEPT !.pc = p]
         IN  /\ l \in GoodCall
             /\ l.pc = p /\ l.op = k.op /\ l.generation = k.generation
             /\ l.got = k.got /\ l.next = k.next
<1>1. k.pc # "configure" /\ p \in Pc \ {"configure", "new"} /\ p \notin {"save", "take", "forget", "revoke"}
  BY DEF Moves, Pc
<1>2. p = "set" => k.pc = "save"
  BY DEF Moves
<1>3. p \in {"publish", "tell"} => k.pc \in {"forget", "publish"}
  BY DEF Moves
<1>4. p \in {"browser", "exchange", "set", "check", "settle"}
        => k.pc \in {"browser", "exchange", "save", "set", "check", "settle"}
  BY DEF Moves
<1>5. k.op = "signOut" => p \in {"tell", "publish"}
  BY GoodParts DEF Moves
<1>6. [k EXCEPT !.pc = p] \in CallRecord
  BY <1>1 DEF GoodCall, CallRecord
<1>7. LET l == [k EXCEPT !.pc = p]
      IN  l.pc = p /\ l.op = k.op /\ l.generation = k.generation
          /\ l.got = k.got /\ l.next = k.next
  BY DEF GoodCall, CallRecord
<1> QED
  BY <1>1, <1>2, <1>3, <1>4, <1>5, <1>6, <1>7 DEF GoodCall

LEMMA MoveEffect ==
  ASSUME call \in [Call -> GoodCall], NEW c \in Call, NEW p, Step(c, p),
         <<call[c].pc, p>> \in Moves
  PROVE  Becomes(c, call[c].op, p, call[c].generation, call[c].got, call[c].next)
<1>1. PICK k \in GoodCall : k = call[c]
  BY CallParts
<1>2. PICK l : l = [k EXCEPT !.pc = p]
  OBVIOUS
<1>3. /\ l \in GoodCall /\ l.pc = p /\ l.op = k.op /\ l.generation = k.generation
      /\ l.got = k.got /\ l.next = k.next
  BY <1>1, <1>2, MoveGood
<1>4. call' = [call EXCEPT ![c] = l]
  BY <1>1, <1>2 DEF Step
<1> QED
  BY <1>1, <1>3, <1>4, SetCall DEF Becomes

(* The other steps of a call.                                              *)
LEMMA EndEffect ==
  ASSUME call \in [Call -> GoodCall], NEW c \in Call, call' = [call EXCEPT ![c] = Done]
  PROVE  Becomes(c, "none", "done", 0, None, "signedOut")
BY SetCall, NoCallGood DEF Becomes

LEMMA TellMoves ==
  ASSUME call \in [Call -> GoodCall], NEW c \in Call, Tell(c)
  PROVE  IF call[c].op = "signOut"
         THEN Becomes(c, "signOut", "revoke", call[c].generation, call[c].got, call[c].next)
         ELSE IF call[c].next = "signingIn"
         THEN Becomes(c, "signIn", "browser", call[c].generation, call[c].got, "signingIn")
         ELSE Becomes(c, "none", "done", 0, None, "signedOut")
<1>1. PICK k \in GoodCall : k = call[c]
  BY CallParts
<1>2. k.pc = "tell" /\ k.op \in {"signIn", "signOut"}
  BY <1>1, GoodParts DEF Tell, At
<1>3. CASE k.op = "signOut"
  <2>1. PICK l : l = [k EXCEPT !.pc = "revoke"]
    OBVIOUS
  <2>2. /\ l \in GoodCall /\ l.pc = "revoke" /\ l.op = "signOut" /\ l.generation = k.generation
        /\ l.got = k.got /\ l.next = k.next
    BY <1>2, <1>3, <2>1 DEF GoodCall, CallRecord, Pc
  <2>3. call' = [call EXCEPT ![c] = l]
    BY <1>1, <1>3, <2>1 DEF Tell
  <2> QED
    BY <1>1, <1>3, <2>2, <2>3, SetCall DEF Becomes
<1>4. CASE k.op # "signOut" /\ k.next = "signingIn"
  <2>1. PICK l : l = [k EXCEPT !.pc = "browser"]
    OBVIOUS
  <2>2. /\ l \in GoodCall /\ l.pc = "browser" /\ l.op = "signIn" /\ l.generation = k.generation
        /\ l.got = k.got /\ l.next = k.next
    BY <1>2, <1>4, <2>1 DEF GoodCall, CallRecord, Pc
  <2>3. call' = [call EXCEPT ![c] = l]
    BY <1>1, <1>4, <2>1 DEF Tell
  <2> QED
    BY <1>1, <1>4, <2>2, <2>3, SetCall DEF Becomes
<1>5. CASE k.op # "signOut" /\ k.next # "signingIn"
  <2>1. call' = [call EXCEPT ![c] = Done]
    BY <1>1, <1>5 DEF Tell
  <2> QED
    BY <1>1, <1>5, <2>1, EndEffect
<1> QED
  BY <1>3, <1>4, <1>5

LEMMA ExchangeMoves ==
  ASSUME call \in [Call -> GoodCall], issued \in 0..MaxTokens, NEW c \in Call, Exchange(c)
  PROVE  \E user \in User :
           /\ Becomes(c, "signIn", "save", call[c].generation,
                      [user |-> user, token |-> issued'], call[c].next)
           /\ [user |-> user, token |-> issued'] \in Stored
<1>1. PICK k \in GoodCall : k = call[c]
  BY CallParts
<1>2. k.pc = "exchange" /\ k.op = "signIn"
  BY <1>1, GoodParts DEF Exchange, At
<1>3. PICK user \in User :
        call' = [call EXCEPT ![c].pc = "save", ![c].got = [user |-> user, token |-> issued']]
  BY DEF Exchange
<1>4. PICK got : got = [user |-> user, token |-> issued']
  OBVIOUS
<1>5. got \in Stored
  <2>1. issued' \in Token
    BY Parameters DEF Exchange, Token
  <2> QED
    BY <1>4, <2>1 DEF Stored
<1>6. PICK l : l = [k EXCEPT !.pc = "save", !.got = got]
  OBVIOUS
<1>7. /\ l \in GoodCall /\ l.pc = "save" /\ l.op = "signIn" /\ l.generation = k.generation
      /\ l.got = got /\ l.next = k.next
  BY <1>2, <1>5, <1>6 DEF GoodCall, CallRecord, Pc
<1>8. call' = [call EXCEPT ![c] = l]
  BY <1>1, <1>3, <1>4, <1>6
<1> QED
  BY <1>1, <1>4, <1>5, <1>7, <1>8, SetCall DEF Becomes

LEMMA SettleMoves ==
  ASSUME call \in [Call -> GoodCall], session \in {None} \cup Session, NEW c \in Call, Settle(c)
  PROVE  /\ Becomes(c, "signIn", "publish", call[c].generation, call[c].got, Outcome(c))
         /\ Outcome(c) \in {"signedOut"} \cup User
<1>1. PICK k \in GoodCall : k = call[c]
  BY CallParts
<1>2. k.pc = "settle" /\ k.op = "signIn" /\ k.got \in {None} \cup Stored
  BY <1>1, GoodParts DEF Settle, At
<1>3. Outcome(c) \in {"signedOut"} \cup User
  BY <1>1, <1>2 DEF Outcome, Session, Stored
<1>4. PICK next \in Status : next = Outcome(c)
  BY <1>3 DEF Status
<1>5. PICK l : l = [k EXCEPT !.pc = "publish", !.next = next]
  OBVIOUS
<1>6. /\ l \in GoodCall /\ l.pc = "publish" /\ l.op = "signIn" /\ l.generation = k.generation
      /\ l.got = k.got /\ l.next = next
  BY <1>2, <1>4, <1>5 DEF GoodCall, CallRecord, Pc
<1>7. call' = [call EXCEPT ![c] = l]
  BY <1>1, <1>4, <1>5 DEF Settle
<1> QED
  BY <1>1, <1>3, <1>4, <1>6, <1>7, SetCall DEF Becomes

LEMMA TakeMoves ==
  ASSUME call \in [Call -> GoodCall], session \in {None} \cup Session, NEW c \in Call, Take(c)
  PROVE  Becomes(c, "signOut", "forget", call[c].generation,
                 IF session = None THEN None ELSE session.stored, "signedOut")
<1>1. PICK k \in GoodCall : k = call[c]
  BY CallParts
<1>2. k.pc = "take" /\ k.op = "signOut" /\ k.next = "signedOut"
  BY <1>1, GoodParts DEF Take, At
<1>3. PICK got \in {None} \cup Stored : got = IF session = None THEN None ELSE session.stored
  BY DEF Session
<1>4. PICK l : l = [k EXCEPT !.pc = "forget", !.got = got]
  OBVIOUS
<1>5. /\ l \in GoodCall /\ l.pc = "forget" /\ l.op = "signOut" /\ l.generation = k.generation
      /\ l.got = got /\ l.next = k.next
  BY <1>2, <1>3, <1>4 DEF GoodCall, CallRecord, Pc
<1>6. call' = [call EXCEPT ![c] = l]
  BY <1>1, <1>3, <1>4 DEF Take
<1> QED
  BY <1>1, <1>2, <1>3, <1>5, <1>6, SetCall DEF Becomes

LEMMA BeginSetMoves ==
  ASSUME call \in [Call -> GoodCall], NEW c \in Call, BeginSet(c)
  PROVE  Becomes(c, "set", "configure", call[c].generation, settings', call[c].next)
<1>1. PICK k \in GoodCall : k = call[c]
  BY CallParts
<1>2. settings' \in Settings
  BY DEF BeginSet, Save
<1>3. PICK l : l = [k EXCEPT !.op = "set", !.pc = "configure", !.got = settings']
  OBVIOUS
<1>4. /\ l \in GoodCall /\ l.pc = "configure" /\ l.op = "set" /\ l.generation = k.generation
      /\ l.got = settings' /\ l.next = k.next
  BY <1>2, <1>3 DEF GoodCall, CallRecord, Pc
<1>5. call' = [call EXCEPT ![c] = l]
  BY <1>1, <1>3 DEF BeginSet
<1> QED
  BY <1>1, <1>4, <1>5, SetCall DEF Becomes

LEMMA BeginSignInMoves ==
  ASSUME call \in [Call -> GoodCall], generation' \in 0..MaxCalls, NEW c \in Call, BeginSignIn(c)
  PROVE  Becomes(c, "signIn", "publish", generation', None, "signingIn")
<1>1. PICK l : l = [NoCall EXCEPT !.op = "signIn", !.pc = "publish",
                                  !.generation = generation', !.next = "signingIn"]
  OBVIOUS
<1>2. NoCall \in CallRecord /\ NoCall.got = None
  BY NoCallGood DEF GoodCall, NoCall
<1>3. /\ l \in CallRecord /\ l.op = "signIn" /\ l.pc = "publish" /\ l.generation = generation'
      /\ l.got = None /\ l.next = "signingIn"
  <2>1. PICK k \in CallRecord : k = NoCall
    BY <1>2
  <2>2. l = [k EXCEPT !.op = "signIn", !.pc = "publish",
                      !.generation = generation', !.next = "signingIn"]
    BY <1>1, <2>1
  <2> QED
    BY <1>2, <2>1, <2>2 DEF CallRecord, Pc, Status
<1>4. l \in GoodCall
  BY <1>3 DEF GoodCall
<1>5. PICK calls \in [Call -> GoodCall] :
        calls = Cancelled(call) /\ \A d \in Call : SameCall(call[d], calls[d])
  BY CancelledCalls
<1>6. call' = [calls EXCEPT ![c] = l]
  BY <1>1, <1>5 DEF BeginSignIn
<1>7. call' \in [Call -> GoodCall] /\ call'[c] = l /\ \A d \in Call : d # c => call'[d] = calls[d]
  BY <1>4, <1>5, <1>6
<1> QED
  BY <1>3, <1>5, <1>7 DEF Becomes, OthersKeep

LEMMA BeginSignOutMoves ==
  ASSUME call \in [Call -> GoodCall], generation' \in 0..MaxCalls, NEW c \in Call, BeginSignOut(c)
  PROVE  Becomes(c, "signOut", "take", generation', None, "signedOut")
<1>1. PICK l : l = [NoCall EXCEPT !.op = "signOut", !.pc = "take", !.generation = generation']
  OBVIOUS
<1>2. NoCall \in CallRecord /\ NoCall.got = None /\ NoCall.next = "signedOut"
  BY NoCallGood DEF GoodCall, NoCall
<1>3. /\ l \in CallRecord /\ l.op = "signOut" /\ l.pc = "take" /\ l.generation = generation'
      /\ l.got = None /\ l.next = "signedOut"
  <2>1. PICK k \in CallRecord : k = NoCall
    BY <1>2
  <2>2. l = [k EXCEPT !.op = "signOut", !.pc = "take", !.generation = generation']
    BY <1>1, <2>1
  <2> QED
    BY <1>2, <2>1, <2>2 DEF CallRecord, Pc, Status
<1>4. l \in GoodCall
  BY <1>3 DEF GoodCall
<1>5. PICK calls \in [Call -> GoodCall] :
        calls = Cancelled(call) /\ \A d \in Call : SameCall(call[d], calls[d])
  BY CancelledCalls
<1>6. call' = [calls EXCEPT ![c] = l]
  BY <1>1, <1>5 DEF BeginSignOut
<1>7. call' \in [Call -> GoodCall] /\ call'[c] = l /\ \A d \in Call : d # c => call'[d] = calls[d]
  BY <1>4, <1>5, <1>6
<1> QED
  BY <1>3, <1>5, <1>7 DEF Becomes, OthersKeep

LEMMA ReloadMoves ==
  ASSUME call \in [Call -> GoodCall], Reload
  PROVE  /\ call' \in [Call -> GoodCall]
         /\ \A d \in Call : IF At(d, "new") THEN call'[d] = call[d] ELSE call'[d] = Done
<1>1. call' = [d \in Call |-> IF At(d, "new") THEN call[d] ELSE Done]
  BY DEF Reload
<1> QED
  BY <1>1, NoCallGood
-----------------------------------------------------------------------------
(* Types.                                                                  *)

NewAfter == \A c \in Call : At(c, "new") => generation < c

LEMMA Numbers ==
  Call \subseteq Nat /\ Token \subseteq Nat /\ (\A c \in Call : c \in 1..MaxCalls)
BY Parameters DEF Call, Token

LEMMA SameGeneration ==
  ASSUME NewAfter, NEW c \in Call, NEW op, NEW pc, NEW gen, NEW got, NEW next,
         Becomes(c, op, pc, gen, got, next), pc # "new", generation' = generation
  PROVE  NewAfter'
<1>1. ASSUME NEW d \in Call, At(d, "new")'
      PROVE  generation' < d
  <2>1. d # c
    BY <1>1 DEF Becomes, At
  <2>2. At(d, "new")
    BY <1>1, <2>1 DEF Becomes, OthersKeep, SameCall, At
  <2> QED
    BY <2>2 DEF NewAfter
<1> QED
  BY <1>1 DEF NewAfter

LEMMA NextGeneration ==
  ASSUME NewAfter, generation \in {0} \cup Call, NEW c \in Call, Begins(c),
         generation' = generation + 1
  PROVE  generation' \in Call /\ generation' <= c
<1>1. At(c, "new")
  BY DEF Begins
<1>2. generation < c
  BY <1>1 DEF NewAfter
<1> QED
  BY <1>2, Numbers, Parameters DEF Call

LEMMA BegunAfter ==
  ASSUME NewAfter, generation \in {0} \cup Call, NEW c \in Call, Begins(c),
         generation' = generation + 1,
         NEW op, NEW pc, NEW gen, NEW got, NEW next,
         Becomes(c, op, pc, gen, got, next), pc # "new"
  PROVE  NewAfter'
<1>1. ASSUME NEW d \in Call, At(d, "new")'
      PROVE  generation' < d
  <2>1. d # c
    BY <1>1 DEF Becomes, At
  <2>2. At(d, "new")
    BY <1>1, <2>1 DEF Becomes, OthersKeep, SameCall, At
  <2>3. ~(d < c)
    BY <2>2 DEF Begins
  <2>4. generation' \in Call /\ generation' <= c
    BY NextGeneration
  <2> QED
    BY <2>1, <2>3, <2>4, Numbers
<1> QED
  BY <1>1 DEF NewAfter

(* What a step of a call may change, besides the calls.                    *)
RestTyped ==
  /\ session \in {None} \cup Session
  /\ file \in {None} \cup Stored
  /\ status \in Status
  /\ pending \in {None} \cup Call
  /\ generation \in {0} \cup Call
  /\ refresh \in Refresh
  /\ refresh.at \in {"sent", "answered"} => session # None
  /\ accepted \subseteq Token
  /\ issued \in 0..MaxTokens
  /\ revoked \in BOOLEAN /\ overtaken \in BOOLEAN /\ cut \in BOOLEAN

LEMMA AuthParts == AuthTyped <=> RestTyped /\ call \in [Call -> GoodCall] /\ NewAfter
BY DEF AuthTyped, RestTyped, NewAfter

LEMMA AuthPartsNext ==
  ASSUME RestTyped', NewAfter', NEW c, NEW op, NEW pc, NEW gen, NEW got, NEW next,
         Becomes(c, op, pc, gen, got, next)
  PROVE  AuthTyped'
BY DEF AuthTyped, RestTyped, NewAfter, Becomes

LEMMA BeginTyped ==
  ASSUME AuthTyped, NEW c \in Call, BeginSet(c) \/ BeginSignIn(c) \/ BeginSignOut(c)
  PROVE  AuthTyped'
<1>1. RestTyped /\ call \in [Call -> GoodCall] /\ NewAfter
  BY AuthParts
<1>2. CASE BeginSet(c)
  <2>1. Becomes(c, "set", "configure", call[c].generation, settings', call[c].next)
    BY <1>1, <1>2, BeginSetMoves
  <2>2. NewAfter'
    BY <1>1, <1>2, <2>1, SameGeneration DEF BeginSet
  <2>3. RestTyped'
    BY <1>1, <1>2 DEF BeginSet, RestTyped
  <2> QED
    BY <2>1, <2>2, <2>3, AuthPartsNext
<1>3. ASSUME BeginSignIn(c) \/ BeginSignOut(c)
      PROVE  generation' \in Call /\ Begins(c) /\ generation' = generation + 1
  <2>1. Begins(c) /\ generation' = generation + 1
    BY <1>3 DEF BeginSignIn, BeginSignOut
  <2> QED
    BY <1>1, <2>1, NextGeneration DEF RestTyped
<1>4. CASE BeginSignIn(c)
  <2>1. Becomes(c, "signIn", "publish", generation', None, "signingIn")
    BY <1>1, <1>3, <1>4, BeginSignInMoves, Numbers, Parameters DEF Call
  <2>2. NewAfter'
    BY <1>1, <1>3, <1>4, <2>1, BegunAfter DEF RestTyped
  <2>3. RestTyped'
    BY <1>1, <1>3, <1>4 DEF BeginSignIn, RestTyped
  <2> QED
    BY <2>1, <2>2, <2>3, AuthPartsNext
<1>5. CASE BeginSignOut(c)
  <2>1. Becomes(c, "signOut", "take", generation', None, "signedOut")
    BY <1>1, <1>3, <1>5, BeginSignOutMoves, Numbers, Parameters DEF Call
  <2>2. NewAfter'
    BY <1>1, <1>3, <1>5, <2>1, BegunAfter DEF RestTyped
  <2>3. RestTyped'
    BY <1>1, <1>3, <1>5 DEF BeginSignOut, RestTyped
  <2> QED
    BY <2>1, <2>2, <2>3, AuthPartsNext
<1> QED
  BY <1>2, <1>4, <1>5

LEMMA Changed ==
  ASSUME AuthTyped, NEW c \in Call, RestTyped', generation' = generation,
         NEW op, NEW pc, NEW gen, NEW got, NEW next,
         Becomes(c, op, pc, gen, got, next), pc # "new"
  PROVE  AuthTyped'
<1>1. NewAfter'
  BY AuthParts, SameGeneration
<1> QED
  BY <1>1, AuthPartsNext

(* The steps that only move the call on.                                   *)
LEMMA MovesTyped ==
  ASSUME AuthTyped, NEW c \in Call,
         \/ Publish(c) \/ LeaveBrowser(c) \/ ExchangeFails(c) \/ SaveSignIn(c) \/ SetSession(c)
         \/ Forget(c)
  PROVE  AuthTyped'
<1>1. RestTyped /\ call \in [Call -> GoodCall] /\ NewAfter
  BY AuthParts
<1>2. PICK k \in GoodCall : k = call[c]
  BY <1>1, CallParts
<1>3. k.next \in Status /\ (k.pc \in {"save", "set"} => k.got \in Stored)
  BY GoodParts
<1>4. generation' = generation
  BY DEF Publish, LeaveBrowser, ExchangeFails, SaveSignIn, SetSession, Forget
<1>5. \E p : Step(c, p) /\ <<call[c].pc, p>> \in Moves /\ p # "new"
  <2>1. CASE Publish(c)
    BY <2>1 DEF Publish, At, Moves
  <2>2. CASE LeaveBrowser(c)
    BY <2>2 DEF LeaveBrowser, At, Moves
  <2>3. CASE ExchangeFails(c)
    BY <2>3 DEF ExchangeFails, At, Moves
  <2>4. CASE SaveSignIn(c)
    BY <2>4 DEF SaveSignIn, At, Moves
  <2>5. CASE SetSession(c)
    BY <2>5 DEF SetSession, At, Moves
  <2>6. CASE Forget(c)
    BY <2>6 DEF Forget, At, Moves
  <2> QED
    BY <2>1, <2>2, <2>3, <2>4, <2>5, <2>6
<1>6. RestTyped'
  <2>1. CASE Publish(c)
    BY <1>1, <1>2, <1>3, <2>1 DEF Publish, At, RestTyped, Overtakes, Locked, Session
  <2>2. CASE LeaveBrowser(c)
    BY <1>1, <1>2, <1>3, <2>2 DEF LeaveBrowser, At, RestTyped, Overtakes, Locked, Session
  <2>3. CASE ExchangeFails(c)
    BY <1>1, <1>2, <1>3, <2>3 DEF ExchangeFails, At, RestTyped, Overtakes, Locked, Session
  <2>4. CASE SaveSignIn(c)
    BY <1>1, <1>2, <1>3, <2>4 DEF SaveSignIn, At, RestTyped, Overtakes, Locked, Session
  <2>5. CASE SetSession(c)
    BY <1>1, <1>2, <1>3, <2>5 DEF SetSession, At, RestTyped, Overtakes, Locked, Session
  <2>6. CASE Forget(c)
    BY <1>1, <1>2, <1>3, <2>6 DEF Forget, At, RestTyped, Overtakes, Locked, Session
  <2> QED
    BY <2>1, <2>2, <2>3, <2>4, <2>5, <2>6
<1>7. PICK p : Step(c, p) /\ <<call[c].pc, p>> \in Moves /\ p # "new"
  BY <1>5
<1>8. Becomes(c, call[c].op, p, call[c].generation, call[c].got, call[c].next)
  BY <1>1, <1>7, MoveEffect
<1> QED
  BY <1>4, <1>6, <1>7, <1>8, Changed

LEMMA TellTyped ==
  ASSUME AuthTyped, NEW c \in Call, Tell(c)
  PROVE  AuthTyped'
<1>1. RestTyped /\ call \in [Call -> GoodCall] /\ NewAfter
  BY AuthParts
<1>2. RestTyped' /\ generation' = generation
  BY <1>1 DEF RestTyped, Tell, Overtakes
<1>3. CASE call[c].op = "signOut"
  BY <1>1, <1>2, <1>3, TellMoves, Changed
<1>4. CASE call[c].op # "signOut" /\ call[c].next = "signingIn"
  BY <1>1, <1>2, <1>4, TellMoves, Changed
<1>5. CASE call[c].op # "signOut" /\ call[c].next # "signingIn"
  BY <1>1, <1>2, <1>5, TellMoves, Changed
<1> QED
  BY <1>3, <1>4, <1>5

LEMMA ExchangeTyped ==
  ASSUME AuthTyped, NEW c \in Call, Exchange(c)
  PROVE  AuthTyped'
<1>1. RestTyped /\ call \in [Call -> GoodCall] /\ NewAfter
  BY AuthParts
<1>2. RestTyped' /\ generation' = generation
  <2>1. issued' \in 0..MaxTokens /\ issued' \in Token
    BY <1>1, Parameters DEF RestTyped, Exchange, Token
  <2> QED
    BY <1>1, <2>1 DEF RestTyped, Exchange
<1>3. PICK user \in User :
        Becomes(c, "signIn", "save", call[c].generation,
                [user |-> user, token |-> issued'], call[c].next)
  BY <1>1, ExchangeMoves DEF RestTyped
<1> QED
  BY <1>2, <1>3, Changed

LEMMA CheckTyped ==
  ASSUME AuthTyped, NEW c \in Call, CheckGeneration(c)
  PROVE  AuthTyped'
<1>1. RestTyped /\ call \in [Call -> GoodCall] /\ NewAfter
  BY AuthParts
<1>2. RestTyped' /\ generation' = generation
  BY <1>1 DEF RestTyped, CheckGeneration
<1>3. CASE Newest(c)
  <2>1. Step(c, "settle") /\ <<call[c].pc, "settle">> \in Moves
    BY <1>3 DEF CheckGeneration, Step, At, Moves
  <2> QED
    BY <1>1, <1>2, <2>1, MoveEffect, Changed
<1>4. CASE ~Newest(c)
  <2>1. call' = [call EXCEPT ![c] = Done]
    BY <1>4 DEF CheckGeneration
  <2> QED
    BY <1>1, <1>2, <2>1, EndEffect, Changed
<1> QED
  BY <1>3, <1>4

LEMMA SettleTyped ==
  ASSUME AuthTyped, NEW c \in Call, Settle(c)
  PROVE  AuthTyped'
<1>1. RestTyped /\ call \in [Call -> GoodCall] /\ NewAfter
  BY AuthParts
<1>2. RestTyped' /\ generation' = generation
  BY <1>1 DEF RestTyped, Settle
<1> QED
  BY <1>1, <1>2, SettleMoves, Changed DEF RestTyped

LEMMA TakeTyped ==
  ASSUME AuthTyped, NEW c \in Call, Take(c)
  PROVE  AuthTyped'
<1>1. RestTyped /\ call \in [Call -> GoodCall] /\ NewAfter
  BY AuthParts
<1>2. RestTyped' /\ generation' = generation
  BY <1>1 DEF RestTyped, Take, Locked
<1> QED
  BY <1>1, <1>2, TakeMoves, Changed DEF RestTyped

LEMMA EndTyped ==
  ASSUME AuthTyped, NEW c \in Call, Revoke(c) \/ EndSet(c)
  PROVE  AuthTyped'
<1>1. RestTyped /\ call \in [Call -> GoodCall] /\ NewAfter
  BY AuthParts
<1>2. RestTyped' /\ generation' = generation
  BY <1>1 DEF RestTyped, Revoke, EndSet
<1>3. call' = [call EXCEPT ![c] = Done]
  BY DEF Revoke, EndSet
<1> QED
  BY <1>1, <1>2, <1>3, EndEffect, Changed

LEMMA SameCalls ==
  ASSUME AuthTyped, RestTyped', UNCHANGED <<call, generation>>
  PROVE  AuthTyped'
BY DEF AuthTyped, RestTyped, At

LEMMA CancelTyped ==
  ASSUME AuthTyped, CancelSignIn
  PROVE  AuthTyped' /\ \A d \in Call : SameCall(call[d], call'[d])
<1>1. RestTyped /\ call \in [Call -> GoodCall] /\ NewAfter
  BY AuthParts
<1>2. call' \in [Call -> GoodCall] /\ \A d \in Call : SameCall(call[d], call'[d])
  BY <1>1, CancelledCalls DEF CancelSignIn
<1>3. NewAfter'
  BY <1>1, <1>2 DEF NewAfter, SameCall, At, CancelSignIn
<1>4. RestTyped'
  BY <1>1 DEF RestTyped, CancelSignIn
<1> QED
  BY <1>2, <1>3, <1>4 DEF AuthTyped, RestTyped, NewAfter

(* The steps of access_token, and what happens elsewhere.                  *)
LEMMA RefreshTyped ==
  ASSUME AuthTyped,
         \/ StartRefresh \/ AnswerRefresh \/ Refreshed \/ Refused \/ ForgetRefused
         \/ ReportRefused \/ CutRefresh \/ Stale \/ RevokeElsewhere
  PROVE  AuthTyped'
<1>1. RestTyped
  BY AuthParts
<1>2. UNCHANGED <<call, generation>>
  BY DEF StartRefresh, AnswerRefresh, Refreshed, Refused, ForgetRefused, ReportRefused,
         CutRefresh, Stale, RevokeElsewhere
<1>3. 0 \in {0} \cup Token
  OBVIOUS
<1>4. ASSUME StartRefresh PROVE RestTyped'
  BY <1>1, <1>4 DEF StartRefresh, Refreshing, RestTyped, Refresh
<1>5. ASSUME AnswerRefresh PROVE RestTyped'
  <2>1. issued' \in 0..MaxTokens /\ (issued' = issued \/ issued' \in Token)
    BY <1>1, <1>5, Parameters DEF AnswerRefresh, RestTyped, Token
  <2>2. accepted' \subseteq Token
    BY <1>1, <1>5, <2>1 DEF AnswerRefresh, RestTyped, Refreshing
  <2>3. session \in Session
    BY <1>1, <1>5 DEF RestTyped, AnswerRefresh
  <2>4. session.stored.token \in Token
    BY <2>3 DEF Session, Stored
  <2>5. refresh' \in Refresh /\ refresh'.at = "answered"
    BY <1>5, <2>1, <2>4 DEF AnswerRefresh, Refreshing, Refresh
  <2> QED
    BY <1>1, <1>5, <2>1, <2>2, <2>5 DEF RestTyped, AnswerRefresh
<1>6. ASSUME Refreshed PROVE RestTyped'
  <2>1. session \in Session /\ refresh.token \in Token
    BY <1>1, <1>6 DEF Refreshed, RestTyped, Refresh
  <2>2. session' \in Session /\ session'.stored \in Stored
    <3>1. PICK stored \in Stored : stored = session.stored
      BY <2>1 DEF Session
    <3>2. [stored EXCEPT !.token = refresh.token] \in Stored
      BY <2>1, <3>1 DEF Stored
    <3> QED
      BY <1>6, <3>1, <3>2 DEF Refreshed, Session
  <2>3. file' \in {None} \cup Stored
    BY <1>1, <1>6, <2>2 DEF Refreshed, RestTyped
  <2> QED
    BY <1>1, <1>6, <2>2, <2>3 DEF Refreshed, Refreshing, RestTyped, Refresh
<1>7. ASSUME Refused PROVE RestTyped'
  BY <1>1, <1>7 DEF Refused, Refreshing, RestTyped, Refresh
<1>8. ASSUME ForgetRefused PROVE RestTyped'
  BY <1>1, <1>8 DEF ForgetRefused, Refreshing, RestTyped, Refresh
<1>9. ASSUME ReportRefused PROVE RestTyped'
  BY <1>1, <1>9 DEF ReportRefused, Refreshing, RestTyped, Refresh, Status
<1>10. ASSUME CutRefresh PROVE RestTyped'
  <2>1. cut' \in BOOLEAN
    BY <1>1, <1>10 DEF CutRefresh, RestTyped, Rotated
  <2> QED
    BY <1>1, <1>10, <2>1 DEF CutRefresh, Refreshing, RestTyped, Refresh
<1>11. ASSUME Stale PROVE RestTyped'
  <2>1. session' \in {None} \cup Session
    <3>1. CASE session = None
      BY <1>11, <3>1 DEF Stale
    <3>2. CASE session \in Session
      BY <1>11, <3>2 DEF Stale, Session
    <3> QED
      BY <1>1, <3>1, <3>2 DEF RestTyped
  <2> QED
    BY <1>1, <1>11, <2>1 DEF Stale, RestTyped, Locked
<1>12. ASSUME RevokeElsewhere PROVE RestTyped'
  BY <1>1, <1>12 DEF RevokeElsewhere, RestTyped
<1>13. RestTyped'
  BY <1>4, <1>5, <1>6, <1>7, <1>8, <1>9, <1>10, <1>11, <1>12
<1> QED
  BY <1>2, <1>13, SameCalls

LEMMA LoadedTypes ==
  ASSUME NEW f \in {None} \cup Stored
  PROVE  /\ Loaded(f) \in {None} \cup Session
         /\ StatusOf(f) \in {"signedOut"} \cup User
BY DEF Loaded, StatusOf, Session, Stored

LEMMA ReloadTyped ==
  ASSUME AuthTyped, Reload
  PROVE  AuthTyped'
<1>1. RestTyped /\ call \in [Call -> GoodCall]
  BY AuthParts
<1>2. file' \in {None} \cup Stored
  BY <1>1 DEF RestTyped, Reload
<1>3. session' \in {None} \cup Session /\ status' \in Status
  BY <1>2, LoadedTypes DEF Reload, Status
<1>4. refresh' \in Refresh /\ refresh'.at = "none"
  BY DEF Reload, NoRefresh, Refresh
<1>5. cut' \in BOOLEAN
  BY <1>1 DEF Reload, RestTyped, Rotated
<1>6. RestTyped'
  BY <1>1, <1>2, <1>3, <1>4, <1>5 DEF RestTyped, Reload
<1>7. NewAfter'
  BY Numbers, Parameters DEF NewAfter, Reload, Call
<1>8. call' \in [Call -> GoodCall]
  BY <1>1, ReloadMoves
<1> QED
  BY <1>6, <1>7, <1>8 DEF AuthTyped, RestTyped, NewAfter

(* The relay's part.                                                       *)
Inputs == [mode: {"lan", "relay"}, url: Url, signedIn: BOOLEAN]

LEMMA DesiredTypes ==
  ASSUME NEW in \in Inputs
  PROVE  /\ FromInputs(in).do \in {"off", "needsSignIn", "connect"}
         /\ FromInputs(in).do = "connect" => FromInputs(in).url \in Url /\ in.signedIn
BY DEF FromInputs, Inputs

LEMMA UpdateTyped ==
  ASSUME RelayTyped, NEW in \in Inputs, Update(in)
  PROVE  /\ inputs' \in Inputs /\ desired' = FromInputs(inputs')
         /\ desired'.do \in {"off", "needsSignIn", "connect"} /\ changed' \in BOOLEAN
<1>1. inputs' = in /\ desired' = FromInputs(in)
  BY DEF Update
<1>2. changed' \in BOOLEAN
  BY DEF Update, RelayTyped, RelayTypeOK
<1> QED
  BY <1>1, <1>2, DesiredTypes

LEMMA SettersTyped ==
  ASSUME RelayTyped,
         \/ \E next \in Settings : Save(next)
         \/ \E signedIn \in BOOLEAN : SetSignedIn(signedIn)
         \/ \E saved \in Settings : Configure(saved)
  PROVE  RelayTyped'
<1>1. inputs \in Inputs
  BY DEF RelayTyped, RelayTypeOK, Inputs
<1>2. ASSUME NEW next \in Settings, Save(next) PROVE RelayTyped'
  BY <1>2 DEF Save, RelayTyped, RelayTypeOK
<1>3. ASSUME NEW signedIn \in BOOLEAN, SetSignedIn(signedIn) PROVE RelayTyped'
  <2>1. [inputs EXCEPT !.signedIn = signedIn] \in Inputs
    BY <1>1 DEF Inputs
  <2>2. Update([inputs EXCEPT !.signedIn = signedIn])
    BY <1>3 DEF SetSignedIn
  <2> QED
    BY <1>3, <2>1, <2>2, UpdateTyped DEF SetSignedIn, RelayTyped, RelayTypeOK, Inputs
<1>4. ASSUME NEW saved \in Settings, Configure(saved) PROVE RelayTyped'
  <2>1. StartInputs(saved, inputs.signedIn) \in Inputs
    BY <1>1 DEF Inputs, StartInputs, Settings
  <2>2. Update(StartInputs(saved, inputs.signedIn))
    BY <1>4 DEF Configure
  <2> QED
    BY <1>4, <2>1, <2>2, UpdateTyped DEF Configure, RelayTyped, RelayTypeOK, Inputs
<1> QED
  BY <1>2, <1>3, <1>4

LEMMA TaskTyped ==
  ASSUME RelayTyped,
         \/ Look \/ Drop \/ GotToken \/ NoToken \/ Registered \/ Fails \/ Rejected
         \/ RejectedAgain \/ Dropped \/ Replaced \/ SignedOut \/ IdleEnds
  PROVE  RelayTyped'
<1>1. inputs \in Inputs
  BY DEF RelayTyped, RelayTypeOK, Inputs
<1>2. ASSUME Look PROVE RelayTyped'
  <2>1. desired.do = "connect" => desired.url \in Url
    BY <1>1, DesiredTypes DEF RelayTyped
  <2> QED
    BY <1>2, <2>1 DEF Look, RelayTyped, RelayTypeOK
<1>3. ASSUME Drop \/ GotToken \/ NoToken \/ Registered PROVE RelayTyped'
  BY <1>3 DEF Drop, GotToken, NoToken, Registered, RelayTyped, RelayTypeOK
<1>4. ASSUME Fails \/ Rejected \/ Dropped \/ Replaced PROVE RelayTyped'
  BY <1>4, Parameters DEF Fails, Rejected, Dropped, Replaced, Idle, RelayTyped, RelayTypeOK
<1>5. ASSUME RejectedAgain \/ IdleEnds PROVE RelayTyped'
  BY <1>5 DEF RejectedAgain, Idle, IdleEnds, RelayTyped, RelayTypeOK
<1>6. ASSUME SignedOut PROVE RelayTyped'
  <2>1. [inputs EXCEPT !.signedIn = FALSE] \in Inputs
    BY <1>1 DEF Inputs
  <2>2. Update([inputs EXCEPT !.signedIn = FALSE])
    BY <1>6 DEF SignedOut
  <2> QED
    BY <1>6, <2>1, <2>2, UpdateTyped DEF SignedOut, RelayTyped, RelayTypeOK, Inputs
<1> QED
  BY <1>2, <1>3, <1>4, <1>5, <1>6

LEMMA StartTypes ==
  ASSUME NEW s \in Settings, NEW signedIn \in BOOLEAN
  PROVE  StartInputs(s, signedIn) \in Inputs
BY DEF Settings, Inputs, StartInputs

LEMMA RestartTyped ==
  ASSUME RelayTyped, NEW signedIn \in BOOLEAN, Restart(signedIn)
  PROVE  RelayTyped'
<1>1. StartInputs(settings, signedIn) \in Inputs
  BY StartTypes DEF RelayTyped, RelayTypeOK
<1>2. inputs' \in Inputs /\ desired' = FromInputs(inputs')
  BY <1>1 DEF Restart
<1>3. desired'.do \in {"off", "needsSignIn", "connect"}
  BY <1>2, DesiredTypes
<1>4. /\ changed' = FALSE /\ at' = "look" /\ rejections' = 0
      /\ UNCHANGED <<settings, url, delay, faults>>
  BY DEF Restart
<1>5. settings' \in Settings /\ url' \in Url /\ delay' \in {"some", "change", "stopped"}
      /\ faults' \in 0..MaxFaults
  BY <1>4 DEF RelayTyped, RelayTypeOK
<1>6. rejections' \in 0..1
      /\ at' \in {"look", "token", "connecting", "connected", "signedOut", "idle"}
  BY <1>4
<1>7. changed' \in BOOLEAN
  BY <1>4
<1> QED
  BY <1>2, <1>3, <1>5, <1>6, <1>7 DEF RelayTyped, RelayTypeOK, Inputs

LEMMA SameRelay ==
  ASSUME RelayTyped, UNCHANGED relayVars
  PROVE  RelayTyped'
BY DEF RelayTyped, RelayTypeOK, relayVars

LEMMA InitTyped ==
  ASSUME Init
  PROVE  Typed
<1>1. AuthInit /\ crashes = 0 /\ overlapped = FALSE
  BY DEF Init
<1>2. 1 \in Token
  BY Parameters DEF Token
<1>3. file \in {None} \cup Stored
  BY <1>1, <1>2 DEF AuthInit, Stored
<1>4. issued \in 0..MaxTokens /\ accepted \subseteq Token
  BY <1>1, <1>2, Parameters DEF AuthInit, Token
<1>5. session \in {None} \cup Session /\ status \in Status
  BY <1>1, <1>3, LoadedTypes DEF AuthInit, Status
<1>6. refresh \in Refresh /\ refresh.at = "none"
  BY <1>1 DEF AuthInit, NoRefresh, Refresh
<1>7. call \in [Call -> GoodCall]
  BY <1>1, NoCallGood DEF AuthInit
<1>8. \A c \in Call : generation < c
  BY <1>1, Numbers DEF AuthInit
<1>9. AuthTyped
  BY <1>1, <1>3, <1>4, <1>5, <1>6, <1>7, <1>8 DEF AuthTyped, AuthInit
<1>10. settings \in Settings /\ inputs \in Inputs
  <2>2. PICK signedIn \in BOOLEAN : signedIn <=> status \in User
    OBVIOUS
  <2>3. settings \in Settings
    BY RelayClientAssumption DEF Init, RelayInit, Settings
  <2>4. StartInputs(settings, signedIn) \in Inputs
    BY <2>3, StartTypes
  <2>5. inputs = StartInputs(settings, signedIn)
    BY <2>2 DEF Init, RelayInit, StartInputs
  <2> QED
    BY <2>3, <2>4, <2>5
<1>11. RelayTyped
  <2>1. desired = FromInputs(inputs) /\ desired.do \in {"off", "needsSignIn", "connect"}
    BY <1>10, DesiredTypes DEF Init, RelayInit
  <2>2. /\ url \in Url /\ delay \in {"some", "change", "stopped"} /\ faults \in 0..MaxFaults
        /\ rejections \in 0..1 /\ changed \in BOOLEAN
        /\ at \in {"look", "token", "connecting", "connected", "signedOut", "idle"}
    <3>1. RelayInit(status \in User)
      BY DEF Init
    <3>2. url \in Url /\ delay \in {"some", "change", "stopped"}
      BY <3>1, RelayClientAssumption DEF RelayInit
    <3>3. rejections \in 0..1 /\ faults \in 0..MaxFaults
      BY <3>1, Parameters DEF RelayInit
    <3>4. changed \in BOOLEAN
      BY <3>1 DEF RelayInit
    <3>5. at \in {"look", "token", "connecting", "connected", "signedOut", "idle"}
      BY <3>1 DEF RelayInit
    <3> QED
      BY <3>2, <3>3, <3>4, <3>5
  <2> QED
    BY <1>10, <2>1, <2>2 DEF RelayTyped, RelayTypeOK, Inputs
<1>12. crashes \in 0..MaxCrashes
  BY <1>1, Parameters
<1>13. overlapped \in BOOLEAN
  BY <1>1
<1>14. refresh.at # "none" => at = "token"
  BY <1>6
<1> QED
  BY <1>9, <1>11, <1>12, <1>13, <1>14 DEF Typed

(* access_token runs within the task.                                      *)
LEMMA TypedParts ==
  Typed <=> /\ AuthTyped /\ RelayTyped
            /\ crashes \in 0..MaxCrashes /\ overlapped \in BOOLEAN
            /\ refresh.at # "none" => at = "token"
BY DEF Typed

LEMMA CallStepTyped ==
  ASSUME Typed, NEW c \in Call, Begin(c) \/ Continue(c)
  PROVE  Typed'
<1>1. /\ AuthTyped /\ RelayTyped
      /\ crashes \in 0..MaxCrashes /\ overlapped \in BOOLEAN
      /\ refresh.at # "none" => at = "token"
  BY TypedParts
<1>2. CASE BeginSet(c)
  <2>1. AuthTyped'
    BY <1>1, <1>2, BeginTyped
  <2>2. RelayTyped'
    BY <1>1, <1>2, SettersTyped DEF BeginSet
  <2> QED
    BY <1>1, <1>2, <2>1, <2>2 DEF Typed, BeginSet, Save
<1>3. CASE (BeginSignIn(c) \/ BeginSignOut(c)) /\ UNCHANGED <<relayVars, windowVars>>
  <2>1. AuthTyped'
    BY <1>1, <1>3, BeginTyped
  <2>2. RelayTyped'
    BY <1>1, <1>3, SameRelay
  <2> QED
    BY <1>1, <1>3, <2>1, <2>2 DEF Typed, BeginSignIn, BeginSignOut, relayVars, windowVars
<1>4. CASE TellRelay(c)
  <2>1. AuthTyped'
    BY <1>1, <1>4, TellTyped DEF TellRelay
  <2>2. PICK signedIn \in BOOLEAN : signedIn <=> call[c].next \in User
    OBVIOUS
  <2>3. SetSignedIn(call[c].next \in User)
    BY <1>4 DEF TellRelay
  <2>4. SetSignedIn(signedIn)
    <3>1. inputs \in Inputs
      BY <1>1 DEF RelayTyped, RelayTypeOK, Inputs
    <3>2. [inputs EXCEPT !.signedIn = (call[c].next \in User)]
            = [inputs EXCEPT !.signedIn = signedIn]
      BY <2>2, <3>1 DEF Inputs
    <3> QED
      BY <2>3, <3>2 DEF SetSignedIn
  <2>5. RelayTyped'
    BY <1>1, <2>4, SettersTyped
  <2>6. UNCHANGED <<refresh, at, windowVars>>
    BY <1>4, <2>4 DEF TellRelay, Tell, SetSignedIn
  <2> QED
    BY <1>1, <2>1, <2>5, <2>6 DEF Typed, windowVars
<1>5. CASE EndSet(c)
  <2>1. AuthTyped'
    BY <1>1, <1>5, EndTyped
  <2>2. call[c].got \in Settings
    BY <1>1, <1>5, CallParts, GoodParts DEF EndSet, At, AuthTyped
  <2>3. RelayTyped'
    BY <1>1, <1>5, <2>2, SettersTyped DEF EndSet
  <2>4. overlapped' \in BOOLEAN
    BY <1>1, <1>5 DEF EndSet
  <2> QED
    BY <1>1, <1>5, <2>1, <2>3, <2>4 DEF Typed, EndSet, Configure
<1>6. CASE /\ \/ Publish(c) \/ AnswerSignIn(c) \/ Exchange(c) \/ ExchangeFails(c) \/ SaveSignIn(c)
              \/ SetSession(c) \/ CheckGeneration(c) \/ Settle(c)
              \/ Take(c) \/ Forget(c) \/ Revoke(c)
           /\ UNCHANGED <<relayVars, windowVars>>
  <2>1. AuthTyped'
    BY <1>1, <1>6, MovesTyped, ExchangeTyped, CheckTyped, SettleTyped, TakeTyped, EndTyped
       DEF AnswerSignIn
  <2>2. RelayTyped'
    BY <1>1, <1>6, SameRelay
  <2>3. refresh' = refresh
    BY <1>6 DEF Publish, AnswerSignIn, LeaveBrowser, Exchange, ExchangeFails, SaveSignIn,
                SetSession, CheckGeneration, Settle, Take, Forget, Revoke
  <2> QED
    BY <1>1, <1>6, <2>1, <2>2, <2>3 DEF Typed, relayVars, windowVars
<1> QED
  BY <1>2, <1>3, <1>4, <1>5, <1>6 DEF Begin, Continue

LEMMA SameAuth ==
  ASSUME AuthTyped, UNCHANGED authVars
  PROVE  AuthTyped'
BY DEF AuthTyped, authVars, At

LEMMA TaskStepTyped ==
  ASSUME Typed, Task \/ Service \/ Elsewhere
  PROVE  Typed'
<1>1. /\ AuthTyped /\ RelayTyped
      /\ crashes \in 0..MaxCrashes /\ overlapped \in BOOLEAN
      /\ refresh.at # "none" => at = "token"
  BY TypedParts
<1>2. windowVars' = windowVars
  BY DEF Task, Service, Elsewhere
<1>3. ASSUME AuthTyped', RelayTyped', refresh'.at # "none" => at' = "token"
      PROVE  Typed'
  BY <1>1, <1>2, <1>3 DEF Typed, windowVars
<1>4. CASE at = "token" /\ (StartRefresh \/ Refused \/ ForgetRefused) /\ UNCHANGED relayVars
  BY <1>1, <1>3, <1>4, RefreshTyped, SameRelay DEF relayVars
<1>5. CASE GotToken /\ HasToken /\ UNCHANGED authVars
  BY <1>1, <1>3, <1>5, SameAuth, TaskTyped DEF authVars, HasToken
<1>6. CASE (GotToken /\ Refreshed) \/ (NoToken /\ ReportRefused) \/ (Drop /\ CutRefresh)
           \/ (Fails /\ CutRefresh)
  <2>1. AuthTyped' /\ RelayTyped'
    BY <1>1, <1>6, RefreshTyped, TaskTyped
  <2>2. refresh'.at = "none"
    BY <1>6 DEF Refreshed, ReportRefused, CutRefresh, Refreshing
  <2> QED
    BY <1>3, <2>1, <2>2
<1>7. CASE NoToken /\ HasNoToken /\ UNCHANGED authVars
  BY <1>1, <1>3, <1>7, SameAuth, TaskTyped DEF authVars, HasNoToken
<1>8. CASE Rejected /\ Stale
  BY <1>1, <1>3, <1>8, RefreshTyped, TaskTyped DEF Rejected, Stale
<1>9. CASE (RejectedAgain \/ Dropped \/ Replaced) /\ UNCHANGED authVars
  <2>1. at # "token"
    BY <1>9 DEF RejectedAgain, Dropped, Replaced
  <2> QED
    BY <1>1, <1>3, <1>9, <2>1, SameAuth, TaskTyped DEF authVars
<1>10. CASE (Look \/ Registered \/ SignedOut \/ IdleEnds) /\ UNCHANGED authVars
  <2>1. at # "token"
    BY <1>10 DEF Look, Registered, SignedOut, IdleEnds
  <2> QED
    BY <1>1, <1>3, <1>10, <2>1, SameAuth, TaskTyped DEF authVars
<1>11. CASE Service
  BY <1>1, <1>3, <1>11, RefreshTyped, SameRelay DEF Service, AnswerRefresh, relayVars
<1>12. CASE Elsewhere
  <2>1. AuthTyped' /\ refresh' = refresh
    BY <1>1, <1>12, RefreshTyped, CancelTyped
       DEF Elsewhere, Stale, RevokeElsewhere, CancelSignIn
  <2> QED
    BY <1>1, <1>3, <1>12, <2>1, SameRelay DEF Elsewhere, relayVars
<1>13. ASSUME Task
       PROVE  \/ at = "token" /\ (StartRefresh \/ Refused \/ ForgetRefused) /\ UNCHANGED relayVars
              \/ GotToken /\ HasToken /\ UNCHANGED authVars
              \/ (GotToken /\ Refreshed) \/ (NoToken /\ ReportRefused) \/ (Drop /\ CutRefresh)
                 \/ (Fails /\ CutRefresh)
              \/ NoToken /\ HasNoToken /\ UNCHANGED authVars
              \/ Rejected /\ Stale
              \/ (RejectedAgain \/ Dropped \/ Replaced) /\ UNCHANGED authVars
              \/ (Look \/ Registered \/ SignedOut \/ IdleEnds) /\ UNCHANGED authVars
  BY <1>13 DEF Task, AccessToken, GiveUp
<1> QED
  BY <1>4, <1>5, <1>6, <1>7, <1>8, <1>9, <1>10, <1>11, <1>12, <1>13

LEMMA CrashTyped ==
  ASSUME Typed, Crash
  PROVE  Typed'
<1>1. /\ AuthTyped /\ RelayTyped
      /\ crashes \in 0..MaxCrashes /\ overlapped \in BOOLEAN
  BY TypedParts
<1>2. AuthTyped'
  BY <1>1, ReloadTyped DEF Crash
<1>3. RelayTyped'
  BY <1>1, RestartTyped DEF Crash
<1>4. crashes' \in 0..MaxCrashes /\ overlapped' = overlapped
  BY <1>1, Parameters DEF Crash
<1>5. refresh'.at = "none"
  BY DEF Crash, Reload, NoRefresh
<1> QED
  BY <1>1, <1>2, <1>3, <1>4, <1>5 DEF Typed

LEMMA TypedInvariant == Spec => []Typed
<1>1. ASSUME Typed, [Next]_vars
      PROVE  Typed'
  <2>1. CASE UNCHANGED vars
    <3>1. AuthTyped' /\ RelayTyped'
      BY <1>1, <2>1, SameAuth, SameRelay, TypedParts DEF vars
    <3> QED
      BY <1>1, <2>1, <3>1 DEF Typed, vars, authVars, relayVars, windowVars
  <2> QED
    BY <1>1, <2>1, CallStepTyped, TaskStepTyped, CrashTyped DEF Next
<1> QED
  BY <1>1, InitTyped, PTL DEF Spec

(* Whatever the commands, the account service and the relay do, and        *)
(* wherever the program ends, every variable keeps its type; access_token  *)
(* runs only while the relay's task waits for it, and while it holds the   *)
(* lock there is a session.                                                *)
THEOREM AccountTyped == Spec => []TypeOK
<1>1. ASSUME Typed
      PROVE  TypeOK
  <2>1. \A c \in Call : call[c].pc \in Pc /\ call[c].next \in Status
    BY <1>1, CallParts, GoodParts DEF Typed, AuthTyped
  <2>2. refresh.at \in {"none", "sent", "answered", "forget", "report"}
    BY <1>1 DEF Typed, AuthTyped, Refresh
  <2>3. AuthTypeOK
    BY <1>1, <2>1, <2>2 DEF Typed, AuthTyped, AuthTypeOK, Session
  <2> QED
    BY <1>1, <2>3 DEF Typed, RelayTyped, TypeOK
<1> QED
  BY <1>1, TypedInvariant, PTL
-----------------------------------------------------------------------------
(* The settings.                                                           *)

InputsFollow == inputs.mode = settings.mode /\ inputs.url = settings.url

(* What a step of a call leaves of the others.                             *)
LEMMA OthersAt ==
  ASSUME NEW c \in Call, OthersKeep(c), NEW d \in Call, d # c, NEW pc
  PROVE  At(d, pc) <=> At(d, pc)'
BY DEF OthersKeep, SameCall, At

LEMMA ConfigureStays ==
  ASSUME SettingsFollowed, NEW c \in Call, ~At(c, "configure"), OthersKeep(c),
         overlapped' = overlapped, InputsFollow => InputsFollow'
  PROVE  SettingsFollowed'
<1>1. ASSUME NEW d \in Call, At(d, "configure")
      PROVE  At(d, "configure")'
  <2>1. d # c
    BY <1>1
  <2> QED
    BY <1>1, <2>1, OthersAt
<1> QED
  BY <1>1 DEF SettingsFollowed, InputsFollow

LEMMA CallsKeep ==
  ASSUME Typed, NEW c \in Call,
         \/ BeginSignIn(c) \/ BeginSignOut(c) \/ Tell(c) \/ Publish(c) \/ LeaveBrowser(c)
         \/ Exchange(c) \/ ExchangeFails(c) \/ SaveSignIn(c) \/ SetSession(c)
         \/ CheckGeneration(c) \/ Settle(c) \/ Take(c) \/ Forget(c) \/ Revoke(c)
  PROVE  OthersKeep(c) /\ ~At(c, "configure")
<1>1. RestTyped /\ call \in [Call -> GoodCall] /\ NewAfter
  BY TypedParts, AuthParts
<1>2. ~At(c, "configure")
  BY DEF At, Begins, BeginSignIn, BeginSignOut, Tell, Publish, LeaveBrowser, Exchange,
         ExchangeFails, SaveSignIn, SetSession, CheckGeneration, Settle, Take, Forget, Revoke
<1>3. CASE BeginSignIn(c) \/ BeginSignOut(c)
  <2>1. Begins(c) /\ generation' = generation + 1
    BY <1>3 DEF BeginSignIn, BeginSignOut
  <2>2. generation' \in 0..MaxCalls
    BY <1>1, <2>1, NextGeneration, Numbers, Parameters DEF RestTyped, Call
  <2> QED
    BY <1>1, <1>2, <1>3, <2>2, BeginSignInMoves, BeginSignOutMoves DEF Becomes
<1>4. CASE Tell(c)
  BY <1>1, <1>2, <1>4, TellMoves DEF Becomes
<1>5. CASE \/ Publish(c) \/ LeaveBrowser(c) \/ ExchangeFails(c) \/ SaveSignIn(c)
           \/ SetSession(c) \/ Forget(c)
  <2>1. PICK p \in Pc : Step(c, p)
    BY <1>5 DEF Publish, LeaveBrowser, ExchangeFails, SaveSignIn, SetSession, Forget, Pc
  <2>2. \A d \in Call : d # c => call'[d] = call[d]
    BY <1>1, <2>1 DEF Step
  <2> QED
    BY <1>2, <2>2 DEF OthersKeep, SameCall
<1>6. CASE Exchange(c)
  BY <1>1, <1>2, <1>6, ExchangeMoves DEF Becomes, RestTyped
<1>7. CASE CheckGeneration(c) \/ Revoke(c)
  <2>1. \A d \in Call : d # c => call'[d] = call[d]
    BY <1>1, <1>7 DEF CheckGeneration, Revoke
  <2> QED
    BY <1>2, <2>1 DEF OthersKeep, SameCall
<1>8. CASE Settle(c)
  BY <1>1, <1>2, <1>8, SettleMoves DEF Becomes, RestTyped
<1>9. CASE Take(c)
  BY <1>1, <1>2, <1>9, TakeMoves DEF Becomes, RestTyped
<1> QED
  BY <1>3, <1>4, <1>5, <1>6, <1>7, <1>8, <1>9

LEMMA SettingsSame ==
  ASSUME SettingsFollowed, overlapped' = overlapped,
         \A d \in Call : At(d, "configure") => At(d, "configure")', InputsFollow => InputsFollow'
  PROVE  SettingsFollowed'
BY DEF SettingsFollowed, InputsFollow

(* The window's setters save and then tell the relay connection: whatever  *)
(* else happens, it follows the saved settings, except while a setter has  *)
(* saved and not yet told, or after two setters overlapped.                *)
THEOREM RelayFollowsSettings == Spec => []SettingsFollowed
<1>1. ASSUME Init
      PROVE  SettingsFollowed
  <2>1. inputs.mode = settings.mode /\ inputs.url = settings.url
    BY <1>1 DEF Init, RelayInit, StartInputs
  <2> QED
    BY <2>1 DEF SettingsFollowed
<1>2. ASSUME Typed, SettingsFollowed, [Next]_vars
      PROVE  SettingsFollowed'
  <2>1. /\ AuthTyped /\ RelayTyped /\ call \in [Call -> GoodCall]
        /\ inputs \in Inputs
    BY <1>2, TypedParts, AuthParts DEF RelayTyped, RelayTypeOK, Inputs
  <2>2. ASSUME NEW c \in Call, BeginSet(c)
        PROVE  SettingsFollowed'
    <3>1. At(c, "configure")'
      BY <2>1, <2>2, BeginSetMoves DEF Becomes, At
    <3> QED
      BY <3>1 DEF SettingsFollowed
  <2>3. ASSUME NEW c \in Call, EndSet(c)
        PROVE  SettingsFollowed'
    <3>1. call[c].got \in Settings
      BY <2>1, <2>3, CallParts, GoodParts DEF EndSet, At
    <3>2. inputs' = StartInputs(call[c].got, inputs.signedIn) /\ settings' = settings
      BY <2>3 DEF EndSet, Configure, Update
    <3>3. CASE call[c].got = settings
      BY <3>2, <3>3 DEF StartInputs, SettingsFollowed
    <3>4. CASE call[c].got # settings
      BY <2>3, <3>4 DEF EndSet, SettingsFollowed
    <3> QED
      BY <3>3, <3>4
  <2>4. ASSUME NEW c \in Call, TellRelay(c)
        PROVE  SettingsFollowed'
    <3>1. inputs' = [inputs EXCEPT !.signedIn = call[c].next \in User] /\ settings' = settings
          /\ overlapped' = overlapped
      BY <2>4 DEF TellRelay, SetSignedIn, Update, windowVars
    <3>2. InputsFollow => InputsFollow'
      BY <2>1, <3>1 DEF InputsFollow, Inputs
    <3>3. OthersKeep(c) /\ ~At(c, "configure")
      BY <1>2, <2>4, CallsKeep DEF TellRelay
    <3> QED
      BY <1>2, <3>1, <3>2, <3>3, ConfigureStays
  <2>5. ASSUME NEW c \in Call,
               \/ BeginSignIn(c) \/ BeginSignOut(c) \/ Publish(c) \/ AnswerSignIn(c)
               \/ Exchange(c) \/ ExchangeFails(c) \/ SaveSignIn(c) \/ SetSession(c)
               \/ CheckGeneration(c) \/ Settle(c) \/ Take(c) \/ Forget(c) \/ Revoke(c),
               UNCHANGED <<relayVars, windowVars>>
        PROVE  SettingsFollowed'
    <3>1. OthersKeep(c) /\ ~At(c, "configure")
      BY <1>2, <2>5, CallsKeep DEF AnswerSignIn
    <3>2. overlapped' = overlapped /\ (InputsFollow => InputsFollow')
      BY <2>5 DEF relayVars, windowVars, InputsFollow
    <3> QED
      BY <1>2, <3>1, <3>2, ConfigureStays
  <2>6. CASE Task \/ Service \/ Elsewhere
    <3>1. overlapped' = overlapped
      BY <2>6 DEF Task, Service, Elsewhere, windowVars
    <3>2. \A d \in Call : At(d, "configure") => At(d, "configure")'
      <4>1. CASE CancelSignIn
        BY <2>1, <4>1, CancelTyped DEF SameCall, At
      <4>2. CASE ~CancelSignIn
        <5>1. call' = call
          BY <2>6, <4>2 DEF Task, Service, Elsewhere, AccessToken, GiveUp, authVars,
             StartRefresh, AnswerRefresh, Refreshed, Refused, ForgetRefused, ReportRefused,
             CutRefresh, Stale, RevokeElsewhere
        <5> QED
          BY <5>1 DEF At
      <4> QED
        BY <4>1, <4>2
    <3>3. InputsFollow => InputsFollow'
      <4>1. CASE SignedOut
        <5>1. inputs' = [inputs EXCEPT !.signedIn = FALSE] /\ settings' = settings
          BY <4>1 DEF SignedOut, Update
        <5> QED
          BY <2>1, <5>1 DEF InputsFollow, Inputs
      <4>2. CASE ~SignedOut
        <5>1. inputs' = inputs /\ settings' = settings
          BY <2>6, <4>2 DEF Task, Service, Elsewhere, AccessToken, GiveUp, relayVars,
             Look, Drop, GotToken, NoToken, Registered, Fails, Rejected, RejectedAgain,
             Dropped, Replaced, IdleEnds
        <5> QED
          BY <5>1 DEF InputsFollow
      <4> QED
        BY <4>1, <4>2
    <3> QED
      BY <1>2, <3>1, <3>2, <3>3, SettingsSame
  <2>7. CASE Crash
    <3>1. PICK signedIn \in BOOLEAN : Restart(signedIn)
      BY <2>7 DEF Crash
    <3>2. inputs' = StartInputs(settings, signedIn) /\ settings' = settings
      BY <3>1 DEF Restart
    <3> QED
      BY <3>2 DEF SettingsFollowed, StartInputs
  <2>8. CASE UNCHANGED vars
    <3>1. UNCHANGED <<call, inputs, settings, overlapped>>
      BY <2>8 DEF vars, authVars, relayVars, windowVars
    <3> QED
      BY <1>2, <3>1 DEF SettingsFollowed, At
  <2> QED
    BY <1>2, <2>2, <2>3, <2>4, <2>5, <2>6, <2>7, <2>8 DEF Next, Begin, Continue
<1> QED
  BY <1>1, <1>2, TypedInvariant, PTL DEF Spec
-----------------------------------------------------------------------------
(* The refresh tokens.  0 stands for none.                                 *)

SessionToken == IF session = None THEN 0 ELSE session.stored.token
FileToken == IF file = None THEN 0 ELSE file.token

(* What a sign-in has been given and not yet made the session; what a      *)
(* sign-out took from the session and is to revoke, and did remove from    *)
(* the file.                                                               *)
Hand(c) == IF call[c].pc \in {"save", "set"} THEN call[c].got.token ELSE 0

Took(c) ==
  call[c].op = "signOut" /\ call[c].pc \in {"forget", "publish", "tell", "revoke"}
  /\ call[c].got # None
Taken(c) == IF Took(c) THEN call[c].got.token ELSE 0
Gone(c) == IF Took(c) /\ call[c].pc # "forget" THEN call[c].got.token ELSE 0

Answered == refresh.at = "answered" /\ refresh.token # 0
Turned == Answered /\ refresh.token # SessionToken

(* Every token was issued; no two of them meet that a step could confuse;  *)
(* and unless the user removed the sign-in or a rotation was lost, the     *)
(* ones in use are accepted.                                               *)
Issued ==
  /\ accepted \subseteq 1..issued
  /\ SessionToken \in 0..issued /\ FileToken \in 0..issued /\ refresh.token \in 0..issued
  /\ \A c \in Call : Hand(c) \in 0..issued /\ Taken(c) \in 0..issued /\ Gone(c) \in {0, Taken(c)}

Apart ==
  /\ \A c \in Call : Hand(c) # 0 => Hand(c) # SessionToken
  /\ \A c \in Call : Taken(c) # 0 => Taken(c) # SessionToken
  /\ \A c \in Call : Gone(c) # 0 => Gone(c) # FileToken
  /\ \A c, d \in Call : Hand(c) # 0 => Hand(c) # Taken(d) /\ (c # d => Hand(c) # Hand(d))
  /\ Turned => \A c \in Call : refresh.token # Hand(c) /\ refresh.token # Taken(c)

Kept ==
  \/ revoked \/ cut
  \/ /\ ~Turned => {SessionToken, FileToken} \subseteq accepted \cup {0}
     /\ Answered => refresh.token \in accepted
     /\ \A c \in Call : Hand(c) \in accepted \cup {0}

TokenInv == Issued /\ Apart /\ Kept

LEMMA TurnedIsRotated ==
  ASSUME Typed
  PROVE  Turned <=> Rotated
BY DEF Typed, AuthTyped, Turned, Answered, Rotated, SessionToken

(* Steps after which nothing is held that was not held before.             *)
Lets ==
  /\ \A c \in Call : /\ Hand(c)' \in {0, Hand(c)} /\ Taken(c)' \in {0, Taken(c)}
                     /\ Gone(c)' \in {0, Gone(c)} /\ Gone(c)' \in {0, Taken(c)'}
  /\ SessionToken' \in {0, SessionToken} /\ FileToken' \in {0, FileToken}
  /\ issued' = issued /\ accepted' \subseteq accepted /\ refresh'.token \in 0..issued
  /\ Answered' => Answered /\ refresh' = refresh /\ SessionToken' = SessionToken

LEMMA LettingGo ==
  ASSUME TokenInv, issued \in Nat, Lets, accepted' = accepted \/ revoked',
         revoked => revoked', cut => cut', Turned => Turned' \/ cut'
  PROVE  TokenInv'
<1>1. Issued'
  BY DEF TokenInv, Issued, Lets
<1>2. Turned' => Turned /\ refresh' = refresh
  BY DEF Turned, Lets, Answered
<1>3. Apart'
  <2>1. \A c \in Call : (Hand(c) # 0 => Hand(c) # SessionToken)'
    BY DEF TokenInv, Apart, Lets
  <2>2. \A c \in Call : (Taken(c) # 0 => Taken(c) # SessionToken)'
    BY DEF TokenInv, Apart, Lets
  <2>3. \A c \in Call : (Gone(c) # 0 => Gone(c) # FileToken)'
    BY DEF TokenInv, Apart, Lets
  <2>4. \A c, d \in Call : (Hand(c) # 0 => Hand(c) # Taken(d) /\ (c # d => Hand(c) # Hand(d)))'
    BY DEF TokenInv, Apart, Lets
  <2>5. Turned' => \A c \in Call : (refresh.token # Hand(c) /\ refresh.token # Taken(c))'
    <3>1. ASSUME Turned' PROVE refresh.token # 0
      BY <1>2, <3>1 DEF Turned, Answered
    <3> QED
      BY <1>2, <3>1 DEF TokenInv, Apart, Lets
  <2> QED
    BY <2>1, <2>2, <2>3, <2>4, <2>5 DEF Apart
<1>4. Kept'
  <2>1. CASE revoked' \/ cut'
    BY <2>1 DEF Kept
  <2>2. CASE ~revoked' /\ ~cut'
    <3>1. ~revoked /\ ~cut /\ accepted' = accepted /\ (~Turned' => ~Turned)
      BY <2>2
    <3>2. ~Turned' => {SessionToken', FileToken'} \subseteq accepted' \cup {0}
      BY <3>1 DEF TokenInv, Kept, Lets
    <3>3. Answered' => refresh'.token \in accepted'
      BY <3>1 DEF TokenInv, Kept, Lets
    <3>4. \A c \in Call : Hand(c)' \in accepted' \cup {0}
      BY <3>1 DEF TokenInv, Kept, Lets
    <3> QED
      BY <3>2, <3>3, <3>4 DEF Kept
  <2> QED
    BY <2>1, <2>2
<1> QED
  BY <1>1, <1>3, <1>4 DEF TokenInv

heldVars == <<session, file, refresh, accepted, issued, revoked, cut>>

LEMMA TokensOfCalls ==
  ASSUME NEW c \in Call, NEW op, NEW pc, NEW gen, NEW got, NEW next,
         Becomes(c, op, pc, gen, got, next)
  PROVE  /\ \A d \in Call : d # c =>
              Hand(d)' = Hand(d) /\ Taken(d)' = Taken(d) /\ Gone(d)' = Gone(d)
         /\ Hand(c)' = IF pc \in {"save", "set"} THEN got.token ELSE 0
         /\ op # "signOut" => Taken(c)' = 0 /\ Gone(c)' = 0
         /\ pc \notin {"forget", "publish", "tell", "revoke"} => Taken(c)' = 0 /\ Gone(c)' = 0
         /\ op = "signOut" /\ pc \in {"forget", "publish", "tell", "revoke"} =>
              /\ Taken(c)' = IF got # None THEN got.token ELSE 0
              /\ Gone(c)' = IF pc # "forget" THEN Taken(c)' ELSE 0
<1>1. \A d \in Call : d # c => SameCall(call[d], call'[d])
  BY DEF Becomes, OthersKeep
<1>2. /\ call'[c].op = op /\ call'[c].pc = pc /\ call'[c].got = got
  BY DEF Becomes
<1>3. \A d \in Call : d # c =>
        Hand(d)' = Hand(d) /\ Taken(d)' = Taken(d) /\ Gone(d)' = Gone(d)
  BY <1>1 DEF SameCall, Hand, Taken, Gone, Took
<1> QED
  BY <1>2, <1>3 DEF Hand, Taken, Gone, Took

LEMMA GoneIsTaken ==
  \A c \in Call : Gone(c) \in {0, Taken(c)}
BY DEF Gone, Taken

LEMMA SameHeld ==
  ASSUME UNCHANGED heldVars
  PROVE  /\ SessionToken' = SessionToken /\ FileToken' = FileToken
         /\ Answered' = Answered /\ Turned' = Turned
         /\ refresh' = refresh /\ accepted' = accepted /\ issued' = issued
         /\ revoked' = revoked /\ cut' = cut
BY DEF heldVars, SessionToken, FileToken, Answered, Turned

LEMMA CallLetsGo ==
  ASSUME Typed, TokenInv, UNCHANGED heldVars, NEW c \in Call,
         \A d \in Call : d # c =>
           Hand(d)' = Hand(d) /\ Taken(d)' = Taken(d) /\ Gone(d)' = Gone(d),
         Hand(c)' \in {0, Hand(c)}, Taken(c)' \in {0, Taken(c)}, Gone(c)' \in {0, Gone(c)},
         Gone(c)' \in {0, Taken(c)'}
  PROVE  TokenInv'
<1>1. /\ SessionToken' = SessionToken /\ FileToken' = FileToken
      /\ Answered' = Answered /\ Turned' = Turned
      /\ refresh' = refresh /\ accepted' = accepted /\ issued' = issued
      /\ revoked' = revoked /\ cut' = cut
  BY SameHeld
<1>2. refresh.token \in 0..issued /\ \A d \in Call : Gone(d) \in {0, Taken(d)}
  BY DEF TokenInv, Issued
<1>3. issued \in Nat
  BY Parameters DEF Typed, AuthTyped
<1>4. \A d \in Call : /\ Hand(d)' \in {0, Hand(d)} /\ Taken(d)' \in {0, Taken(d)}
                      /\ Gone(d)' \in {0, Gone(d)} /\ Gone(d)' \in {0, Taken(d)'}
  <2>1. ASSUME NEW d \in Call, d # c
        PROVE  /\ Hand(d)' \in {0, Hand(d)} /\ Taken(d)' \in {0, Taken(d)}
               /\ Gone(d)' \in {0, Gone(d)} /\ Gone(d)' \in {0, Taken(d)'}
    BY <1>2, <2>1
  <2> QED
    BY <2>1
<1>5. Lets
  BY <1>1, <1>2, <1>4 DEF Lets
<1> QED
  BY <1>1, <1>3, <1>5, LettingGo

(* The steps of a call that hold no token anew.                            *)
LEMMA MovesKeepTokens ==
  ASSUME Typed, TokenInv, NEW c \in Call,
         \/ BeginSet(c) \/ BeginSignIn(c) \/ BeginSignOut(c) \/ Tell(c) \/ EndSet(c)
         \/ Publish(c) \/ LeaveBrowser(c) \/ ExchangeFails(c)
         \/ CheckGeneration(c) \/ Settle(c)
  PROVE  TokenInv'
<1>1. RestTyped /\ call \in [Call -> GoodCall] /\ NewAfter
  BY TypedParts, AuthParts
<1>2. UNCHANGED heldVars
  BY DEF heldVars, BeginSet, BeginSignIn, BeginSignOut, Tell, EndSet, Publish, LeaveBrowser,
         ExchangeFails, CheckGeneration, Settle
<1>3. ASSUME NEW op, NEW pc, NEW gen, NEW got, NEW next, Becomes(c, op, pc, gen, got, next),
             pc \notin {"save", "set", "forget", "publish", "tell", "revoke"} \/ op \notin {"signOut"},
             pc \notin {"save", "set"}
      PROVE  TokenInv'
  <2>1. /\ \A d \in Call : d # c =>
             Hand(d)' = Hand(d) /\ Taken(d)' = Taken(d) /\ Gone(d)' = Gone(d)
        /\ Hand(c)' = 0 /\ Taken(c)' = 0 /\ Gone(c)' = 0
    BY <1>3, TokensOfCalls
  <2> QED
    BY <1>2, <2>1, CallLetsGo
<1>4. CASE BeginSet(c)
  BY <1>1, <1>3, <1>4, BeginSetMoves
<1>5. CASE BeginSignIn(c) \/ BeginSignOut(c)
  <2>1. Begins(c) /\ generation' = generation + 1
    BY <1>5 DEF BeginSignIn, BeginSignOut
  <2>2. generation' \in 0..MaxCalls
    BY <1>1, <2>1, NextGeneration, Numbers, Parameters DEF RestTyped, Call
  <2>3. CASE BeginSignIn(c)
    BY <1>1, <1>3, <2>2, <2>3, BeginSignInMoves
  <2>4. CASE BeginSignOut(c)
    BY <1>1, <1>3, <2>2, <2>4, BeginSignOutMoves
  <2> QED
    BY <1>5, <2>3, <2>4
<1>6. CASE EndSet(c)
  <2>1. call' = [call EXCEPT ![c] = Done]
    BY <1>6 DEF EndSet
  <2>2. Becomes(c, "none", "done", 0, None, "signedOut")
    BY <1>1, <2>1, EndEffect
  <2> QED
    BY <1>3, <2>2
<1>7. CASE LeaveBrowser(c) \/ ExchangeFails(c)
  <2>1. PICK p \in {"exchange", "check"} : Step(c, p) /\ <<call[c].pc, p>> \in Moves
    BY <1>7 DEF LeaveBrowser, ExchangeFails, At, Moves
  <2> QED
    BY <1>1, <1>3, <2>1, MoveEffect
<1>8. CASE CheckGeneration(c)
  <2>1. CASE Newest(c)
    <3>1. Step(c, "settle") /\ <<call[c].pc, "settle">> \in Moves
      BY <1>8, <2>1 DEF CheckGeneration, Step, At, Moves
    <3> QED
      BY <1>1, <1>3, <3>1, MoveEffect
  <2>2. CASE ~Newest(c)
    <3>1. call' = [call EXCEPT ![c] = Done]
      BY <1>8, <2>2 DEF CheckGeneration
    <3>2. Becomes(c, "none", "done", 0, None, "signedOut")
      BY <1>1, <3>1, EndEffect
    <3> QED
      BY <1>3, <3>2
  <2> QED
    BY <2>1, <2>2
<1>9. CASE Settle(c)
  BY <1>1, <1>3, <1>9, SettleMoves DEF RestTyped
<1>10. ASSUME NEW pc, Becomes(c, call[c].op, pc, call[c].generation, call[c].got, call[c].next),
              call[c].pc \in {"publish", "tell"}, pc \in {"tell", "revoke"}
       PROVE  TokenInv'
  <2>1. /\ \A d \in Call : d # c =>
             Hand(d)' = Hand(d) /\ Taken(d)' = Taken(d) /\ Gone(d)' = Gone(d)
        /\ Hand(c)' = 0
        /\ call[c].op # "signOut" => Taken(c)' = 0 /\ Gone(c)' = 0
        /\ call[c].op = "signOut" => /\ Taken(c)' = IF call[c].got # None THEN call[c].got.token ELSE 0
                                     /\ Gone(c)' = Taken(c)'
    BY <1>10, TokensOfCalls
  <2>2. call[c].op = "signOut" => /\ Taken(c) = IF call[c].got # None THEN call[c].got.token ELSE 0
                                  /\ Gone(c) = Taken(c)
    BY <1>10 DEF Taken, Gone, Took
  <2> QED
    BY <1>2, <2>1, <2>2, CallLetsGo
<1>11. CASE Publish(c)
  <2>1. Step(c, "tell") /\ <<call[c].pc, "tell">> \in Moves /\ call[c].pc = "publish"
    BY <1>11 DEF Publish, At, Moves
  <2> QED
    BY <1>1, <1>10, <2>1, MoveEffect
<1>12. CASE Tell(c)
  <2>1. call[c].pc = "tell"
    BY <1>12 DEF Tell, At
  <2>2. CASE call[c].op = "signOut"
    BY <1>1, <1>10, <1>12, <2>1, <2>2, TellMoves
  <2>3. CASE call[c].op # "signOut" /\ call[c].next = "signingIn"
    BY <1>1, <1>3, <1>12, <2>3, TellMoves
  <2>4. CASE call[c].op # "signOut" /\ call[c].next # "signingIn"
    BY <1>1, <1>3, <1>12, <2>4, TellMoves
  <2> QED
    BY <2>2, <2>3, <2>4
<1> QED
  BY <1>4, <1>5, <1>6, <1>7, <1>8, <1>9, <1>11, <1>12

(* The steps that hold or let go of a token.                               *)
LEMMA TokenTypes ==
  ASSUME Typed
  PROVE  /\ SessionToken \in {0} \cup Token /\ FileToken \in {0} \cup Token
         /\ session # None => SessionToken = session.stored.token /\ SessionToken \in Token
         /\ file # None => FileToken = file.token /\ FileToken \in Token
         /\ refresh.token \in {0} \cup Token /\ issued \in 0..MaxTokens /\ issued \in Nat
         /\ 0 \notin Token /\ Token \subseteq Nat
<1>1. session \in {None} \cup Session /\ file \in {None} \cup Stored /\ refresh \in Refresh
      /\ issued \in 0..MaxTokens
  BY DEF Typed, AuthTyped
<1>2. \A s \in Session : s.stored.token \in Token
  BY DEF Session, Stored
<1>3. \A f \in Stored : f.token \in Token
  BY DEF Stored
<1> QED
  BY <1>1, <1>2, <1>3, Parameters DEF SessionToken, FileToken, Refresh, Token

LEMMA HandTypes ==
  ASSUME Typed, NEW c \in Call
  PROVE  /\ call[c].pc \in {"save", "set"} =>
              Hand(c) = call[c].got.token /\ call[c].got \in Stored /\ Hand(c) \in Token
         /\ Took(c) => Taken(c) = call[c].got.token /\ call[c].got \in Stored /\ Taken(c) \in Token
<1>1. PICK k \in GoodCall : k = call[c]
  BY CallParts DEF Typed, AuthTyped
<1>2. \A f \in Stored : f.token \in Token
  BY DEF Stored
<1>3. k.pc \in {"save", "set"} => k.got \in Stored
  BY GoodParts
<1>4. k.pc # "configure" => k.got \in {None} \cup Stored
  BY GoodParts
<1> QED
  BY <1>1, <1>2, <1>3, <1>4 DEF Hand, Taken, Took

LEMMA ExchangeTokens ==
  ASSUME Typed, TokenInv, NEW c \in Call, Exchange(c)
  PROVE  TokenInv'
<1>1. RestTyped /\ call \in [Call -> GoodCall]
  BY TypedParts, AuthParts
<1>2. PICK user \in User :
        Becomes(c, "signIn", "save", call[c].generation,
                [user |-> user, token |-> issued'], call[c].next)
  BY <1>1, ExchangeMoves DEF RestTyped
<1>3. /\ \A d \in Call : d # c =>
           Hand(d)' = Hand(d) /\ Taken(d)' = Taken(d) /\ Gone(d)' = Gone(d)
      /\ Hand(c)' = issued' /\ Taken(c)' = 0 /\ Gone(c)' = 0
  BY <1>2, TokensOfCalls
<1>4. issued' = issued + 1 /\ accepted' = accepted \cup {issued'} /\ issued \in Nat
  BY TokenTypes DEF Exchange
<1>5. /\ SessionToken' = SessionToken /\ FileToken' = FileToken
      /\ refresh' = refresh /\ revoked' = revoked /\ cut' = cut
      /\ Turned' = Turned /\ Answered' = Answered
  BY DEF Exchange, SessionToken, FileToken, Turned, Answered
<1>6. Issued'
  BY <1>3, <1>4, <1>5, TokenTypes DEF TokenInv, Issued
<1>7. Apart'
  <2>1. /\ SessionToken # issued' /\ FileToken # issued' /\ refresh.token # issued'
        /\ \A d \in Call : Hand(d) # issued' /\ Taken(d) # issued' /\ Gone(d) # issued'
    BY <1>4 DEF TokenInv, Issued
  <2>2. issued' # 0 /\ (Turned => refresh.token # 0)
    BY <1>4 DEF Turned, Answered
  <2>3. \A d \in Call : (Gone(d) # 0 => Gone(d) # FileToken)'
    BY <1>3, <1>5 DEF TokenInv, Apart
  <2>4. \A d \in Call : ((Hand(d) # 0 => Hand(d) # SessionToken)
                         /\ (Taken(d) # 0 => Taken(d) # SessionToken))'
    BY <1>3, <1>5, <2>1 DEF TokenInv, Apart
  <2>5. \A d, e \in Call : (Hand(d) # 0 => Hand(d) # Taken(e) /\ (d # e => Hand(d) # Hand(e)))'
    BY <1>3, <2>1, <2>2 DEF TokenInv, Apart
  <2>6. Turned' => \A d \in Call : (refresh.token # Hand(d) /\ refresh.token # Taken(d))'
    BY <1>3, <1>5, <2>1, <2>2 DEF TokenInv, Apart
  <2> QED
    BY <2>3, <2>4, <2>5, <2>6 DEF Apart
<1>8. Kept'
  BY <1>3, <1>4, <1>5 DEF TokenInv, Kept
<1> QED
  BY <1>6, <1>7, <1>8 DEF TokenInv

LEMMA SaveTokens ==
  ASSUME Typed, TokenInv, NEW c \in Call, SaveSignIn(c)
  PROVE  TokenInv'
<1>1. RestTyped /\ call \in [Call -> GoodCall]
  BY TypedParts, AuthParts
<1>2. Step(c, "set") /\ call[c].pc = "save" /\ <<call[c].pc, "set">> \in Moves
  BY DEF SaveSignIn, At, Moves
<1>3. Becomes(c, call[c].op, "set", call[c].generation, call[c].got, call[c].next)
  BY <1>1, <1>2, MoveEffect
<1>4. Hand(c) = call[c].got.token /\ Hand(c) \in Token /\ call[c].got # None
  BY <1>2, HandTypes, Parameters
<1>5. /\ \A d \in Call : d # c =>
           Hand(d)' = Hand(d) /\ Taken(d)' = Taken(d) /\ Gone(d)' = Gone(d)
      /\ Hand(c)' = Hand(c) /\ Taken(c)' = 0 /\ Gone(c)' = 0
  BY <1>3, <1>4, TokensOfCalls
<1>6. FileToken' = Hand(c)
  BY <1>4 DEF SaveSignIn, FileToken
<1>7. /\ SessionToken' = SessionToken /\ issued' = issued /\ accepted' = accepted
      /\ refresh' = refresh /\ revoked' = revoked /\ cut' = cut
      /\ Turned' = Turned /\ Answered' = Answered
  BY DEF SaveSignIn, SessionToken, Turned, Answered
<1>8. Hand(c) # 0 /\ \A d \in Call : Gone(d) \in {0, Taken(d)}
  BY <1>4, TokenTypes, GoneIsTaken
<1>9. Issued'
  BY <1>5, <1>6, <1>7, TokenTypes DEF TokenInv, Issued
<1>10. Apart'
  <2>1. \A d \in Call : (Gone(d) # 0 => Gone(d) # FileToken)'
    BY <1>5, <1>6, <1>8 DEF TokenInv, Apart
  <2>2. \A d \in Call : ((Hand(d) # 0 => Hand(d) # SessionToken)
                         /\ (Taken(d) # 0 => Taken(d) # SessionToken))'
    BY <1>5, <1>7 DEF TokenInv, Apart
  <2>3. \A d, e \in Call : (Hand(d) # 0 => Hand(d) # Taken(e) /\ (d # e => Hand(d) # Hand(e)))'
    BY <1>5, <1>7 DEF TokenInv, Apart
  <2>4. Turned' => \A d \in Call : (refresh.token # Hand(d) /\ refresh.token # Taken(d))'
    <3>1. Turned => refresh.token # 0
      BY DEF Turned, Answered
    <3> QED
      BY <1>5, <1>7, <3>1 DEF TokenInv, Apart
  <2> QED
    BY <2>1, <2>2, <2>3, <2>4 DEF Apart
<1>11. Kept'
  BY <1>5, <1>6, <1>7 DEF TokenInv, Kept
<1> QED
  BY <1>9, <1>10, <1>11 DEF TokenInv

LEMMA SetTokens ==
  ASSUME Typed, TokenInv, NEW c \in Call, SetSession(c)
  PROVE  TokenInv'
<1>1. RestTyped /\ call \in [Call -> GoodCall]
  BY TypedParts, AuthParts
<1>2. Step(c, "check") /\ call[c].pc = "set" /\ <<call[c].pc, "check">> \in Moves
  BY DEF SetSession, At, Moves
<1>3. Becomes(c, call[c].op, "check", call[c].generation, call[c].got, call[c].next)
  BY <1>1, <1>2, MoveEffect
<1>4. Hand(c) = call[c].got.token /\ Hand(c) \in Token /\ call[c].got \in Stored
  BY <1>2, HandTypes
<1>5. /\ \A d \in Call : d # c =>
           Hand(d)' = Hand(d) /\ Taken(d)' = Taken(d) /\ Gone(d)' = Gone(d)
      /\ Hand(c)' = 0 /\ Taken(c)' = 0 /\ Gone(c)' = 0
  BY <1>3, TokensOfCalls
<1>6. SessionToken' = Hand(c)
  <2>1. session' = [stored |-> call[c].got, fresh |-> TRUE]
    BY DEF SetSession
  <2>2. session' \in Session
    BY <1>4, <2>1 DEF Session
  <2> QED
    BY <1>4, <2>1, <2>2, Parameters DEF SessionToken
<1>7. /\ FileToken' = FileToken /\ issued' = issued /\ accepted' = accepted
      /\ refresh' = refresh /\ revoked' = revoked /\ cut' = cut
      /\ ~Turned /\ ~Turned' /\ ~Answered /\ ~Answered'
  BY DEF SetSession, FileToken, Turned, Answered, Locked
<1>8. Hand(c) # 0
  BY <1>4, TokenTypes
<1>9. Issued'
  BY <1>5, <1>6, <1>7, TokenTypes DEF TokenInv, Issued
<1>10. Apart'
  BY <1>5, <1>6, <1>7, <1>8 DEF TokenInv, Apart
<1>11. Kept'
  BY <1>5, <1>6, <1>7 DEF TokenInv, Kept
<1> QED
  BY <1>9, <1>10, <1>11 DEF TokenInv

LEMMA TakeTokens ==
  ASSUME Typed, TokenInv, NEW c \in Call, Take(c)
  PROVE  TokenInv'
<1>1. RestTyped /\ call \in [Call -> GoodCall]
  BY TypedParts, AuthParts
<1>2. Becomes(c, "signOut", "forget", call[c].generation,
              IF session = None THEN None ELSE session.stored, "signedOut")
  BY <1>1, TakeMoves DEF RestTyped
<1>3. /\ \A d \in Call : d # c =>
           Hand(d)' = Hand(d) /\ Taken(d)' = Taken(d) /\ Gone(d)' = Gone(d)
      /\ Hand(c)' = 0 /\ Gone(c)' = 0 /\ Taken(c)' = SessionToken
  <2>1. session # None => session.stored # None
    BY <1>1, Parameters DEF RestTyped, Session
  <2> QED
    BY <1>2, <2>1, TokensOfCalls DEF SessionToken
<1>4. /\ SessionToken' = 0 /\ FileToken' = FileToken /\ issued' = issued /\ accepted' = accepted
      /\ refresh' = refresh /\ revoked' = revoked /\ cut' = cut
      /\ ~Turned /\ ~Turned' /\ ~Answered /\ ~Answered'
  BY DEF Take, SessionToken, FileToken, Turned, Answered, Locked
<1>5. Issued'
  BY <1>3, <1>4, TokenTypes DEF TokenInv, Issued
<1>6. Apart'
  BY <1>3, <1>4 DEF TokenInv, Apart
<1>7. Kept'
  BY <1>3, <1>4 DEF TokenInv, Kept
<1> QED
  BY <1>5, <1>6, <1>7 DEF TokenInv

LEMMA ForgetTokens ==
  ASSUME Typed, TokenInv, NEW c \in Call, Forget(c)
  PROVE  TokenInv'
<1>1. RestTyped /\ call \in [Call -> GoodCall]
  BY TypedParts, AuthParts
<1>2. Step(c, "publish") /\ call[c].pc = "forget" /\ <<call[c].pc, "publish">> \in Moves
  BY DEF Forget, At, Moves
<1>3. Becomes(c, call[c].op, "publish", call[c].generation, call[c].got, call[c].next)
  BY <1>1, <1>2, MoveEffect
<1>4. call[c].op = "signOut"
  BY <1>1, <1>2, CallParts, GoodParts
<1>5. Taken(c) = IF call[c].got # None THEN call[c].got.token ELSE 0
  BY <1>2, <1>4 DEF Taken, Took
<1>6. /\ \A d \in Call : d # c =>
           Hand(d)' = Hand(d) /\ Taken(d)' = Taken(d) /\ Gone(d)' = Gone(d)
      /\ Hand(c)' = 0 /\ Gone(c)' = Taken(c) /\ Taken(c)' = Taken(c)
  BY <1>3, <1>4, <1>5, TokensOfCalls
<1>7. /\ SessionToken' = SessionToken /\ FileToken' = 0 /\ issued' = issued
      /\ accepted' = accepted /\ refresh' = refresh /\ revoked' = revoked /\ cut' = cut
      /\ Turned' = Turned /\ Answered' = Answered
  BY DEF Forget, SessionToken, FileToken, Turned, Answered
<1>8. Issued'
  BY <1>6, <1>7, TokenTypes DEF TokenInv, Issued
<1>9. Turned => refresh.token # 0
  BY DEF Turned, Answered
<1>10. Apart'
  BY <1>6, <1>7, <1>9 DEF TokenInv, Apart
<1>11. Kept'
  BY <1>6, <1>7 DEF TokenInv, Kept
<1> QED
  BY <1>8, <1>10, <1>11 DEF TokenInv

LEMMA RevokeTokens ==
  ASSUME Typed, TokenInv, NEW c \in Call, Revoke(c)
  PROVE  TokenInv'
<1>1. RestTyped /\ call \in [Call -> GoodCall]
  BY TypedParts, AuthParts
<1>2. call' = [call EXCEPT ![c] = Done] /\ call[c].pc = "revoke"
  BY DEF Revoke, At
<1>3. Becomes(c, "none", "done", 0, None, "signedOut")
  BY <1>1, <1>2, EndEffect
<1>4. call[c].op = "signOut"
  BY <1>1, <1>2, CallParts, GoodParts
<1>5. Taken(c) = IF call[c].got # None THEN call[c].got.token ELSE 0
  BY <1>2, <1>4 DEF Taken, Took
<1>6. Gone(c) = Taken(c)
  BY <1>2, <1>4 DEF Gone, Taken, Took
<1>7. /\ \A d \in Call : d # c =>
           Hand(d)' = Hand(d) /\ Taken(d)' = Taken(d) /\ Gone(d)' = Gone(d)
      /\ Hand(c)' = 0 /\ Gone(c)' = 0 /\ Taken(c)' = 0
  BY <1>3, TokensOfCalls
<1>8. /\ SessionToken' = SessionToken /\ FileToken' = FileToken /\ issued' = issued
      /\ refresh' = refresh /\ revoked' = revoked /\ cut' = cut
      /\ Turned' = Turned /\ Answered' = Answered
  BY DEF Revoke, SessionToken, FileToken, Turned, Answered
<1>9. /\ accepted' \subseteq accepted
      /\ \/ accepted' = accepted
         \/ Taken(c) # 0 /\ accepted' = accepted \ {Taken(c)}
  <2>1. CASE accepted' = accepted
    BY <2>1
  <2>2. CASE call[c].got # None /\ accepted' = accepted \ {call[c].got.token}
    <3>1. Taken(c) \in Token /\ Taken(c) = call[c].got.token
      BY <1>2, <1>4, <2>2, HandTypes DEF Took
    <3> QED
      BY <2>2, <3>1, TokenTypes
  <2> QED
    BY <2>1, <2>2 DEF Revoke
<1>10. Issued'
  BY <1>7, <1>8, <1>9, TokenTypes DEF TokenInv, Issued
<1>11. Turned => refresh.token # 0
  BY DEF Turned, Answered
<1>12. Apart'
  BY <1>7, <1>8, <1>11 DEF TokenInv, Apart
<1>13. Kept'
  <2>1. CASE accepted' = accepted
    BY <1>7, <1>8, <2>1 DEF TokenInv, Kept
  <2>2. CASE Taken(c) # 0 /\ accepted' = accepted \ {Taken(c)}
    <3>1. Taken(c) # SessionToken /\ Taken(c) # FileToken
      BY <1>6, <2>2 DEF TokenInv, Apart
    <3>2. \A d \in Call : Hand(d) # 0 => Hand(d) # Taken(c)
      BY <2>2 DEF TokenInv, Apart
    <3>3. Answered => refresh.token # Taken(c)
      BY <2>2, <3>1 DEF TokenInv, Apart, Turned
    <3> QED
      BY <1>7, <1>8, <2>2, <3>1, <3>2, <3>3 DEF TokenInv, Kept
  <2> QED
    BY <1>9, <2>1, <2>2
<1> QED
  BY <1>10, <1>12, <1>13 DEF TokenInv

(* access_token and what happens elsewhere.                                *)
LEMMA SameCallTokens ==
  ASSUME \A d \in Call : SameCall(call[d], call'[d])
  PROVE  \A d \in Call : Hand(d)' = Hand(d) /\ Taken(d)' = Taken(d) /\ Gone(d)' = Gone(d)
BY DEF SameCall, Hand, Taken, Gone, Took

LEMMA UnchangedCallTokens ==
  ASSUME call' = call
  PROVE  \A d \in Call : Hand(d)' = Hand(d) /\ Taken(d)' = Taken(d) /\ Gone(d)' = Gone(d)
BY DEF Hand, Taken, Gone, Took

LEMMA RefreshLetsGo ==
  ASSUME Typed, TokenInv,
         \A d \in Call : Hand(d)' = Hand(d) /\ Taken(d)' = Taken(d) /\ Gone(d)' = Gone(d),
         SessionToken' \in {0, SessionToken}, FileToken' \in {0, FileToken},
         issued' = issued, accepted' \subseteq accepted, refresh'.token \in 0..issued,
         Answered' => Answered /\ refresh' = refresh /\ SessionToken' = SessionToken,
         accepted' = accepted \/ revoked',
         revoked => revoked', cut => cut', Turned => Turned' \/ cut'
  PROVE  TokenInv'
<1>1. \A d \in Call : Gone(d) \in {0, Taken(d)}
  BY DEF TokenInv, Issued
<1>2. Lets
  BY <1>1 DEF Lets
<1>3. issued \in Nat
  BY TokenTypes
<1> QED
  BY <1>2, <1>3, LettingGo

LEMMA AnswerTokens ==
  ASSUME Typed, TokenInv, AnswerRefresh
  PROVE  TokenInv'
<1>1. /\ \A d \in Call : Hand(d)' = Hand(d) /\ Taken(d)' = Taken(d) /\ Gone(d)' = Gone(d)
      /\ SessionToken' = SessionToken /\ FileToken' = FileToken
      /\ revoked' = revoked /\ cut' = cut
  BY UnchangedCallTokens DEF AnswerRefresh, SessionToken, FileToken
<1>2. /\ session # None /\ SessionToken = session.stored.token /\ SessionToken # 0
      /\ SessionToken \in Nat
      /\ ~Answered /\ ~Turned /\ issued \in Nat
  BY TokenTypes DEF AnswerRefresh, Typed, AuthTyped, Answered, Turned
<1>3. refresh' \in [at: {"answered"}, token: {refresh'.token}]
  BY DEF AnswerRefresh, Refreshing
<1>4. refresh'.at = "answered"
  BY <1>3
<1>5. CASE issued' = issued /\ accepted' = accepted /\ refresh'.token = 0
  <2>1. ~Answered' /\ ~Turned'
    BY <1>5 DEF Answered, Turned
  <2>2. Issued'
    BY <1>1, <1>2, <1>5 DEF TokenInv, Issued
  <2>3. Apart'
    BY <1>1, <2>1 DEF TokenInv, Apart
  <2>4. Kept'
    BY <1>1, <1>2, <1>5, <2>1 DEF TokenInv, Kept
  <2> QED
    BY <2>2, <2>3, <2>4 DEF TokenInv
<1>6. CASE issued' = issued /\ accepted' = accepted /\ refresh'.token = SessionToken
           /\ SessionToken \in accepted
  <2>1. ~Turned'
    BY <1>1, <1>6 DEF Turned
  <2>2. Issued'
    BY <1>1, <1>2, <1>6 DEF TokenInv, Issued
  <2>3. Apart'
    BY <1>1, <2>1 DEF TokenInv, Apart
  <2>4. Kept'
    BY <1>1, <1>2, <1>6, <2>1 DEF TokenInv, Kept
  <2> QED
    BY <2>2, <2>3, <2>4 DEF TokenInv
<1>7. CASE /\ issued' = issued + 1 /\ accepted' = (accepted \ {SessionToken}) \cup {issued'}
           /\ refresh'.token = issued'
  <2>1. Turned' /\ Answered'
    <3>1. issued' # 0 /\ issued' # SessionToken
      BY <1>2, <1>7 DEF TokenInv, Issued
    <3> QED
      BY <1>1, <1>4, <1>7, <3>1 DEF Turned, Answered
  <2>2. Issued'
    <3>1. accepted' \subseteq 1..issued'
      <4>1. accepted \subseteq 1..issued /\ 1..issued \subseteq 1..issued' /\ issued' \in 1..issued'
        BY <1>2, <1>7 DEF TokenInv, Issued
      <4>2. accepted' = (accepted \ {SessionToken}) \cup {issued'}
        BY <1>7
      <4>3. PICK last : last = issued'
        OBVIOUS
      <4> QED
        BY <4>1, <4>2
    <3>2. SessionToken' \in 0..issued' /\ FileToken' \in 0..issued' /\ refresh'.token \in 0..issued'
      BY <1>1, <1>2, <1>7 DEF TokenInv, Issued
    <3>3. \A d \in Call : Hand(d)' \in 0..issued' /\ Taken(d)' \in 0..issued'
                         /\ Gone(d)' \in {0, Taken(d)'}
      BY <1>1, <1>2, <1>7 DEF TokenInv, Issued
    <3> QED
      BY <3>1, <3>2, <3>3 DEF Issued
  <2>3. Apart'
    <3>1. \A d \in Call : Hand(d) # issued' /\ Taken(d) # issued'
      BY <1>2, <1>7 DEF TokenInv, Issued
    <3> QED
      BY <1>1, <1>7, <3>1 DEF TokenInv, Apart
  <2>4. Kept'
    <3>1. \A d \in Call : Hand(d) # 0 => Hand(d) # SessionToken
      BY DEF TokenInv, Apart
    <3> QED
      BY <1>1, <1>2, <1>7, <2>1, <3>1 DEF TokenInv, Kept
  <2> QED
    BY <2>2, <2>3, <2>4 DEF TokenInv
<1>8. \/ issued' = issued /\ accepted' = accepted /\ refresh'.token = 0
      \/ issued' = issued /\ accepted' = accepted /\ refresh'.token = SessionToken
         /\ SessionToken \in accepted
      \/ /\ issued' = issued + 1 /\ accepted' = (accepted \ {SessionToken}) \cup {issued'}
         /\ refresh'.token = issued'
  BY <1>2 DEF AnswerRefresh, Refreshing
<1> QED
  BY <1>5, <1>6, <1>7, <1>8

LEMMA RefreshedTokens ==
  ASSUME Typed, TokenInv, Refreshed
  PROVE  TokenInv'
<1>1. /\ \A d \in Call : Hand(d)' = Hand(d) /\ Taken(d)' = Taken(d) /\ Gone(d)' = Gone(d)
      /\ issued' = issued /\ accepted' = accepted /\ revoked' = revoked /\ cut' = cut
  BY UnchangedCallTokens DEF Refreshed
<1>2. Answered /\ refresh.token # 0
  BY DEF Refreshed, Answered
<1>3. refresh'.at = "none" /\ refresh'.token = 0 /\ ~Answered' /\ ~Turned'
  BY DEF Refreshed, Refreshing, Answered, Turned
<1>4. session \in Session /\ SessionToken = session.stored.token
  BY TokenTypes DEF Typed, AuthTyped, Refreshed
<1>5. /\ session'.stored.token = refresh.token /\ session' # None
      /\ session'.stored # None
  <2>1. refresh.token \in Token
    BY <1>2, TokenTypes
  <2>2. PICK stored \in Stored : stored = session.stored
    BY <1>4 DEF Session
  <2>3. PICK new : new = [stored EXCEPT !.token = refresh.token]
    OBVIOUS
  <2>4. new \in Stored /\ new.token = refresh.token
    BY <2>1, <2>2, <2>3 DEF Stored
  <2>5. session' = [stored |-> new, fresh |-> TRUE]
    BY <2>2, <2>3 DEF Refreshed
  <2>6. session' \in Session
    BY <2>4, <2>5 DEF Session
  <2> QED
    BY <2>4, <2>5, <2>6, Parameters
<1>6. SessionToken' = refresh.token
  BY <1>5 DEF SessionToken
<1>7. FileToken' = IF Turned THEN refresh.token ELSE FileToken
  BY <1>2, <1>4, <1>5 DEF Refreshed, FileToken, Turned
<1>8. issued \in Nat /\ \A d \in Call : Gone(d) \in {0, Taken(d)}
  BY TokenTypes, GoneIsTaken
<1>9. Issued'
  BY <1>1, <1>3, <1>6, <1>7, <1>8 DEF TokenInv, Issued
<1>10. \A d \in Call : refresh.token # Hand(d) /\ refresh.token # Taken(d)
  BY <1>2 DEF TokenInv, Apart, Turned
<1>11. Apart'
  BY <1>1, <1>2, <1>3, <1>6, <1>7, <1>8, <1>10 DEF TokenInv, Apart
<1>12. Kept'
  BY <1>1, <1>2, <1>3, <1>6, <1>7 DEF TokenInv, Kept
<1> QED
  BY <1>9, <1>11, <1>12 DEF TokenInv

LEMMA OtherTokens ==
  ASSUME Typed, TokenInv,
         \/ StartRefresh \/ Refused \/ ForgetRefused \/ ReportRefused \/ CutRefresh \/ Stale
         \/ RevokeElsewhere \/ CancelSignIn \/ UNCHANGED authVars
  PROVE  TokenInv'
<1>1. RestTyped /\ call \in [Call -> GoodCall]
  BY TypedParts, AuthParts
<1>2. refresh.token \in 0..issued /\ 0 \in 0..issued
  BY TokenTypes DEF TokenInv, Issued
<1>3. CASE StartRefresh \/ Refused \/ ForgetRefused \/ ReportRefused
  <2>1. /\ \A d \in Call : Hand(d)' = Hand(d) /\ Taken(d)' = Taken(d) /\ Gone(d)' = Gone(d)
        /\ issued' = issued /\ accepted' = accepted /\ revoked' = revoked /\ cut' = cut
    BY <1>3, UnchangedCallTokens DEF StartRefresh, Refused, ForgetRefused, ReportRefused
  <2>2. SessionToken' \in {0, SessionToken} /\ FileToken' \in {0, FileToken}
    BY <1>3 DEF StartRefresh, Refused, ForgetRefused, ReportRefused, SessionToken, FileToken
  <2>3. refresh'.token = 0 /\ ~Answered' /\ ~Turned /\ ~Turned'
    BY <1>3 DEF StartRefresh, Refused, ForgetRefused, ReportRefused, Refreshing, Answered, Turned
  <2> QED
    BY <1>2, <2>1, <2>2, <2>3, RefreshLetsGo
<1>4. CASE CutRefresh
  <2>1. /\ \A d \in Call : Hand(d)' = Hand(d) /\ Taken(d)' = Taken(d) /\ Gone(d)' = Gone(d)
        /\ issued' = issued /\ accepted' = accepted /\ revoked' = revoked
    BY <1>4, UnchangedCallTokens DEF CutRefresh
  <2>2. SessionToken' = SessionToken /\ FileToken' = FileToken
    BY <1>4 DEF CutRefresh, SessionToken, FileToken
  <2>3. refresh'.token = 0 /\ ~Answered' /\ ~Turned'
    BY <1>4 DEF CutRefresh, Refreshing, Answered, Turned
  <2>4. cut' = (cut \/ Turned)
    BY <1>4, TurnedIsRotated DEF CutRefresh
  <2> QED
    BY <1>2, <2>1, <2>2, <2>3, <2>4, RefreshLetsGo
<1>5. CASE Stale
  <2>1. /\ \A d \in Call : Hand(d)' = Hand(d) /\ Taken(d)' = Taken(d) /\ Gone(d)' = Gone(d)
        /\ issued' = issued /\ accepted' = accepted /\ revoked' = revoked /\ cut' = cut
        /\ refresh' = refresh
    BY <1>5, UnchangedCallTokens DEF Stale
  <2>2. SessionToken' = SessionToken
    <3>1. CASE session = None
      BY <1>5, <3>1 DEF Stale, SessionToken
    <3>2. CASE session \in Session
      <4>1. PICK s \in Session : s = session
        BY <3>2
      <4>2. s # None /\ session' = [s EXCEPT !.fresh = FALSE]
        BY <1>5, <4>1, Parameters DEF Stale
      <4>3. [s EXCEPT !.fresh = FALSE].stored = s.stored /\ [s EXCEPT !.fresh = FALSE] \in Session
        BY DEF Session
      <4>4. session' # None /\ session'.stored = session.stored /\ session # None
        BY <4>1, <4>2, <4>3, Parameters
      <4> QED
        BY <4>4 DEF SessionToken
    <3> QED
      BY <1>1, <3>1, <3>2 DEF RestTyped
  <2>3. FileToken' = FileToken /\ ~Answered /\ ~Answered' /\ ~Turned
    BY <1>5 DEF Stale, FileToken, Locked, Answered, Turned
  <2> QED
    BY <1>2, <2>1, <2>2, <2>3, RefreshLetsGo
<1>6. CASE RevokeElsewhere
  <2>1. /\ \A d \in Call : Hand(d)' = Hand(d) /\ Taken(d)' = Taken(d) /\ Gone(d)' = Gone(d)
        /\ issued' = issued /\ accepted' = {} /\ revoked' /\ cut' = cut /\ refresh' = refresh
    BY <1>6, UnchangedCallTokens DEF RevokeElsewhere
  <2>2. SessionToken' = SessionToken /\ FileToken' = FileToken /\ Answered' = Answered
        /\ Turned' = Turned
    BY <1>6 DEF RevokeElsewhere, SessionToken, FileToken, Answered, Turned
  <2> QED
    BY <1>2, <2>1, <2>2, RefreshLetsGo
<1>7. CASE CancelSignIn \/ UNCHANGED authVars
  <2>1. \A d \in Call : Hand(d)' = Hand(d) /\ Taken(d)' = Taken(d) /\ Gone(d)' = Gone(d)
    <3>1. CASE CancelSignIn
      BY <3>1, CancelTyped, SameCallTokens, TypedParts
    <3>2. CASE UNCHANGED authVars
      BY <3>2, UnchangedCallTokens DEF authVars
    <3> QED
      BY <1>7, <3>1, <3>2
  <2>2. UNCHANGED heldVars
    BY <1>7 DEF heldVars, authVars, CancelSignIn
  <2>3. /\ SessionToken' = SessionToken /\ FileToken' = FileToken
        /\ Answered' = Answered /\ Turned' = Turned
        /\ refresh' = refresh /\ accepted' = accepted /\ issued' = issued
        /\ revoked' = revoked /\ cut' = cut
    BY <2>2, SameHeld
  <2> QED
    BY <1>2, <2>1, <2>3, RefreshLetsGo
<1> QED
  BY <1>3, <1>4, <1>5, <1>6, <1>7

LEMMA ReloadTokens ==
  ASSUME Typed, TokenInv, Reload
  PROVE  TokenInv'
<1>1. RestTyped /\ call \in [Call -> GoodCall]
  BY TypedParts, AuthParts
<1>2. \A d \in Call : Hand(d)' = 0 /\ Taken(d)' = 0 /\ Gone(d)' = 0
  <2>1. \A d \in Call : call'[d].pc \in {"new", "done"}
    BY <1>1, ReloadMoves, NoCallGood DEF At
  <2> QED
    BY <2>1 DEF Hand, Taken, Gone, Took
<1>3. FileToken' \in {0, FileToken}
  BY DEF Reload, FileToken
<1>4. SessionToken' = FileToken'
  <2>1. CASE file' = None
    BY <2>1 DEF Reload, Loaded, SessionToken, FileToken
  <2>2. CASE file' # None
    <3>1. file' \in Stored
      BY <1>1, <2>2 DEF Reload, RestTyped
    <3>2. session' = [stored |-> file', fresh |-> FALSE]
      BY <2>2 DEF Reload, Loaded
    <3>3. session' \in Session
      BY <3>1, <3>2 DEF Session
    <3> QED
      BY <2>2, <3>2, <3>3, Parameters DEF SessionToken, FileToken
  <2> QED
    BY <2>1, <2>2
<1>5. refresh'.token = 0 /\ ~Answered' /\ ~Turned'
  BY DEF Reload, NoRefresh, Answered, Turned
<1>6. accepted' = accepted /\ issued' = issued /\ revoked' = revoked /\ cut' = (cut \/ Turned)
  BY TurnedIsRotated DEF Reload
<1>7. Issued'
  BY <1>2, <1>3, <1>4, <1>5, <1>6, TokenTypes DEF TokenInv, Issued
<1>8. Apart'
  BY <1>2, <1>5 DEF Apart
<1>9. Kept'
  BY <1>2, <1>3, <1>4, <1>5, <1>6 DEF TokenInv, Kept
<1> QED
  BY <1>7, <1>8, <1>9 DEF TokenInv

LEMMA InitTokens ==
  ASSUME Init
  PROVE  TokenInv
<1>1. Typed
  BY InitTyped
<1>2. AuthInit
  BY DEF Init
<1>3. \A d \in Call : Hand(d) = 0 /\ Taken(d) = 0 /\ Gone(d) = 0
  BY <1>2, NoCallGood DEF AuthInit, NoCall, Hand, Taken, Gone, Took
<1>4. FileToken = issued /\ SessionToken = issued /\ accepted = 1..issued
  <2>1. CASE file = None
    BY <1>2, <2>1 DEF AuthInit, Loaded, SessionToken, FileToken
  <2>2. CASE file # None
    <3>1. file \in Stored /\ file.token = 1
      BY <1>1, <1>2, <2>2 DEF Typed, AuthTyped, AuthInit
    <3>2. session = [stored |-> file, fresh |-> FALSE]
      BY <1>2, <2>2 DEF AuthInit, Loaded
    <3>3. session \in Session
      BY <3>1, <3>2 DEF Session
    <3>4. session # None /\ session.stored = file
      BY <3>2, <3>3, Parameters
    <3>5. SessionToken = 1 /\ FileToken = 1
      BY <2>2, <3>1, <3>4 DEF SessionToken, FileToken
    <3> QED
      BY <1>2, <2>2, <3>5 DEF AuthInit
  <2> QED
    BY <2>1, <2>2
<1>5. refresh.at = "none" /\ refresh.token = 0 /\ ~Answered /\ ~Turned
  BY <1>2 DEF AuthInit, NoRefresh, Answered, Turned
<1>6. issued \in {0, 1}
  BY <1>2 DEF AuthInit
<1> QED
  BY <1>3, <1>4, <1>5, <1>6 DEF TokenInv, Issued, Apart, Kept

LEMMA TokenStep ==
  ASSUME Typed, TokenInv, [Next]_vars
  PROVE  TokenInv'
<1>1. ASSUME NEW c \in Call, Begin(c) \/ Continue(c)
      PROVE  TokenInv'
  BY <1>1, MovesKeepTokens, ExchangeTokens, SaveTokens, SetTokens, TakeTokens, ForgetTokens,
     RevokeTokens DEF Begin, Continue, TellRelay, AnswerSignIn
<1>2. CASE Task
  BY <1>2, OtherTokens, RefreshedTokens DEF Task, AccessToken, GiveUp
<1>3. CASE Service \/ Elsewhere
  BY <1>3, AnswerTokens, OtherTokens DEF Service, Elsewhere
<1>4. CASE Crash
  BY <1>4, ReloadTokens DEF Crash
<1>5. CASE UNCHANGED vars
  BY <1>5, OtherTokens DEF vars
<1> QED
  BY <1>1, <1>2, <1>3, <1>4, <1>5 DEF Next

(* "Refresh tokens may rotate; the new one replaces the old one            *)
(* everywhere" (auth.rs): whatever sign-ins, sign-outs and refreshes       *)
(* overlap, and wherever the program ends, the token of the session and    *)
(* that of the file are accepted, unless the user removed the sign-in      *)
(* elsewhere or a refresh was cut short after the service rotated.         *)
THEOREM TokensStillAccepted == Spec => []StillAccepted
<1>1. ASSUME Typed, TokenInv
      PROVE  StillAccepted
  <2>1. CASE revoked \/ cut \/ Rotated
    BY <2>1 DEF StillAccepted
  <2>2. CASE ~(revoked \/ cut \/ Rotated)
    <3>1. {SessionToken, FileToken} \subseteq accepted \cup {0}
      BY <1>1, <2>2, TurnedIsRotated DEF TokenInv, Kept
    <3>2. /\ session # None => SessionToken = session.stored.token /\ SessionToken # 0
          /\ file # None => FileToken = file.token /\ FileToken # 0
      BY <1>1, TokenTypes
    <3> QED
      BY <3>1, <3>2 DEF StillAccepted
  <2> QED
    BY <2>1, <2>2
<1> QED
  BY <1>1, InitTokens, TokenStep, TypedInvariant, PTL DEF Spec
-----------------------------------------------------------------------------
(* The status, the relay and the file mirror the session.                  *)

Signed == IF session = None THEN None ELSE session.stored

Acts(c) == call[c].pc \in {"publish", "tell", "browser", "exchange", "save", "set", "check",
                           "settle", "take", "forget"}
Waits(c) == call[c].pc \in {"browser", "exchange", "check"}

(* The calls under way are told apart by their generations.                *)
Numbered ==
  /\ \A c \in Call : Acts(c) => call[c].generation \in 1..generation
  /\ \A c, d \in Call : Acts(c) /\ Acts(d) /\ c # d => call[c].generation # call[d].generation

(* The relay's task is busy only with what is called for, or is told.      *)
Wanted == at \in {"token", "connecting", "connected", "signedOut"}
Linked == Wanted /\ ~changed => desired.do = "connect"

(* A call that a newer one superseded, and that will change something yet. *)
Doomed == \E c \in Call : Acts(c) /\ ~Newest(c) /\ ~Waits(c)

Leaving == refresh.at \in {"forget", "report"}

Consistent ==
  /\ file = Signed \/ refresh.at = "forget"
  /\ Leaving \/ at = "signedOut" => Signed = None

Quiet == ~Wanted /\ ~inputs.signedIn

(* Where the newest call, while it acts, has brought them.                 *)
SignOutPhase(c) ==
  /\ call[c].pc \in {"forget", "publish", "tell"} => Signed = None
  /\ call[c].pc \in {"publish", "tell"} => file = None
  /\ call[c].pc = "tell" => status = "signedOut"

AskPhase(c) ==
  /\ Consistent /\ call[c].got = None
  /\ call[c].pc = "browser" => ~inputs.signedIn

TryPhase(c) ==
  /\ Quiet
  /\ call[c].pc # "set" => file = Signed
  /\ call[c].pc = "set" => file = call[c].got
  /\ call[c].pc = "exchange" => call[c].got = None
  /\ call[c].pc \in {"check", "settle"} /\ call[c].got # None => file = call[c].got
  /\ call[c].pc \in {"publish", "tell"} => call[c].next = StatusOf(file)
  /\ call[c].pc = "tell" => status = call[c].next

Asks(c) == call[c].pc = "browser" \/ (call[c].pc \in {"publish", "tell"} /\ call[c].next = "signingIn")

Phase(c) ==
  IF call[c].op = "signOut" THEN SignOutPhase(c)
  ELSE IF Asks(c) THEN AskPhase(c)
  ELSE TryPhase(c)

AtRest ==
  /\ Consistent
  /\ status = StatusOf(Signed) \/ Leaving
  /\ (inputs.signedIn <=> Signed # None) \/ Leaving \/ at = "signedOut"

Mirrored ==
  \/ overtaken \/ Doomed
  \/ \E c \in Call : Acts(c) /\ Newest(c) /\ Phase(c)
  \/ (\A c \in Call : Acts(c) => ~Newest(c)) /\ AtRest

MirrorInv == Numbered /\ Linked /\ Mirrored

LEMMA SignedTypes ==
  ASSUME Typed
  PROVE  /\ Signed \in {None} \cup Stored /\ (Signed = None <=> session = None)
         /\ session # None => Signed = session.stored
         /\ file \in {None} \cup Stored /\ None \notin Stored
         /\ Leaving => at = "token"
         /\ refresh.at \in {"sent", "answered"} => Signed # None /\ at = "token"
<1>1. session \in {None} \cup Session /\ file \in {None} \cup Stored
  BY DEF Typed, AuthTyped
<1>2. \A s \in Session : s.stored \in Stored
  BY DEF Session
<1>3. Signed \in {None} \cup Stored /\ (Signed = None <=> session = None)
      /\ (session # None => Signed = session.stored)
  BY <1>1, <1>2, Parameters DEF Signed
<1> QED
  BY <1>1, <1>3, Parameters DEF Typed, AuthTyped, Leaving

(* What the steps that are not the newest call's do to the mirrors.        *)
Same == UNCHANGED <<Signed, file, status, inputs.signedIn>>

Before == {"none", "sent", "answered"}

Leaves ==
  \/ /\ refresh.at = "answered" /\ refresh'.at = "forget" /\ at' = at
     /\ Signed' = None /\ UNCHANGED <<file, status, inputs.signedIn>>
  \/ /\ refresh.at = "forget" /\ refresh'.at = "report" /\ at' = at
     /\ file' = None /\ UNCHANGED <<Signed, status, inputs.signedIn>>
  \/ /\ refresh.at = "report" /\ refresh'.at = "none" /\ at' = "signedOut"
     /\ status' = "signedOut" /\ UNCHANGED <<Signed, file, inputs.signedIn>>
  \/ /\ refresh.at = "none" /\ refresh'.at = "none" /\ at = "token" /\ at' = "signedOut"
     /\ Signed = None /\ Same
  \/ /\ refresh.at = "none" /\ refresh'.at = "none" /\ at = "signedOut" /\ at' = "look"
     /\ ~inputs'.signedIn /\ UNCHANGED <<Signed, file, status>>

Turns ==
  /\ refresh.at = "answered" /\ refresh'.at = "none" /\ at = "token" /\ at' = "connecting"
  /\ Signed # None /\ Signed' # None /\ StatusOf(Signed') = StatusOf(Signed)
  /\ file = Signed => file' = Signed'
  /\ UNCHANGED <<status, inputs.signedIn>>

Else ==
  \/ Same /\ refresh'.at = refresh.at /\ at' = at
  \/ /\ Same /\ refresh.at \in Before /\ refresh'.at \in Before
     /\ at # "signedOut" /\ at' # "signedOut"
     /\ ~Wanted /\ ~inputs.signedIn => ~Wanted'

Beside == Leaves \/ Turns \/ Else

LEMMA BesideKeeps ==
  ASSUME Typed, Beside
  PROVE  /\ Consistent => Consistent'
         /\ Quiet => Quiet' /\ Same
         /\ Signed = None => Signed' = None
         /\ Signed = None /\ file = None => file' = None
         /\ status = "signedOut" => status' = "signedOut"
         /\ ~inputs.signedIn => ~inputs'.signedIn
         /\ AtRest => AtRest'
<1>1. /\ Signed \in {None} \cup Stored /\ (Signed = None <=> session = None)
      /\ Leaving => at = "token"
      /\ refresh.at \in {"sent", "answered"} => Signed # None /\ at = "token"
  BY SignedTypes
<1>2. StatusOf(None) = "signedOut"
  BY DEF StatusOf
<1>3. CASE Leaves
  <2>1. Consistent => Consistent'
    BY <1>1, <1>3 DEF Leaves, Consistent, Leaving, Same
  <2>2. Quiet => FALSE
    BY <1>1, <1>3 DEF Leaves, Quiet, Wanted, Leaving
  <2>3. Signed = None => Signed' = None
    BY <1>1, <1>3 DEF Leaves, Same
  <2>4. Signed = None /\ file = None => file' = None
    BY <1>1, <1>3 DEF Leaves, Same
  <2>5. status = "signedOut" => status' = "signedOut"
    BY <1>3 DEF Leaves, Same
  <2>6. ~inputs.signedIn => ~inputs'.signedIn
    BY <1>3 DEF Leaves, Same
  <2>7. AtRest => AtRest'
    <3>1. ASSUME AtRest
          PROVE  status' = StatusOf(Signed') \/ Leaving'
      BY <1>1, <1>2, <1>3, <3>1 DEF Leaves, AtRest, Consistent, Leaving, Same
    <3>2. ASSUME AtRest
          PROVE  (inputs'.signedIn <=> Signed' # None) \/ Leaving' \/ at' = "signedOut"
      BY <1>1, <1>3, <3>2 DEF Leaves, AtRest, Consistent, Leaving, Same
    <3> QED
      BY <2>1, <3>1, <3>2 DEF AtRest
  <2> QED
    BY <2>1, <2>2, <2>3, <2>4, <2>5, <2>6, <2>7
<1>4. CASE Turns
  <2>1. ~Quiet /\ ~Leaving /\ ~Leaving' /\ at' # "signedOut" /\ at # "signedOut"
    BY <1>4 DEF Turns, Quiet, Wanted, Leaving
  <2>2. Consistent => Consistent'
    BY <1>4, <2>1 DEF Turns, Consistent
  <2>3. AtRest => AtRest'
    BY <1>4, <2>1, <2>2 DEF Turns, AtRest
  <2> QED
    BY <1>4, <2>1, <2>2, <2>3 DEF Turns
<1>5. CASE Same /\ refresh'.at = refresh.at /\ at' = at
  <2>1. Leaving' = Leaving /\ Wanted' = Wanted
    BY <1>5 DEF Leaving, Wanted
  <2> QED
    BY <1>5, <2>1 DEF Same, Consistent, Quiet, AtRest
<1>6. CASE /\ Same /\ refresh.at \in Before /\ refresh'.at \in Before
           /\ at # "signedOut" /\ at' # "signedOut"
           /\ ~Wanted /\ ~inputs.signedIn => ~Wanted'
  <2>1. ~Leaving /\ ~Leaving' /\ refresh.at # "forget"
    BY <1>6 DEF Leaving, Before
  <2>2. Consistent => Consistent'
    BY <1>6, <2>1 DEF Same, Consistent
  <2>3. Quiet => Quiet'
    BY <1>6 DEF Same, Quiet
  <2>4. AtRest => AtRest'
    BY <1>6, <2>1, <2>2 DEF Same, AtRest
  <2> QED
    BY <1>6, <2>1, <2>2, <2>3, <2>4 DEF Same
<1> QED
  BY <1>3, <1>4, <1>5, <1>6 DEF Beside, Else

LEMMA NotConnect ==
  ASSUME Typed
  PROVE  /\ desired.do = "connect" => inputs.signedIn
         /\ refresh.at # "none" => at = "token"
<1>1. inputs \in Inputs /\ desired = FromInputs(inputs)
  BY DEF Typed, RelayTyped, RelayTypeOK, Inputs
<1> QED
  BY <1>1, DesiredTypes DEF Typed

LEMMA SameAuthSame ==
  ASSUME UNCHANGED <<session, file, status, inputs>>
  PROVE  Same
BY DEF Same, Signed

LEMMA StaleSame ==
  ASSUME Typed, Stale
  PROVE  Signed' = Signed
<1>1. session \in {None} \cup Session
  BY DEF Typed, AuthTyped
<1>2. CASE session = None
  BY <1>2 DEF Stale, Signed
<1>3. CASE session \in Session
  <2>1. PICK s \in Session : s = session
    BY <1>3
  <2>2. s # None /\ session' = [s EXCEPT !.fresh = FALSE]
    BY <2>1, Parameters DEF Stale
  <2>3. [s EXCEPT !.fresh = FALSE].stored = s.stored /\ [s EXCEPT !.fresh = FALSE] \in Session
    BY DEF Session
  <2>4. session' # None /\ session'.stored = session.stored /\ session # None
    BY <2>1, <2>2, <2>3, Parameters
  <2> QED
    BY <2>4 DEF Signed
<1> QED
  BY <1>1, <1>2, <1>3

LEMMA RefreshedTurns ==
  ASSUME Typed, GotToken, Refreshed
  PROVE  Turns
<1>1. /\ Signed \in {None} \cup Stored /\ (Signed = None <=> session = None)
      /\ session # None => Signed = session.stored
      /\ refresh.at \in {"sent", "answered"} => Signed # None /\ at = "token"
      /\ None \notin Stored
  BY SignedTypes
<1>2. refresh.at = "answered" /\ refresh'.at = "none" /\ refresh.token # 0
  BY DEF Refreshed, Refreshing
<1>3. PICK stored \in Stored : stored = session.stored /\ stored = Signed
  BY <1>1, <1>2
<1>4. PICK new : new = [stored EXCEPT !.token = refresh.token]
  OBVIOUS
<1>5. refresh.token \in Token
  BY <1>2, TokenTypes
<1>6. new \in Stored /\ new.user = stored.user
  BY <1>3, <1>4, <1>5 DEF Stored
<1>7. session' = [stored |-> new, fresh |-> TRUE]
  BY <1>3, <1>4 DEF Refreshed
<1>8. session' \in Session
  BY <1>6, <1>7 DEF Session
<1>9. Signed' = new
  BY <1>7, <1>8, Parameters DEF Signed
<1>10. refresh.token = stored.token => new = stored
  BY <1>3, <1>4, <1>5 DEF Stored
<1>11. file = Signed => file' = Signed'
  BY <1>3, <1>7, <1>9, <1>10 DEF Refreshed
<1>12. StatusOf(Signed') = StatusOf(Signed)
  BY <1>1, <1>3, <1>6, <1>9 DEF StatusOf
<1>13. UNCHANGED <<status, inputs.signedIn>> /\ at = "token" /\ at' = "connecting"
  BY DEF Refreshed, GotToken
<1> QED
  BY <1>1, <1>2, <1>3, <1>6, <1>9, <1>11, <1>12, <1>13 DEF Turns

LEMMA TaskIsBeside ==
  ASSUME Typed, Task \/ Service \/ Elsewhere
  PROVE  Beside
<1>1. /\ desired.do = "connect" => inputs.signedIn
      /\ refresh.at # "none" => at = "token"
  BY NotConnect
<1>2. refresh.at \in Before \cup {"forget", "report"}
  BY DEF Typed, AuthTyped, Refresh, Before
<1>3. CASE at = "token" /\ (StartRefresh \/ Refused \/ ForgetRefused) /\ UNCHANGED relayVars
  <2>1. at' = at /\ inputs' = inputs
    BY <1>3 DEF relayVars
  <2>2. CASE StartRefresh
    <3>1. Same
      BY <2>1, <2>2, SameAuthSame DEF StartRefresh
    <3>2. refresh.at \in Before /\ refresh'.at \in Before
      BY <2>2 DEF StartRefresh, Refreshing, Before
    <3> QED
      BY <1>3, <2>1, <3>1, <3>2 DEF Beside, Else, Wanted
  <2>3. CASE Refused
    <3>1. Signed' = None /\ UNCHANGED <<file, status, inputs.signedIn>>
      BY <2>1, <2>3 DEF Refused, Signed
    <3>2. refresh.at = "answered" /\ refresh'.at = "forget"
      BY <2>3 DEF Refused, Refreshing
    <3> QED
      BY <2>1, <3>1, <3>2 DEF Beside, Leaves
  <2>4. CASE ForgetRefused
    <3>1. file' = None /\ UNCHANGED <<Signed, status, inputs.signedIn>>
      BY <2>1, <2>4 DEF ForgetRefused, Signed
    <3>2. refresh.at = "forget" /\ refresh'.at = "report"
      BY <2>4 DEF ForgetRefused, Refreshing
    <3> QED
      BY <2>1, <3>1, <3>2 DEF Beside, Leaves
  <2> QED
    BY <1>3, <2>2, <2>3, <2>4
<1>4. CASE GotToken /\ HasToken /\ UNCHANGED authVars
  <2>1. Same
    BY <1>4, SameAuthSame DEF authVars, GotToken
  <2>2. refresh.at \in Before /\ refresh'.at \in Before
    BY <1>4 DEF HasToken, Before, authVars
  <2>3. at # "signedOut" /\ at' # "signedOut" /\ Wanted
    BY <1>4 DEF GotToken, Wanted
  <2> QED
    BY <2>1, <2>2, <2>3 DEF Beside, Else
<1>5. CASE GotToken /\ Refreshed
  BY <1>5, RefreshedTurns DEF Beside
<1>6. CASE NoToken /\ ReportRefused
  <2>1. UNCHANGED <<Signed, file, inputs.signedIn>> /\ status' = "signedOut"
    BY <1>6 DEF NoToken, ReportRefused, Signed
  <2>2. refresh.at = "report" /\ refresh'.at = "none" /\ at' = "signedOut"
    BY <1>6 DEF NoToken, ReportRefused, Refreshing
  <2> QED
    BY <2>1, <2>2 DEF Beside, Leaves
<1>7. CASE (Drop /\ CutRefresh) \/ (Fails /\ CutRefresh)
  <2>1. Same
    BY <1>7, SameAuthSame DEF Drop, Fails, CutRefresh
  <2>2. refresh.at \in Before /\ refresh'.at \in Before
    BY <1>7 DEF CutRefresh, Refreshing, Before
  <2>3. at # "signedOut" /\ at' \in {"look", "idle"}
    BY <1>7 DEF Drop, InSession, Fails, Idle
  <2> QED
    BY <2>1, <2>2, <2>3 DEF Beside, Else, Wanted
<1>8. CASE NoToken /\ HasNoToken /\ UNCHANGED authVars
  <2>1. Same /\ Signed = None
    BY <1>8, SameAuthSame DEF authVars, NoToken, HasNoToken, Signed
  <2>2. refresh.at = "none" /\ refresh'.at = "none" /\ at = "token" /\ at' = "signedOut"
    BY <1>8 DEF HasNoToken, NoToken, authVars
  <2> QED
    BY <2>1, <2>2 DEF Beside, Leaves
<1>9. CASE Rejected /\ Stale
  <2>1. Same
    BY <1>9, StaleSame DEF Same, Rejected, Stale
  <2>2. at = "connecting" /\ at' = "idle" /\ refresh' = refresh
    BY <1>9 DEF Rejected, Idle, Stale
  <2>3. refresh.at = "none"
    BY <1>1, <2>2
  <2> QED
    BY <2>1, <2>2, <2>3 DEF Beside, Else, Wanted, Before
<1>10. CASE (RejectedAgain \/ Dropped \/ Replaced) /\ UNCHANGED authVars
  <2>1. Same
    BY <1>10, SameAuthSame DEF authVars, RejectedAgain, Dropped, Replaced
  <2>2. at \in {"connecting", "connected"} /\ at' = "idle" /\ refresh' = refresh
    BY <1>10 DEF RejectedAgain, Dropped, Replaced, Idle, authVars
  <2>3. refresh.at = "none"
    BY <1>1, <2>2
  <2> QED
    BY <2>1, <2>2, <2>3 DEF Beside, Else, Wanted, Before
<1>11. CASE Look /\ UNCHANGED authVars
  <2>1. Same
    BY <1>11, SameAuthSame DEF authVars, Look
  <2>2. at = "look" /\ at' \in {"token", "idle"} /\ refresh' = refresh
        /\ (desired.do # "connect" => at' = "idle")
    BY <1>11 DEF Look, authVars
  <2>3. refresh.at = "none"
    BY <1>1, <2>2
  <2> QED
    BY <1>1, <2>1, <2>2, <2>3 DEF Beside, Else, Wanted, Before
<1>12. CASE (Registered \/ IdleEnds) /\ UNCHANGED authVars
  <2>1. Same
    BY <1>12, SameAuthSame DEF authVars, Registered, IdleEnds
  <2>2. /\ \/ at = "connecting" /\ at' = "connected"
           \/ at = "idle" /\ at' = "look"
        /\ refresh' = refresh
    BY <1>12 DEF Registered, IdleEnds, authVars
  <2>3. refresh.at = "none"
    BY <1>1, <2>2
  <2> QED
    BY <2>1, <2>2, <2>3 DEF Beside, Else, Wanted, Before
<1>13. CASE SignedOut /\ UNCHANGED authVars
  <2>1. UNCHANGED <<Signed, file, status>> /\ refresh' = refresh
    BY <1>13 DEF authVars, Signed
  <2>2. at = "signedOut" /\ at' = "look" /\ inputs' = [inputs EXCEPT !.signedIn = FALSE]
    BY <1>13 DEF SignedOut, Update
  <2>3. ~inputs'.signedIn
    BY <2>2 DEF Typed, RelayTyped, RelayTypeOK
  <2>4. refresh.at = "none"
    BY <1>1, <2>2
  <2> QED
    BY <2>1, <2>2, <2>3, <2>4 DEF Beside, Leaves
<1>14. CASE Service
  <2>1. Same /\ at' = at
    BY <1>14, SameAuthSame DEF Service, AnswerRefresh, relayVars
  <2>2. refresh.at = "sent" /\ refresh'.at = "answered"
    BY <1>14 DEF Service, AnswerRefresh, Refreshing
  <2> QED
    BY <1>1, <2>1, <2>2 DEF Beside, Else, Wanted, Before
<1>15. CASE Elsewhere
  <2>1. Same /\ at' = at /\ refresh' = refresh
    <3>1. Signed' = Signed
      BY <1>15, StaleSame DEF Elsewhere, RevokeElsewhere, CancelSignIn, Signed
    <3> QED
      BY <1>15, <3>1 DEF Same, Elsewhere, Stale, RevokeElsewhere, CancelSignIn, relayVars
  <2> QED
    BY <2>1 DEF Beside, Else
<1>16. ASSUME Task
       PROVE  \/ at = "token" /\ (StartRefresh \/ Refused \/ ForgetRefused) /\ UNCHANGED relayVars
              \/ GotToken /\ HasToken /\ UNCHANGED authVars
              \/ GotToken /\ Refreshed
              \/ NoToken /\ ReportRefused
              \/ (Drop /\ CutRefresh) \/ (Fails /\ CutRefresh)
              \/ NoToken /\ HasNoToken /\ UNCHANGED authVars
              \/ Rejected /\ Stale
              \/ (RejectedAgain \/ Dropped \/ Replaced) /\ UNCHANGED authVars
              \/ Look /\ UNCHANGED authVars
              \/ (Registered \/ IdleEnds) /\ UNCHANGED authVars
              \/ SignedOut /\ UNCHANGED authVars
  BY <1>16 DEF Task, AccessToken, GiveUp
<1> QED
  BY <1>3, <1>4, <1>5, <1>6, <1>7, <1>8, <1>9, <1>10, <1>11, <1>12, <1>13, <1>14, <1>15, <1>16

(* The relay's task is busy only with what is called for, or is told.      *)
LEMMA LinkedStep ==
  ASSUME Typed, Linked, [Next]_vars
  PROVE  Linked'
<1>1. desired = FromInputs(inputs) /\ changed \in BOOLEAN
  BY DEF Typed, RelayTyped, RelayTypeOK
<1>2. ASSUME NEW in, Update(in), at' = at \/ ~Wanted'
      PROVE  Linked'
  <2>1. changed' <=> changed \/ desired' # desired
    BY <1>1, <1>2 DEF Update
  <2> QED
    BY <1>2, <2>1 DEF Linked, Wanted
<1>3. ASSUME NEW c \in Call, Begin(c) \/ Continue(c)
      PROVE  Linked'
  <2>1. CASE EndSet(c)
    BY <1>2, <2>1 DEF EndSet, Configure
  <2>2. CASE TellRelay(c)
    BY <1>2, <2>2 DEF TellRelay, SetSignedIn
  <2>3. CASE ~EndSet(c) /\ ~TellRelay(c)
    <3>1. UNCHANGED <<at, changed, desired>>
      BY <1>3, <2>3 DEF Begin, Continue, BeginSet, Save, relayVars
    <3> QED
      BY <3>1 DEF Linked, Wanted
  <2> QED
    BY <2>1, <2>2, <2>3
<1>4. CASE Task
  <2>1. CASE SignedOut
    <3>1. at' = "look" /\ ~Wanted'
      BY <2>1 DEF SignedOut, Wanted
    <3> QED
      BY <3>1 DEF Linked
  <2>2. CASE Look
    <3>1. desired' = desired /\ (Wanted' => desired.do = "connect")
      BY <2>2 DEF Look, Wanted
    <3> QED
      BY <3>1 DEF Linked
  <2>3. CASE ~SignedOut /\ ~Look
    <3>1. desired' = desired /\ changed' = changed /\ (Wanted' => Wanted)
      BY <1>4, <2>3 DEF Task, AccessToken, GiveUp, relayVars, GotToken, NoToken, Fails, Rejected,
         RejectedAgain, Dropped, Replaced, Drop, Registered, IdleEnds, Idle, InSession, Wanted
    <3> QED
      BY <3>1 DEF Linked
  <2> QED
    BY <2>1, <2>2, <2>3
<1>5. CASE Service \/ Elsewhere \/ UNCHANGED vars
  <2>1. UNCHANGED <<at, changed, desired>>
    BY <1>5 DEF Service, Elsewhere, vars, relayVars
  <2> QED
    BY <2>1 DEF Linked, Wanted
<1>6. CASE Crash
  <2>1. at' = "look"
    BY <1>6 DEF Crash, Restart
  <2> QED
    BY <2>1 DEF Linked, Wanted
<1> QED
  BY <1>3, <1>4, <1>5, <1>6 DEF Next

(* Where the steps of a call take it.                                      *)
LEMMA StepMoves ==
  ASSUME Typed, NEW c \in Call
  PROVE  /\ Publish(c) =>
              /\ call[c].pc = "publish"
              /\ Becomes(c, call[c].op, "tell", call[c].generation, call[c].got, call[c].next)
         /\ LeaveBrowser(c) =>
              /\ call[c].pc = "browser"
              /\ \E p \in {"exchange", "check"} :
                   Becomes(c, call[c].op, p, call[c].generation, call[c].got, call[c].next)
         /\ ExchangeFails(c) =>
              /\ call[c].pc = "exchange"
              /\ Becomes(c, call[c].op, "check", call[c].generation, call[c].got, call[c].next)
         /\ SaveSignIn(c) =>
              /\ call[c].pc = "save"
              /\ Becomes(c, call[c].op, "set", call[c].generation, call[c].got, call[c].next)
         /\ SetSession(c) =>
              /\ call[c].pc = "set"
              /\ Becomes(c, call[c].op, "check", call[c].generation, call[c].got, call[c].next)
         /\ Forget(c) =>
              /\ call[c].pc = "forget"
              /\ Becomes(c, call[c].op, "publish", call[c].generation, call[c].got, call[c].next)
<1>1. call \in [Call -> GoodCall]
  BY DEF Typed, AuthTyped
<1>2. ASSUME NEW p, Step(c, p), <<call[c].pc, p>> \in Moves
      PROVE  Becomes(c, call[c].op, p, call[c].generation, call[c].got, call[c].next)
  BY <1>1, <1>2, MoveEffect
<1>3. Publish(c) => call[c].pc = "publish" /\ Step(c, "tell")
  BY DEF Publish, At
<1>4. LeaveBrowser(c) => call[c].pc = "browser" /\ (Step(c, "exchange") \/ Step(c, "check"))
  BY DEF LeaveBrowser, At
<1>5. ExchangeFails(c) => call[c].pc = "exchange" /\ Step(c, "check")
  BY DEF ExchangeFails, At
<1>6. SaveSignIn(c) => call[c].pc = "save" /\ Step(c, "set")
  BY DEF SaveSignIn, At
<1>7. SetSession(c) => call[c].pc = "set" /\ Step(c, "check")
  BY DEF SetSession, At
<1>8. Forget(c) => call[c].pc = "forget" /\ Step(c, "publish")
  BY DEF Forget, At
<1>9. /\ <<"publish", "tell">> \in Moves /\ <<"browser", "exchange">> \in Moves
      /\ <<"browser", "check">> \in Moves /\ <<"exchange", "check">> \in Moves
      /\ <<"save", "set">> \in Moves /\ <<"set", "check">> \in Moves
      /\ <<"forget", "publish">> \in Moves
  BY DEF Moves
<1>10. Publish(c) => Becomes(c, call[c].op, "tell", call[c].generation, call[c].got, call[c].next)
  BY <1>2, <1>3, <1>9
<1>11. LeaveBrowser(c) =>
         \E p \in {"exchange", "check"} :
           Becomes(c, call[c].op, p, call[c].generation, call[c].got, call[c].next)
  BY <1>2, <1>4, <1>9
<1>12. ExchangeFails(c) =>
         Becomes(c, call[c].op, "check", call[c].generation, call[c].got, call[c].next)
  BY <1>2, <1>5, <1>9
<1>13. SaveSignIn(c) => Becomes(c, call[c].op, "set", call[c].generation, call[c].got, call[c].next)
  BY <1>2, <1>6, <1>9
<1>14. SetSession(c) =>
         Becomes(c, call[c].op, "check", call[c].generation, call[c].got, call[c].next)
  BY <1>2, <1>7, <1>9
<1>15. Forget(c) => Becomes(c, call[c].op, "publish", call[c].generation, call[c].got, call[c].next)
  BY <1>2, <1>8, <1>9
<1> QED
  BY <1>3, <1>4, <1>5, <1>6, <1>7, <1>8, <1>10, <1>11, <1>12, <1>13, <1>14, <1>15

LEMMA CheckMoves ==
  ASSUME Typed, NEW c \in Call, CheckGeneration(c)
  PROVE  /\ call[c].pc = "check"
         /\ Newest(c) =>
              Becomes(c, call[c].op, "settle", call[c].generation, call[c].got, call[c].next)
         /\ ~Newest(c) => Becomes(c, "none", "done", 0, None, "signedOut")
<1>1. call \in [Call -> GoodCall]
  BY DEF Typed, AuthTyped
<1>2. call[c].pc = "check"
  BY DEF CheckGeneration, At
<1>3. ASSUME Newest(c)
      PROVE  Becomes(c, call[c].op, "settle", call[c].generation, call[c].got, call[c].next)
  <2>1. Step(c, "settle") /\ <<call[c].pc, "settle">> \in Moves
    BY <1>2, <1>3 DEF CheckGeneration, Step, Moves
  <2> QED
    BY <1>1, <2>1, MoveEffect
<1>4. ASSUME ~Newest(c)
      PROVE  Becomes(c, "none", "done", 0, None, "signedOut")
  <2>1. call' = [call EXCEPT ![c] = Done]
    BY <1>4 DEF CheckGeneration
  <2> QED
    BY <1>1, <2>1, EndEffect
<1> QED
  BY <1>2, <1>3, <1>4

LEMMA EndMoves ==
  ASSUME Typed, NEW c \in Call, Revoke(c) \/ EndSet(c)
  PROVE  ~Acts(c) /\ Becomes(c, "none", "done", 0, None, "signedOut")
<1>1. call \in [Call -> GoodCall]
  BY DEF Typed, AuthTyped
<1>2. call' = [call EXCEPT ![c] = Done] /\ ~Acts(c)
  BY DEF Revoke, EndSet, Acts, At
<1> QED
  BY <1>1, <1>2, EndEffect

LEMMA OtherCalls ==
  ASSUME NEW c \in Call, OthersKeep(c), NEW d \in Call, d # c
  PROVE  /\ SameCall(call[d], call'[d])
         /\ Acts(d)' <=> Acts(d)
         /\ Waits(d)' <=> Waits(d)
         /\ generation' = generation => (Newest(d)' <=> Newest(d))
BY DEF OthersKeep, SameCall, Acts, Waits, Newest

LEMMA NumberedMove ==
  ASSUME Typed, Numbered, NEW c \in Call, generation' = generation, OthersKeep(c),
         Acts(c)' => Acts(c) /\ call'[c].generation = call[c].generation
  PROVE  Numbered'
<1>1. \A d \in Call : Acts(d)' => Acts(d) /\ call'[d].generation = call[d].generation
  BY OtherCalls DEF SameCall
<1> QED
  BY <1>1 DEF Numbered

LEMMA NumberedSame ==
  ASSUME Numbered, generation' = generation, \A d \in Call : SameCall(call[d], call'[d])
  PROVE  Numbered'
BY DEF Numbered, SameCall, Acts

LEMMA BeginEffects ==
  ASSUME Typed, NEW c \in Call, BeginSignIn(c) \/ BeginSignOut(c)
  PROVE  /\ ~Acts(c) /\ OthersKeep(c) /\ generation' = generation + 1 /\ generation \in Nat
         /\ call'[c].generation = generation' /\ call'[c].got = None
         /\ UNCHANGED <<session, file, status, refresh, overtaken>>
         /\ \/ /\ call'[c].op = "signIn" /\ call'[c].pc = "publish"
               /\ call'[c].next = "signingIn"
            \/ call'[c].op = "signOut" /\ call'[c].pc = "take"
<1>1. RestTyped /\ call \in [Call -> GoodCall] /\ NewAfter
  BY TypedParts, AuthParts
<1>2. Begins(c) /\ generation' = generation + 1
  BY DEF BeginSignIn, BeginSignOut
<1>3. generation' \in 0..MaxCalls /\ generation \in Nat
  BY <1>1, <1>2, NextGeneration, Numbers, Parameters DEF RestTyped, Call
<1>4. ~Acts(c)
  BY <1>2 DEF Begins, At, Acts
<1>5. UNCHANGED <<session, file, status, refresh, overtaken>>
  BY DEF BeginSignIn, BeginSignOut
<1>6. CASE BeginSignIn(c)
  BY <1>1, <1>2, <1>3, <1>4, <1>5, <1>6, BeginSignInMoves DEF Becomes
<1>7. CASE BeginSignOut(c)
  BY <1>1, <1>2, <1>3, <1>4, <1>5, <1>7, BeginSignOutMoves DEF Becomes
<1> QED
  BY <1>6, <1>7

LEMMA NumberedBegin ==
  ASSUME Typed, Numbered, NEW c \in Call, BeginSignIn(c) \/ BeginSignOut(c)
  PROVE  Numbered'
<1>1. /\ ~Acts(c) /\ OthersKeep(c) /\ generation' = generation + 1 /\ generation \in Nat
      /\ call'[c].generation = generation'
  BY BeginEffects
<1>2. \A d \in Call : d # c /\ Acts(d)' =>
        Acts(d) /\ call'[d].generation = call[d].generation
  BY <1>1, OtherCalls DEF SameCall
<1>3. \A d \in Call : d # c /\ Acts(d)' => call'[d].generation \in 1..generation
  BY <1>2 DEF Numbered
<1>4. \A d \in Call : Acts(d)' => call'[d].generation \in 1..generation'
  BY <1>1, <1>3
<1>5. \A d, e \in Call : Acts(d)' /\ Acts(e)' /\ d # e =>
        call'[d].generation # call'[e].generation
  <2>1. \A d \in Call : d # c /\ Acts(d)' => call'[d].generation # call'[c].generation
    BY <1>1, <1>3
  <2>2. \A d, e \in Call : d # c /\ e # c /\ Acts(d)' /\ Acts(e)' /\ d # e =>
          call'[d].generation # call'[e].generation
    BY <1>2 DEF Numbered
  <2> QED
    BY <2>1, <2>2
<1> QED
  BY <1>4, <1>5 DEF Numbered

(* A call's place among the mirrors, whatever goes on beside it.           *)
LEMMA PhaseKept ==
  ASSUME Typed, Beside, NEW c \in Call, SameCall(call[c], call'[c]), Phase(c)
  PROVE  Phase(c)'
<1>1. /\ Consistent => Consistent'
      /\ Quiet => Quiet' /\ Same
      /\ Signed = None => Signed' = None
      /\ Signed = None /\ file = None => file' = None
      /\ status = "signedOut" => status' = "signedOut"
      /\ ~inputs.signedIn => ~inputs'.signedIn
  BY BesideKeeps
<1>2. /\ call'[c].op = call[c].op /\ call'[c].pc = call[c].pc
      /\ call'[c].got = call[c].got /\ call'[c].next = call[c].next
  BY DEF SameCall
<1>3. SignOutPhase(c) => SignOutPhase(c)'
  BY <1>1, <1>2 DEF SignOutPhase
<1>4. AskPhase(c) => AskPhase(c)'
  BY <1>1, <1>2 DEF AskPhase
<1>5. TryPhase(c) => TryPhase(c)'
  BY <1>1, <1>2 DEF TryPhase, Same
<1>6. Asks(c)' <=> Asks(c)
  BY <1>2 DEF Asks
<1> QED
  BY <1>2, <1>3, <1>4, <1>5, <1>6 DEF Phase

(* The steps of a call that only the call itself notices.                  *)
LEMMA CalmStep ==
  ASSUME Typed, NEW c \in Call,
         \/ BeginSet(c) \/ EndSet(c)
         \/ /\ \/ LeaveBrowser(c) \/ ExchangeFails(c) \/ Exchange(c) \/ CheckGeneration(c)
               \/ Settle(c) \/ Revoke(c)
            /\ UNCHANGED <<relayVars, windowVars>>
  PROVE  Same /\ refresh' = refresh /\ at' = at /\ Beside
<1>1. UNCHANGED <<session, file, status, refresh, at>>
  BY DEF BeginSet, Save, EndSet, Configure, LeaveBrowser, ExchangeFails, Exchange,
         CheckGeneration, Settle, Revoke, relayVars
<1>2. inputs'.signedIn = inputs.signedIn
  <2>1. CASE EndSet(c)
    BY <2>1 DEF EndSet, Configure, Update, StartInputs
  <2>2. CASE ~EndSet(c)
    BY <2>2 DEF BeginSet, Save, relayVars
  <2> QED
    BY <2>1, <2>2
<1>3. Signed' = Signed
  BY <1>1 DEF Signed
<1> QED
  BY <1>1, <1>2, <1>3 DEF Same, Beside, Else

LEMMA SameMirrors ==
  ASSUME Same, refresh' = refresh, at' = at
  PROVE  /\ Consistent' <=> Consistent
         /\ Quiet' <=> Quiet
         /\ Leaving' <=> Leaving
         /\ AtRest' <=> AtRest
BY DEF Same, Consistent, Quiet, Leaving, Wanted, AtRest

(* What the newest call's own steps make of its place.                     *)
LEMMA QuietTypes ==
  ASSUME Typed, Quiet
  PROVE  ~Leaving /\ at # "signedOut" /\ refresh.at = "none"
BY NotConnect DEF Quiet, Wanted, Leaving

LEMMA StatusTypes ==
  ASSUME NEW f \in {None} \cup Stored
  PROVE  /\ StatusOf(f) \in {"signedOut"} \cup User
         /\ StatusOf(f) \in User <=> f # None
         /\ StatusOf(None) = "signedOut"
BY Parameters DEF StatusOf, Stored

LEMMA CallTypes ==
  ASSUME Typed, NEW c \in Call
  PROVE  /\ call[c].op = "signOut" => call[c].next = "signedOut"
         /\ call[c].pc \in {"browser", "exchange", "save", "set", "check", "settle"}
              => call[c].op = "signIn"
         /\ call[c].pc \in {"take", "forget", "revoke"} => call[c].op = "signOut"
         /\ call[c].pc \in {"save", "set"} => call[c].got \in Stored
         /\ call[c].pc # "configure" => call[c].got \in {None} \cup Stored
<1>1. call \in [Call -> GoodCall]
  BY DEF Typed, AuthTyped
<1>2. call[c] \in GoodCall
  BY <1>1
<1> QED
  BY <1>2, GoodParts

LEMMA PublishPhase ==
  ASSUME Typed, NEW c \in Call, Publish(c), UNCHANGED <<relayVars, windowVars>>, Phase(c)
  PROVE  Phase(c)'
<1>1. /\ call[c].pc = "publish" /\ call'[c].pc = "tell" /\ call'[c].op = call[c].op
      /\ call'[c].got = call[c].got /\ call'[c].next = call[c].next
  BY StepMoves DEF Becomes
<1>2. /\ status' = call[c].next
      /\ UNCHANGED <<Signed, file, inputs.signedIn, refresh, at>>
  BY DEF Publish, Signed, relayVars
<1>3. (Consistent' <=> Consistent) /\ (Quiet' <=> Quiet)
  BY <1>2 DEF Consistent, Quiet, Leaving, Wanted
<1>4. CASE call[c].op = "signOut"
  <2>1. SignOutPhase(c)'
    BY <1>1, <1>2, <1>4, CallTypes DEF Phase, SignOutPhase
  <2> QED
    BY <1>1, <1>4, <2>1 DEF Phase
<1>5. CASE call[c].op # "signOut" /\ Asks(c)
  <2>1. Asks(c)' /\ AskPhase(c)'
    BY <1>1, <1>3, <1>5 DEF Phase, AskPhase, Asks
  <2> QED
    BY <1>1, <1>5, <2>1 DEF Phase
<1>6. CASE call[c].op # "signOut" /\ ~Asks(c)
  <2>1. ~Asks(c)' /\ TryPhase(c)'
    BY <1>1, <1>2, <1>3, <1>6 DEF Phase, TryPhase, Asks
  <2> QED
    BY <1>1, <1>6, <2>1 DEF Phase
<1> QED
  BY <1>4, <1>5, <1>6

LEMMA TellPhase ==
  ASSUME Typed, NEW c \in Call, TellRelay(c), Phase(c)
  PROVE  (Acts(c)' /\ Phase(c)') \/ (~Acts(c)' /\ AtRest')
<1>1. call \in [Call -> GoodCall] /\ Tell(c) /\ call[c].pc = "tell"
  BY DEF Typed, AuthTyped, TellRelay, Tell, At
<1>2. UNCHANGED <<Signed, file, status, refresh, at>>
  BY DEF TellRelay, Tell, SetSignedIn, Signed
<1>3. inputs'.signedIn <=> call[c].next \in User
  <2>1. PICK b \in BOOLEAN : b <=> call[c].next \in User
    OBVIOUS
  <2>2. inputs' = [inputs EXCEPT !.signedIn = (call[c].next \in User)]
    BY DEF TellRelay, SetSignedIn, Update
  <2>3. inputs \in Inputs
    BY DEF Typed, RelayTyped, RelayTypeOK, Inputs
  <2> QED
    BY <2>2, <2>3 DEF Inputs
<1>4. Signed \in {None} \cup Stored /\ None \notin Stored
  BY SignedTypes
<1>5. CASE call[c].op = "signOut"
  <2>1. call'[c].pc = "revoke"
    BY <1>1, <1>5, TellMoves DEF Becomes
  <2>2. Signed = None /\ file = None /\ status = "signedOut" /\ call[c].next = "signedOut"
    BY <1>1, <1>5, CallTypes DEF Phase, SignOutPhase
  <2>3. AtRest'
    BY <1>2, <1>3, <2>2, StatusTypes, Parameters DEF AtRest, Consistent, Leaving
  <2> QED
    BY <2>1, <2>3 DEF Acts
<1>6. CASE call[c].op # "signOut" /\ Asks(c)
  <2>1. call[c].next = "signingIn" /\ AskPhase(c)
    BY <1>1, <1>6 DEF Asks, Phase
  <2>2. call'[c].pc = "browser" /\ call'[c].op = "signIn" /\ call'[c].got = call[c].got
    BY <1>1, <1>6, <2>1, TellMoves DEF Becomes
  <2>3. ~inputs'.signedIn
    BY <1>3, <2>1, Parameters
  <2>4. Consistent'
    BY <1>2, <2>1 DEF AskPhase, Consistent, Leaving
  <2>5. Asks(c)' /\ AskPhase(c)' /\ Acts(c)'
    BY <2>1, <2>2, <2>3, <2>4 DEF Asks, AskPhase, Acts
  <2> QED
    BY <2>2, <2>5 DEF Phase
<1>7. CASE call[c].op # "signOut" /\ ~Asks(c)
  <2>1. call[c].next # "signingIn" /\ TryPhase(c)
    BY <1>1, <1>7 DEF Asks, Phase
  <2>2. call'[c].pc = "done"
    BY <1>1, <1>7, <2>1, TellMoves DEF Becomes
  <2>3. file = Signed /\ status = StatusOf(Signed) /\ call[c].next = StatusOf(Signed)
    BY <1>1, <2>1 DEF TryPhase
  <2>4. ~Leaving /\ at # "signedOut" /\ refresh.at = "none"
    BY <2>1, QuietTypes DEF TryPhase
  <2>5. inputs'.signedIn <=> Signed # None
    BY <1>3, <1>4, <2>3, StatusTypes
  <2>6. AtRest'
    BY <1>2, <2>3, <2>4, <2>5 DEF AtRest, Consistent, Leaving
  <2> QED
    BY <2>2, <2>6 DEF Acts
<1> QED
  BY <1>5, <1>6, <1>7

LEMMA AnswerPhase ==
  ASSUME Typed, Linked, NEW c \in Call, AnswerSignIn(c), UNCHANGED <<relayVars, windowVars>>,
         Phase(c)
  PROVE  Acts(c)' /\ Phase(c)'
<1>1. ~changed /\ LeaveBrowser(c)
  BY DEF AnswerSignIn
<1>2. /\ call[c].pc = "browser" /\ call'[c].pc \in {"exchange", "check"}
      /\ call'[c].op = call[c].op /\ call'[c].got = call[c].got
  BY <1>1, StepMoves DEF Becomes
<1>3. AskPhase(c) /\ call[c].op = "signIn"
  BY <1>2, CallTypes DEF Phase, Asks
<1>4. Consistent /\ ~inputs.signedIn /\ call[c].got = None
  BY <1>2, <1>3 DEF AskPhase
<1>5. Quiet
  BY <1>1, <1>4, NotConnect DEF Linked, Quiet
<1>6. file = Signed
  BY <1>4, <1>5, QuietTypes DEF Consistent
<1>7. Same /\ refresh' = refresh /\ at' = at
  BY <1>1, CalmStep
<1>8. Quiet' /\ file' = Signed'
  BY <1>5, <1>6, <1>7, SameMirrors DEF Same
<1>9. TryPhase(c)' /\ ~Asks(c)'
  BY <1>2, <1>4, <1>8 DEF TryPhase, Asks
<1> QED
  BY <1>2, <1>3, <1>9 DEF Phase, Acts

LEMMA ExchangePhase ==
  ASSUME Typed, NEW c \in Call, Exchange(c), UNCHANGED <<relayVars, windowVars>>, Phase(c)
  PROVE  Acts(c)' /\ Phase(c)'
<1>1. call[c].pc = "exchange" /\ call'[c].pc = "save" /\ call'[c].op = "signIn"
  <2>1. call \in [Call -> GoodCall] /\ issued \in 0..MaxTokens
    BY DEF Typed, AuthTyped
  <2>2. PICK user \in User :
          Becomes(c, "signIn", "save", call[c].generation,
                  [user |-> user, token |-> issued'], call[c].next)
    BY <2>1, ExchangeMoves
  <2> QED
    BY <2>2 DEF Becomes, Exchange, At
<1>2. TryPhase(c)
  BY <1>1, CallTypes DEF Phase, Asks
<1>3. Same /\ refresh' = refresh /\ at' = at
  BY CalmStep
<1>4. Quiet' /\ file' = Signed'
  BY <1>1, <1>2, <1>3, SameMirrors DEF TryPhase, Same
<1>5. TryPhase(c)' /\ ~Asks(c)'
  BY <1>1, <1>4 DEF TryPhase, Asks
<1> QED
  BY <1>1, <1>5 DEF Phase, Acts

LEMMA ExchangeFailsPhase ==
  ASSUME Typed, NEW c \in Call, ExchangeFails(c), UNCHANGED <<relayVars, windowVars>>, Phase(c)
  PROVE  Acts(c)' /\ Phase(c)'
<1>1. /\ call[c].pc = "exchange" /\ call'[c].pc = "check" /\ call'[c].op = call[c].op
      /\ call'[c].got = call[c].got
  BY StepMoves DEF Becomes
<1>2. TryPhase(c) /\ call[c].op = "signIn"
  BY <1>1, CallTypes DEF Phase, Asks
<1>3. Same /\ refresh' = refresh /\ at' = at
  BY CalmStep
<1>4. Quiet' /\ file' = Signed' /\ call[c].got = None
  BY <1>1, <1>2, <1>3, SameMirrors DEF TryPhase, Same
<1>5. TryPhase(c)' /\ ~Asks(c)'
  BY <1>1, <1>4 DEF TryPhase, Asks
<1> QED
  BY <1>1, <1>2, <1>5 DEF Phase, Acts

LEMMA SavePhase ==
  ASSUME Typed, NEW c \in Call, SaveSignIn(c), UNCHANGED <<relayVars, windowVars>>, Phase(c)
  PROVE  Acts(c)' /\ Phase(c)'
<1>1. /\ call[c].pc = "save" /\ call'[c].pc = "set" /\ call'[c].op = call[c].op
      /\ call'[c].got = call[c].got
  BY StepMoves DEF Becomes
<1>2. TryPhase(c) /\ call[c].op = "signIn"
  BY <1>1, CallTypes DEF Phase, Asks
<1>3. file' = call[c].got /\ UNCHANGED <<at, inputs>>
  BY DEF SaveSignIn, relayVars
<1>4. Quiet'
  BY <1>2, <1>3 DEF TryPhase, Quiet, Wanted
<1>5. TryPhase(c)' /\ ~Asks(c)'
  BY <1>1, <1>3, <1>4 DEF TryPhase, Asks
<1> QED
  BY <1>1, <1>2, <1>5 DEF Phase, Acts

LEMMA SetPhase ==
  ASSUME Typed, NEW c \in Call, SetSession(c), UNCHANGED <<relayVars, windowVars>>, Phase(c)
  PROVE  Acts(c)' /\ Phase(c)'
<1>1. /\ call[c].pc = "set" /\ call'[c].pc = "check" /\ call'[c].op = call[c].op
      /\ call'[c].got = call[c].got
  BY StepMoves DEF Becomes
<1>2. TryPhase(c) /\ call[c].op = "signIn" /\ call[c].got \in Stored
  BY <1>1, CallTypes DEF Phase, Asks
<1>3. UNCHANGED <<file, at, inputs>> /\ session' = [stored |-> call[c].got, fresh |-> TRUE]
  BY DEF SetSession, relayVars
<1>4. Signed' = call[c].got
  <2>1. session' \in Session
    BY <1>2, <1>3 DEF Session
  <2> QED
    BY <1>3, <2>1, Parameters DEF Signed
<1>5. Quiet'
  BY <1>2, <1>3 DEF TryPhase, Quiet, Wanted
<1>6. file' = call'[c].got /\ file' = Signed'
  BY <1>1, <1>2, <1>3, <1>4 DEF TryPhase
<1>7. TryPhase(c)' /\ ~Asks(c)'
  BY <1>1, <1>5, <1>6 DEF TryPhase, Asks
<1> QED
  BY <1>1, <1>2, <1>7 DEF Phase, Acts

LEMMA CheckPhase ==
  ASSUME Typed, NEW c \in Call, CheckGeneration(c), Newest(c),
         UNCHANGED <<relayVars, windowVars>>, Phase(c)
  PROVE  Acts(c)' /\ Phase(c)'
<1>1. /\ call[c].pc = "check" /\ call'[c].pc = "settle" /\ call'[c].op = call[c].op
      /\ call'[c].got = call[c].got
  BY CheckMoves DEF Becomes
<1>2. TryPhase(c) /\ call[c].op = "signIn"
  BY <1>1, CallTypes DEF Phase, Asks
<1>3. Same /\ refresh' = refresh /\ at' = at
  BY CalmStep
<1>4. /\ Quiet' /\ file' = Signed'
      /\ call'[c].got # None => file' = call'[c].got
  BY <1>1, <1>2, <1>3, SameMirrors DEF TryPhase, Same
<1>5. TryPhase(c)' /\ ~Asks(c)'
  BY <1>1, <1>4 DEF TryPhase, Asks
<1> QED
  BY <1>1, <1>2, <1>5 DEF Phase, Acts

LEMMA SettlePhase ==
  ASSUME Typed, NEW c \in Call, Settle(c), UNCHANGED <<relayVars, windowVars>>, Phase(c)
  PROVE  Acts(c)' /\ Phase(c)'
<1>1. call \in [Call -> GoodCall] /\ session \in {None} \cup Session
  BY DEF Typed, AuthTyped
<1>2. /\ Becomes(c, "signIn", "publish", call[c].generation, call[c].got, Outcome(c))
      /\ Outcome(c) \in {"signedOut"} \cup User
  BY <1>1, SettleMoves
<1>3. /\ call[c].pc = "settle" /\ call'[c].pc = "publish" /\ call'[c].op = "signIn"
      /\ call'[c].next = Outcome(c) /\ Outcome(c) # "signingIn"
  BY <1>2, Parameters DEF Becomes, Settle, At
<1>4. TryPhase(c) /\ call[c].op = "signIn"
  BY <1>3, CallTypes DEF Phase, Asks
<1>5. file = Signed /\ (call[c].got # None => file = call[c].got)
  BY <1>3, <1>4 DEF TryPhase
<1>6. Outcome(c) = StatusOf(file)
  <2>1. /\ Signed = None <=> session = None
        /\ session # None => Signed = session.stored
    BY SignedTypes
  <2> QED
    BY <1>5, <2>1 DEF Outcome, StatusOf
<1>7. Same /\ refresh' = refresh /\ at' = at
  BY CalmStep
<1>8. Quiet' /\ file' = Signed' /\ file' = file
  BY <1>4, <1>5, <1>7, SameMirrors DEF TryPhase, Same
<1>9. TryPhase(c)' /\ ~Asks(c)'
  BY <1>3, <1>6, <1>8 DEF TryPhase, Asks
<1> QED
  BY <1>3, <1>9 DEF Phase, Acts

LEMMA TakePhase ==
  ASSUME Typed, NEW c \in Call, Take(c) \/ Forget(c), Phase(c)
  PROVE  Acts(c)' /\ Phase(c)'
<1>1. CASE Take(c)
  <2>1. call \in [Call -> GoodCall] /\ session \in {None} \cup Session
    BY DEF Typed, AuthTyped
  <2>2. call'[c].op = "signOut" /\ call'[c].pc = "forget"
    BY <1>1, <2>1, TakeMoves DEF Becomes
  <2>3. Signed' = None
    BY <1>1 DEF Take, Signed
  <2> QED
    BY <2>2, <2>3 DEF Phase, SignOutPhase, Acts
<1>2. CASE Forget(c)
  <2>1. call[c].pc = "forget" /\ call'[c].pc = "publish" /\ call'[c].op = call[c].op
    BY <1>2, StepMoves DEF Becomes
  <2>2. call[c].op = "signOut" /\ SignOutPhase(c)
    BY <2>1, CallTypes DEF Phase
  <2>3. Signed = None /\ Signed' = None /\ file' = None
    BY <1>2, <2>1, <2>2 DEF SignOutPhase, Forget, Signed
  <2> QED
    BY <2>1, <2>2, <2>3 DEF Phase, SignOutPhase, Acts
<1> QED
  BY <1>1, <1>2

LEMMA Progress ==
  ASSUME Typed, Linked, NEW c \in Call, Continue(c), Acts(c), Newest(c), Phase(c)
  PROVE  (Acts(c)' /\ Phase(c)') \/ (~Acts(c)' /\ AtRest')
<1>1. ~EndSet(c) /\ ~Revoke(c)
  BY EndMoves
<1>2. CASE TellRelay(c)
  BY <1>2, TellPhase
<1>3. CASE ~TellRelay(c)
  <2>1. UNCHANGED <<relayVars, windowVars>>
    BY <1>1, <1>3 DEF Continue
  <2>2. CASE Publish(c)
    <3>1. Acts(c)'
      BY <2>2, StepMoves DEF Becomes, Acts
    <3> QED
      BY <2>1, <2>2, <3>1, PublishPhase
  <2>3. CASE ~Publish(c)
    <3>1. \/ AnswerSignIn(c) \/ Exchange(c) \/ ExchangeFails(c) \/ SaveSignIn(c)
          \/ SetSession(c) \/ CheckGeneration(c) \/ Settle(c) \/ Take(c) \/ Forget(c)
      BY <1>1, <1>3, <2>3 DEF Continue
    <3> QED
      BY <2>1, <3>1, AnswerPhase, ExchangePhase, ExchangeFailsPhase, SavePhase, SetPhase,
         CheckPhase, SettlePhase, TakePhase
  <2> QED
    BY <2>2, <2>3
<1> QED
  BY <1>2, <1>3

(* A step of a call, beside the others.                                    *)
LEMMA ContinueFrame ==
  ASSUME Typed, NEW c \in Call, Continue(c)
  PROVE  /\ OthersKeep(c) /\ generation' = generation
         /\ overtaken => overtaken'
         /\ Acts(c)' => Acts(c) /\ call'[c].generation = call[c].generation
         /\ Newest(c) /\ Acts(c)' => Newest(c)'
<1>1. call \in [Call -> GoodCall] /\ session \in {None} \cup Session /\ issued \in 0..MaxTokens
  BY DEF Typed, AuthTyped
<1>2. generation' = generation /\ (overtaken => overtaken')
  <2>1. TellRelay(c) \/ EndSet(c) => generation' = generation /\ (overtaken => overtaken')
    <3>1. TellRelay(c) => generation' = generation /\ Overtakes(c)
      BY DEF TellRelay, Tell
    <3>2. EndSet(c) => generation' = generation /\ overtaken' = overtaken
      BY DEF EndSet
    <3> QED
      BY <3>1, <3>2 DEF Overtakes
  <2>2. Publish(c) \/ SaveSignIn(c) \/ SetSession(c)
          => generation' = generation /\ (overtaken => overtaken')
    BY DEF Publish, SaveSignIn, SetSession, Overtakes
  <2>3. AnswerSignIn(c) \/ ExchangeFails(c) \/ Forget(c)
          => generation' = generation /\ (overtaken => overtaken')
    BY DEF AnswerSignIn, LeaveBrowser, ExchangeFails, Forget
  <2>4. Exchange(c) \/ CheckGeneration(c) \/ Settle(c)
          => generation' = generation /\ (overtaken => overtaken')
    BY DEF Exchange, CheckGeneration, Settle
  <2>5. Take(c) \/ Revoke(c) => generation' = generation /\ (overtaken => overtaken')
    BY DEF Take, Revoke
  <2> QED
    BY <2>1, <2>2, <2>3, <2>4, <2>5 DEF Continue
<1>3. Acts(c) \/ EndSet(c) \/ Revoke(c)
  BY DEF Continue, TellRelay, Tell, Publish, AnswerSignIn, LeaveBrowser, Exchange,
     ExchangeFails, SaveSignIn, SetSession, CheckGeneration, Settle, Take, Forget, At, Acts
<1>4. \E op, pc, gen, got, next :
        /\ Becomes(c, op, pc, gen, got, next)
        /\ \/ pc \in {"done", "revoke"}
           \/ gen = call[c].generation /\ Acts(c)
  <2>1. CASE EndSet(c) \/ Revoke(c)
    BY <2>1, EndMoves
  <2>2. CASE TellRelay(c)
    <3>1. Tell(c) /\ Acts(c)
      BY <2>2 DEF TellRelay, Tell, At, Acts
    <3> QED
      BY <1>1, <3>1, TellMoves
  <2>3. CASE Publish(c) \/ LeaveBrowser(c) \/ ExchangeFails(c) \/ SaveSignIn(c) \/ SetSession(c)
             \/ Forget(c)
    <3>1. Acts(c)
      BY <2>3, StepMoves DEF Acts
    <3> QED
      BY <2>3, <3>1, StepMoves
  <2>4. CASE CheckGeneration(c)
    <3>1. Acts(c)
      BY <2>4, CheckMoves DEF Acts
    <3> QED
      BY <2>4, <3>1, CheckMoves
  <2>5. CASE Exchange(c)
    <3>1. Acts(c)
      BY <2>5 DEF Exchange, At, Acts
    <3> QED
      BY <1>1, <2>5, <3>1, ExchangeMoves
  <2>6. CASE Settle(c)
    <3>1. Acts(c)
      BY <2>6 DEF Settle, At, Acts
    <3> QED
      BY <1>1, <2>6, <3>1, SettleMoves
  <2>7. CASE Take(c)
    <3>1. Acts(c)
      BY <2>7 DEF Take, At, Acts
    <3> QED
      BY <1>1, <2>7, <3>1, TakeMoves
  <2> QED
    BY <2>1, <2>2, <2>3, <2>4, <2>5, <2>6, <2>7 DEF Continue, AnswerSignIn
<1>5. OthersKeep(c) /\ (Acts(c)' => Acts(c) /\ call'[c].generation = call[c].generation)
  BY <1>4 DEF Becomes, Acts
<1> QED
  BY <1>2, <1>5 DEF Newest

LEMMA BesideStep ==
  ASSUME Typed, Mirrored, Beside, overtaken => overtaken', generation' = generation,
         \A d \in Call : IF Acts(d) THEN SameCall(call[d], call'[d]) ELSE ~Acts(d)'
  PROVE  Mirrored'
<1>1. ASSUME NEW d \in Call
      PROVE  /\ Acts(d)' <=> Acts(d)
             /\ Acts(d) => (Waits(d)' <=> Waits(d)) /\ (Newest(d)' <=> Newest(d))
  BY <1>1 DEF SameCall, Acts, Waits, Newest
<1>2. CASE overtaken
  BY <1>2 DEF Mirrored
<1>3. CASE Doomed
  <2>1. Doomed'
    BY <1>1, <1>3 DEF Doomed
  <2> QED
    BY <2>1 DEF Mirrored
<1>4. CASE \E n \in Call : Acts(n) /\ Newest(n) /\ Phase(n)
  <2>1. PICK n \in Call : Acts(n) /\ Newest(n) /\ Phase(n)
    BY <1>4
  <2>2. Phase(n)'
    BY <2>1, PhaseKept
  <2> QED
    BY <1>1, <2>1, <2>2 DEF Mirrored
<1>5. CASE (\A d \in Call : Acts(d) => ~Newest(d)) /\ AtRest
  <2>1. AtRest'
    BY <1>5, BesideKeeps
  <2> QED
    BY <1>1, <1>5, <2>1 DEF Mirrored
<1> QED
  BY <1>2, <1>3, <1>4, <1>5 DEF Mirrored

(* A call that is not the newest does no harm, or is seen to.              *)
LEMMA WaitingStep ==
  ASSUME Typed, NEW c \in Call, Continue(c), ~Acts(c) \/ Waits(c)
  PROVE  Beside
<1>1. CASE EndSet(c)
  BY <1>1, CalmStep
<1>2. CASE ~EndSet(c)
  <2>1. ~Tell(c) /\ ~Publish(c) /\ ~SaveSignIn(c) /\ ~SetSession(c) /\ ~Settle(c) /\ ~Take(c)
        /\ ~Forget(c)
    BY DEF Tell, Publish, SaveSignIn, SetSession, Settle, Take, Forget, At, Acts, Waits
  <2>2. /\ \/ LeaveBrowser(c) \/ Exchange(c) \/ ExchangeFails(c) \/ CheckGeneration(c) \/ Revoke(c)
        /\ UNCHANGED <<relayVars, windowVars>>
    BY <1>2, <2>1 DEF Continue, TellRelay, AnswerSignIn
  <2> QED
    BY <2>2, CalmStep
<1> QED
  BY <1>1, <1>2

LEMMA DoomedStep ==
  ASSUME Typed, NEW c \in Call, Continue(c), Doomed
  PROVE  overtaken' \/ Doomed'
<1>1. /\ OthersKeep(c) /\ generation' = generation
  BY ContinueFrame
<1>2. PICK d \in Call : Acts(d) /\ ~Newest(d) /\ ~Waits(d)
  BY DEF Doomed
<1>3. CASE d # c
  BY <1>1, <1>2, <1>3, OtherCalls DEF Doomed
<1>4. CASE d = c
  <2>1. ~EndSet(c) /\ ~Revoke(c)
    BY <1>2, <1>4, EndMoves
  <2>2. ~AnswerSignIn(c) /\ ~Exchange(c) /\ ~ExchangeFails(c) /\ ~CheckGeneration(c)
    BY <1>2, <1>4 DEF AnswerSignIn, LeaveBrowser, Exchange, ExchangeFails, CheckGeneration, At,
       Waits
  <2>3. CASE TellRelay(c) \/ Publish(c) \/ SaveSignIn(c) \/ SetSession(c)
    <3>1. overtaken' = (overtaken \/ ~Newest(c))
      BY <2>3 DEF TellRelay, Tell, Publish, SaveSignIn, SetSession, Overtakes
    <3> QED
      BY <1>2, <1>4, <3>1
  <2>4. CASE Settle(c) \/ Take(c) \/ Forget(c)
    <3>1. call'[c].pc \in {"publish", "forget"} /\ call'[c].generation = call[c].generation
      <4>1. call \in [Call -> GoodCall] /\ session \in {None} \cup Session
        BY DEF Typed, AuthTyped
      <4>2. Settle(c) => call'[c].pc = "publish" /\ call'[c].generation = call[c].generation
        BY <4>1, SettleMoves DEF Becomes
      <4>3. Take(c) => call'[c].pc = "forget" /\ call'[c].generation = call[c].generation
        BY <4>1, TakeMoves DEF Becomes
      <4>4. Forget(c) => call'[c].pc = "publish" /\ call'[c].generation = call[c].generation
        BY StepMoves DEF Becomes
      <4> QED
        BY <2>4, <4>2, <4>3, <4>4
    <3>2. Acts(c)' /\ ~Newest(c)' /\ ~Waits(c)'
      BY <1>1, <1>2, <1>4, <3>1 DEF Acts, Newest, Waits
    <3> QED
      BY <3>2 DEF Doomed
  <2> QED
    BY <2>1, <2>2, <2>3, <2>4 DEF Continue
<1> QED
  BY <1>3, <1>4

LEMMA ContinueStep ==
  ASSUME Typed, Numbered, Linked, Mirrored, NEW c \in Call, Continue(c)
  PROVE  Mirrored'
<1>1. /\ OthersKeep(c) /\ generation' = generation
      /\ overtaken => overtaken'
      /\ Acts(c)' => Acts(c) /\ call'[c].generation = call[c].generation
      /\ Newest(c) /\ Acts(c)' => Newest(c)'
  BY ContinueFrame
<1>2. CASE overtaken
  BY <1>1, <1>2 DEF Mirrored
<1>3. CASE Doomed
  BY <1>3, DoomedStep DEF Mirrored
<1>4. ASSUME ~Doomed, ~(Acts(c) /\ Newest(c))
      PROVE  Beside
  <2>1. ~Acts(c) \/ Waits(c)
    BY <1>4 DEF Doomed
  <2> QED
    BY <2>1, WaitingStep
<1>5. ASSUME ~Doomed, NEW n \in Call, Acts(n), Newest(n), Phase(n), n # c
      PROVE  Mirrored'
  <2>1. ~(Acts(c) /\ Newest(c))
    BY <1>5 DEF Numbered, Newest
  <2>2. Phase(n)'
    BY <1>1, <1>4, <1>5, <2>1, OtherCalls, PhaseKept
  <2>3. Acts(n)' /\ Newest(n)'
    BY <1>1, <1>5, OtherCalls
  <2> QED
    BY <2>2, <2>3 DEF Mirrored
<1>6. ASSUME ~Doomed, Acts(c), Newest(c), Phase(c)
      PROVE  Mirrored'
  <2>1. (Acts(c)' /\ Phase(c)') \/ (~Acts(c)' /\ AtRest')
    BY <1>6, Progress
  <2>2. CASE Acts(c)' /\ Phase(c)'
    BY <1>1, <1>6, <2>2 DEF Mirrored
  <2>3. CASE ~Acts(c)' /\ AtRest'
    <3>1. ASSUME NEW d \in Call, Acts(d)'
          PROVE  ~Newest(d)'
      <4>1. d # c
        BY <2>3, <3>1
      <4>2. Acts(d) /\ (Newest(d)' <=> Newest(d))
        BY <1>1, <3>1, <4>1, OtherCalls
      <4>3. ~Newest(d)
        BY <1>6, <4>1, <4>2 DEF Numbered, Newest
      <4> QED
        BY <4>2, <4>3
    <3> QED
      BY <2>3, <3>1 DEF Mirrored
  <2> QED
    BY <2>1, <2>2, <2>3
<1>7. ASSUME ~Doomed, \A d \in Call : Acts(d) => ~Newest(d), AtRest
      PROVE  Mirrored'
  <2>1. AtRest'
    BY <1>4, <1>7, BesideKeeps
  <2>2. ASSUME NEW d \in Call, Acts(d)'
        PROVE  ~Newest(d)'
    <3>1. CASE d = c
      <4>1. ~Newest(c) /\ call'[c].generation = call[c].generation
        BY <1>1, <1>7, <2>2, <3>1
      <4> QED
        BY <1>1, <3>1, <4>1 DEF Newest
    <3>2. CASE d # c
      BY <1>1, <1>7, <2>2, <3>2, OtherCalls
    <3> QED
      BY <3>1, <3>2
  <2> QED
    BY <2>1, <2>2 DEF Mirrored
<1> QED
  BY <1>2, <1>3, <1>5, <1>6, <1>7 DEF Mirrored

LEMMA WaitsConsistent ==
  ASSUME Typed, NEW n \in Call, Waits(n), Phase(n)
  PROVE  Consistent
<1>1. call[n].op = "signIn"
  BY CallTypes DEF Waits
<1>2. CASE call[n].pc = "browser"
  BY <1>1, <1>2 DEF Phase, Asks, AskPhase
<1>3. CASE call[n].pc \in {"exchange", "check"}
  <2>1. TryPhase(n)
    BY <1>1, <1>3 DEF Phase, Asks
  <2>2. Quiet /\ file = Signed
    BY <1>3, <2>1 DEF TryPhase
  <2> QED
    BY <2>2, QuietTypes DEF Consistent
<1> QED
  BY <1>2, <1>3 DEF Waits

LEMMA BeginStep ==
  ASSUME Typed, Numbered, Mirrored, NEW c \in Call, Begin(c)
  PROVE  Mirrored'
<1>1. CASE BeginSet(c)
  <2>1. Beside /\ generation' = generation /\ (overtaken => overtaken')
    BY <1>1, CalmStep DEF BeginSet
  <2>2. call \in [Call -> GoodCall] /\ ~Acts(c)
    BY <1>1 DEF Typed, AuthTyped, BeginSet, Begins, At, Acts
  <2>3. OthersKeep(c) /\ ~Acts(c)'
    BY <1>1, <2>2, BeginSetMoves DEF Becomes, Acts
  <2>4. \A d \in Call : IF Acts(d) THEN SameCall(call[d], call'[d]) ELSE ~Acts(d)'
    BY <2>2, <2>3, OtherCalls
  <2> QED
    BY <2>1, <2>4, BesideStep
<1>2. ASSUME BeginSignIn(c) \/ BeginSignOut(c), UNCHANGED <<relayVars, windowVars>>
      PROVE  Mirrored'
  <2>1. /\ ~Acts(c) /\ OthersKeep(c) /\ generation' = generation + 1 /\ generation \in Nat
        /\ call'[c].generation = generation' /\ call'[c].got = None
        /\ UNCHANGED <<session, file, status, refresh, overtaken>>
        /\ \/ /\ call'[c].op = "signIn" /\ call'[c].pc = "publish"
              /\ call'[c].next = "signingIn"
           \/ call'[c].op = "signOut" /\ call'[c].pc = "take"
    BY <1>2, BeginEffects
  <2>2. Consistent' <=> Consistent
    BY <1>2, <2>1 DEF Consistent, Leaving, Signed, relayVars
  <2>3. ASSUME NEW d \in Call, Acts(d)
        PROVE  Acts(d)' /\ ~Newest(d)' /\ (Waits(d)' <=> Waits(d))
    <3>1. d # c
      BY <2>1, <2>3
    <3>2. call'[d].generation = call[d].generation /\ Acts(d)' /\ (Waits(d)' <=> Waits(d))
      BY <2>1, <2>3, <3>1, OtherCalls DEF SameCall
    <3>3. call[d].generation \in 1..generation
      BY <2>3 DEF Numbered
    <3> QED
      BY <2>1, <3>2, <3>3 DEF Newest
  <2>4. ASSUME Consistent
        PROVE  Mirrored'
    <3>1. Acts(c)' /\ Newest(c)'
      BY <2>1 DEF Acts, Newest
    <3>2. Phase(c)'
      BY <2>1, <2>2, <2>4 DEF Phase, SignOutPhase, Asks, AskPhase
    <3> QED
      BY <3>1, <3>2 DEF Mirrored
  <2>5. CASE overtaken
    BY <2>1, <2>5 DEF Mirrored
  <2>6. CASE Doomed
    <3>1. Doomed'
      BY <2>3, <2>6 DEF Doomed
    <3> QED
      BY <3>1 DEF Mirrored
  <2>7. CASE \E n \in Call : Acts(n) /\ Newest(n) /\ Phase(n)
    <3>1. PICK n \in Call : Acts(n) /\ Phase(n)
      BY <2>7
    <3>2. CASE Waits(n)
      BY <2>4, <3>1, <3>2, WaitsConsistent
    <3>3. CASE ~Waits(n)
      <4>1. Doomed'
        BY <2>3, <3>1, <3>3 DEF Doomed
      <4> QED
        BY <4>1 DEF Mirrored
    <3> QED
      BY <3>2, <3>3
  <2>8. CASE AtRest
    BY <2>4, <2>8 DEF AtRest
  <2> QED
    BY <2>5, <2>6, <2>7, <2>8 DEF Mirrored
<1> QED
  BY <1>1, <1>2 DEF Begin

(* What runs beside the commands.                                          *)
LEMMA ElsewhereFrame ==
  ASSUME Typed, Task \/ Service \/ Elsewhere
  PROVE  /\ generation' = generation /\ overtaken' = overtaken
         /\ \A d \in Call : SameCall(call[d], call'[d])
<1>1. CASE CancelSignIn
  BY <1>1, CancelTyped DEF Typed, CancelSignIn
<1>2. CASE ~CancelSignIn
  <2>1. UNCHANGED <<generation, overtaken, call>>
    <3>1. CASE Task
      BY <3>1 DEF Task, AccessToken, GiveUp, StartRefresh, Refused, ForgetRefused, Refreshed,
         ReportRefused, CutRefresh, Stale, authVars
    <3>2. CASE Service \/ Elsewhere
      BY <1>2, <3>2 DEF Service, AnswerRefresh, Elsewhere, Stale, RevokeElsewhere
    <3> QED
      BY <3>1, <3>2
  <2> QED
    BY <2>1 DEF SameCall
<1> QED
  BY <1>1, <1>2

LEMMA CrashRests ==
  ASSUME Typed, Typed', Crash
  PROVE  (\A d \in Call : ~Acts(d)') /\ generation' = 0 /\ AtRest'
<1>1. \A d \in Call : ~Acts(d)'
  <2>1. call \in [Call -> GoodCall] /\ Reload
    BY DEF Typed, AuthTyped, Crash
  <2>2. Done.pc = "done"
    BY DEF Done, NoCall
  <2>3. \A d \in Call : call'[d].pc \in {"new", "done"}
    BY <2>1, <2>2, ReloadMoves DEF At
  <2> QED
    BY <2>3 DEF Acts
<1>2. session' = Loaded(file') /\ status' = StatusOf(file') /\ refresh' = NoRefresh
      /\ generation' = 0
  BY DEF Crash, Reload
<1>3. file' \in {None} \cup Stored
  BY DEF Typed, AuthTyped
<1>4. Signed' = file'
  <2>1. CASE file' = None
    BY <1>2, <2>1 DEF Loaded, Signed
  <2>2. CASE file' # None
    <3>1. session' = [stored |-> file', fresh |-> FALSE]
      BY <1>2, <2>2 DEF Loaded
    <3>2. session' \in Session
      BY <1>3, <2>2, <3>1 DEF Session
    <3> QED
      BY <3>1, <3>2, Parameters DEF Signed
  <2> QED
    BY <2>1, <2>2
<1>5. inputs'.signedIn <=> status' \in User
  BY DEF Crash, Restart, StartInputs
<1>6. at' = "look" /\ refresh'.at = "none"
  BY <1>2 DEF Crash, Restart, NoRefresh
<1>7. inputs'.signedIn <=> Signed' # None
  BY <1>2, <1>3, <1>4, <1>5, StatusTypes
<1>8. AtRest'
  BY <1>2, <1>4, <1>6, <1>7 DEF AtRest, Consistent, Leaving
<1> QED
  BY <1>1, <1>2, <1>8

LEMMA NumberedStep ==
  ASSUME Typed, Typed', Numbered, [Next]_vars
  PROVE  Numbered'
<1>1. ASSUME NEW c \in Call, Begin(c)
      PROVE  Numbered'
  <2>1. CASE BeginSet(c)
    <3>1. call \in [Call -> GoodCall] /\ generation' = generation
      BY <2>1 DEF Typed, AuthTyped, BeginSet
    <3>2. OthersKeep(c) /\ ~Acts(c)'
      BY <2>1, <3>1, BeginSetMoves DEF Becomes, Acts
    <3> QED
      BY <3>1, <3>2, NumberedMove
  <2> QED
    BY <1>1, <2>1, NumberedBegin DEF Begin
<1>2. ASSUME NEW c \in Call, Continue(c)
      PROVE  Numbered'
  <2>1. OthersKeep(c) /\ generation' = generation
        /\ (Acts(c)' => Acts(c) /\ call'[c].generation = call[c].generation)
    BY <1>2, ContinueFrame
  <2> QED
    BY <2>1, NumberedMove
<1>3. CASE Task \/ Service \/ Elsewhere
  BY <1>3, ElsewhereFrame, NumberedSame
<1>4. CASE Crash
  BY <1>4, CrashRests DEF Numbered
<1>5. CASE UNCHANGED vars
  BY <1>5, NumberedSame DEF vars, authVars, SameCall
<1> QED
  BY <1>1, <1>2, <1>3, <1>4, <1>5 DEF Next

LEMMA MirroredStep ==
  ASSUME Typed, Typed', MirrorInv, [Next]_vars
  PROVE  Mirrored'
<1>1. Numbered /\ Linked /\ Mirrored
  BY DEF MirrorInv
<1>2. ASSUME NEW c \in Call, Begin(c) \/ Continue(c)
      PROVE  Mirrored'
  BY <1>1, <1>2, BeginStep, ContinueStep
<1>3. CASE Task \/ Service \/ Elsewhere
  <2>1. /\ generation' = generation /\ overtaken' = overtaken
        /\ \A d \in Call : SameCall(call[d], call'[d])
    BY <1>3, ElsewhereFrame
  <2>2. \A d \in Call : IF Acts(d) THEN SameCall(call[d], call'[d]) ELSE ~Acts(d)'
    BY <2>1 DEF SameCall, Acts
  <2>3. Beside
    BY <1>3, TaskIsBeside
  <2> QED
    BY <1>1, <2>1, <2>2, <2>3, BesideStep
<1>4. CASE Crash
  BY <1>4, CrashRests DEF Mirrored
<1>5. CASE UNCHANGED vars
  <2>1. Beside
    BY <1>5, SameAuthSame DEF vars, authVars, relayVars, Beside, Else
  <2>2. \A d \in Call : IF Acts(d) THEN SameCall(call[d], call'[d]) ELSE ~Acts(d)'
    BY <1>5 DEF SameCall, Acts, vars, authVars
  <2> QED
    BY <1>1, <1>5, <2>1, <2>2, BesideStep DEF vars, authVars
<1> QED
  BY <1>2, <1>3, <1>4, <1>5 DEF Next

LEMMA InitMirrored ==
  ASSUME Init, Typed
  PROVE  MirrorInv
<1>1. \A c \in Call : ~Acts(c)
  BY DEF Init, AuthInit, NoCall, Acts
<1>2. session = Loaded(file) /\ status = StatusOf(file) /\ refresh.at = "none" /\ at = "look"
  BY DEF Init, AuthInit, RelayInit, NoRefresh
<1>3. file \in {None} \cup Stored
  BY SignedTypes
<1>4. Signed = file
  <2>1. CASE file = None
    BY <1>2, <2>1 DEF Loaded, Signed
  <2>2. CASE file # None
    <3>1. session = [stored |-> file, fresh |-> FALSE]
      BY <1>2, <2>2 DEF Loaded
    <3>2. session \in Session
      BY <1>3, <2>2, <3>1 DEF Session
    <3> QED
      BY <3>1, <3>2, Parameters DEF Signed
  <2> QED
    BY <2>1, <2>2
<1>5. inputs.signedIn <=> status \in User
  <2>1. PICK b \in BOOLEAN : b <=> status \in User
    OBVIOUS
  <2> QED
    BY DEF Init, RelayInit, StartInputs
<1>6. inputs.signedIn <=> Signed # None
  BY <1>2, <1>3, <1>4, <1>5, StatusTypes
<1>7. AtRest
  BY <1>2, <1>4, <1>6 DEF AtRest, Consistent, Leaving
<1> QED
  BY <1>1, <1>2, <1>7 DEF MirrorInv, Numbered, Linked, Wanted, Mirrored

LEMMA MirrorInvariant == Spec => []MirrorInv
<1>1. Init /\ Typed => MirrorInv
  BY InitMirrored
<1>2. Typed /\ Typed' /\ MirrorInv /\ [Next]_vars => MirrorInv'
  BY NumberedStep, LinkedStep, MirroredStep DEF MirrorInv
<1> QED
  BY <1>1, <1>2, TypedInvariant, PTL DEF Spec

(* "Mirrors `session` for synchronous reads (auth_status, relay            *)
(* configuration)" (auth.rs, status): however the commands, the relay's    *)
(* task and restarts interleave, once nothing is under way the status, what*)
(* the relay was told and the file agree with the session, unless a call   *)
(* that a newer one had superseded changed one of them after that.         *)
THEOREM StatusMirrorsSession == Spec => []MirrorsUnlessOvertaken
<1>1. Typed /\ MirrorInv => MirrorsUnlessOvertaken
  <2>1. SUFFICES ASSUME Typed, Mirrored, ~overtaken, Settled
                 PROVE  /\ status = IF session = None THEN "signedOut" ELSE session.stored.user
                        /\ inputs.signedIn <=> session # None
                        /\ file = IF session = None THEN None ELSE session.stored
    BY DEF MirrorInv, MirrorsUnlessOvertaken, StatusMirrors
  <2>2. \A c \in Call : ~Acts(c)
    BY <2>1 DEF Settled, Acts
  <2>3. AtRest
    BY <2>1, <2>2 DEF Mirrored, Doomed
  <2>4. ~Leaving /\ refresh.at # "forget" /\ at # "signedOut"
    BY <2>1 DEF Settled, Leaving
  <2>5. /\ file = Signed /\ status = StatusOf(Signed)
        /\ inputs.signedIn <=> Signed # None
    BY <2>3, <2>4 DEF AtRest, Consistent
  <2>6. /\ Signed = None <=> session = None
        /\ session # None => Signed = session.stored
    BY <2>1, SignedTypes
  <2> QED
    BY <2>5, <2>6 DEF StatusOf
<1> QED
  BY <1>1, TypedInvariant, MirrorInvariant, PTL
================================================================================
