-------------------------------- MODULE SignIn --------------------------------
(***************************************************************************)
(* The sign-in of a device (apps/desktop/src-tauri/src/auth.rs): the       *)
(* session in memory behind an async mutex, its file, the status that      *)
(* mirrors it, and the calls that change them: the commands sign_in,       *)
(* cancel_sign_in and sign_out, which the window may call at any time,     *)
(* and access_token, which the relay connection calls (RelayClient).  A    *)
(* step goes from one await to the next, or from one lock to the next;     *)
(* other calls run in between.                                             *)
(***************************************************************************)
EXTENDS Integers

CONSTANTS
  MaxCalls,   \* bound: calls of the commands
  User,       \* accounts one may sign in to
  None,
  MaxTokens   \* bound: refresh tokens issued

ASSUME SignInAssumption ==
  /\ MaxCalls \in Nat /\ MaxTokens \in Nat \ {0}
  /\ None \notin User /\ {"signedOut", "signingIn"} \cap User = {}

VARIABLES
  session,     \* AuthState.session
  file,        \* what is saved
  status,      \* AuthState.status
  pending,     \* AuthState.cancel_sign_in: the call it cancels
  generation,  \* AuthState.generation
  call,        \* where each call is
  refresh,     \* where access_token is; it holds the lock while "sent"
  accepted,    \* the refresh tokens the account service accepts (external)
  issued,
  revoked,     \* history: the user removed the sign-in at the account service
  overtaken,   \* history: a call changed something after a newer one began
  cut          \* history: a refresh was cut short after the service rotated

authVars == <<session, file, status, pending, generation, call, refresh,
              accepted, issued, revoked, overtaken, cut>>

Call == 1..MaxCalls     \* in the order they are made
Token == 1..MaxTokens
Stored == [user: User, token: Token]
Status == {"signedOut", "signingIn"} \cup User

ASSUME NoneAssumption == None \notin Stored \cup [stored: Stored, fresh: BOOLEAN]

NoCall == [op |-> "none", pc |-> "new", generation |-> 0, cancelled |-> FALSE,
           got |-> None, next |-> "signedOut"]
Pc == {"new", "publish", "tell", "browser", "exchange", "save", "set", "check", "settle",
       "take", "forget", "revoke", "configure", "done"}

AuthTypeOK ==
  /\ session \in {None} \cup [stored: Stored, fresh: BOOLEAN]
  /\ file \in {None} \cup Stored
  /\ status \in Status
  /\ pending \in {None} \cup Call
  /\ generation \in {0} \cup Call
  /\ refresh.at \in {"none", "sent", "answered", "forget", "report"}
  /\ refresh.at \in {"sent", "answered"} => session # None
  /\ accepted \subseteq Token
  /\ \A c \in Call : call[c].pc \in Pc /\ call[c].next \in Status
  /\ {revoked, overtaken, cut} \subseteq BOOLEAN

(* load: from what an earlier run of the program left in the file.         *)
Loaded(f)   == IF f = None THEN None ELSE [stored |-> f, fresh |-> FALSE]
StatusOf(f) == IF f = None THEN "signedOut" ELSE f.user
NoRefresh   == [at |-> "none", token |-> 0]

AuthInit ==
  /\ file \in {None} \cup [user: User, token: {1}]
  /\ issued = (IF file = None THEN 0 ELSE 1) /\ accepted = 1..issued
  /\ session = Loaded(file) /\ status = StatusOf(file)
  /\ pending = None /\ generation = 0 /\ refresh = NoRefresh
  /\ call = [c \in Call |-> NoCall]
  /\ revoked = FALSE /\ overtaken = FALSE /\ cut = FALSE

Locked == refresh.at \in {"sent", "answered"}
Newest(c) == call[c].generation = generation

(* History: call c changes what the others see.                            *)
Overtakes(c) == overtaken' = (overtaken \/ ~Newest(c))

At(c, pc) == call[c].pc = pc
Step(c, pc) == call' = [call EXCEPT ![c].pc = pc]

Done == [NoCall EXCEPT !.pc = "done"]

(* The next call to be made.                                               *)
Begins(c) == At(c, "new") /\ \A b \in Call : b < c => ~At(b, "new")

(* cancel_pending_sign_in; a sign-in that has its code no longer listens.  *)
Listens(c) == call[c].next = "signingIn" /\ call[c].pc \in {"publish", "tell", "browser"}

Cancelled(calls) ==
  IF pending # None /\ Listens(pending) THEN [calls EXCEPT ![pending].cancelled = TRUE] ELSE calls
-----------------------------------------------------------------------------
(* sign_in.                                                                *)

BeginSignIn(c) ==
  /\ Begins(c)
  /\ generation' = generation + 1
  /\ pending' = c
  /\ call' = [Cancelled(call) EXCEPT
       ![c] = [NoCall EXCEPT !.op = "signIn", !.pc = "publish",
                             !.generation = generation', !.next = "signingIn"]]
  /\ UNCHANGED <<session, file, status, refresh, accepted, issued, revoked, overtaken, cut>>

(* publish, first half: set_status.                                        *)
Publish(c) ==
  /\ At(c, "publish")
  /\ status' = call[c].next
  /\ Overtakes(c)
  /\ Step(c, "tell")
  /\ UNCHANGED <<session, file, pending, generation, refresh, accepted, issued, revoked, cut>>

(* Second half: relay.set_signed_in, which is RelayClient's.               *)
Tell(c) ==
  /\ At(c, "tell")
  /\ call' = [call EXCEPT ![c] =
       IF call[c].op = "signOut" THEN [@ EXCEPT !.pc = "revoke"]
       ELSE IF call[c].next = "signingIn" THEN [@ EXCEPT !.pc = "browser"]
       ELSE Done]
  /\ Overtakes(c)
  /\ UNCHANGED <<session, file, status, pending, generation, refresh, accepted, issued,
                 revoked, cut>>

(* The browser comes with a code; or the sign-in is given up, there or by  *)
(* the time limit, or the relay or the account service cannot be reached.  *)
LeaveBrowser(c) ==
  /\ At(c, "browser")
  /\ \/ ~call[c].cancelled /\ Step(c, "exchange")
     \/ Step(c, "check")
  /\ UNCHANGED <<session, file, status, pending, generation, refresh, accepted, issued,
                 revoked, overtaken, cut>>

(* cancel_sign_in; it is no longer heard once the code has come.           *)
CancelSignIn ==
  /\ pending # None /\ Listens(pending)
  /\ call' = Cancelled(call)
  /\ pending' = None
  /\ UNCHANGED <<session, file, status, generation, refresh, accepted, issued, revoked,
                 overtaken, cut>>

ExchangeFails(c) ==
  /\ At(c, "exchange")
  /\ Step(c, "check")
  /\ UNCHANGED <<session, file, status, pending, generation, refresh, accepted, issued,
                 revoked, overtaken, cut>>

(* The account service takes the code for a refresh token.                 *)
Exchange(c) ==
  /\ At(c, "exchange") /\ issued < MaxTokens
  /\ issued' = issued + 1
  /\ accepted' = accepted \cup {issued'}
  /\ \E user \in User :
       call' = [call EXCEPT ![c].pc = "save", ![c].got = [user |-> user, token |-> issued']]
  /\ UNCHANGED <<session, file, status, pending, generation, refresh, revoked, overtaken, cut>>

SaveSignIn(c) ==
  /\ At(c, "save")
  /\ file' = call[c].got
  /\ Overtakes(c)
  /\ Step(c, "set")
  /\ UNCHANGED <<session, status, pending, generation, refresh, accepted, issued, revoked, cut>>

SetSession(c) ==
  /\ At(c, "set") /\ ~Locked
  /\ session' = [stored |-> call[c].got, fresh |-> TRUE]
  /\ Overtakes(c)
  /\ Step(c, "check")
  /\ UNCHANGED <<file, status, pending, generation, refresh, accepted, issued, revoked, cut>>

(* Superseded: returns without publishing.                                 *)
CheckGeneration(c) ==
  /\ At(c, "check")
  /\ call' = [call EXCEPT ![c] = IF Newest(c) THEN [@ EXCEPT !.pc = "settle"] ELSE Done]
  /\ UNCHANGED <<session, file, status, pending, generation, refresh, accepted, issued,
                 revoked, overtaken, cut>>

(* A failed attempt leaves an existing sign-in in place.                   *)
Outcome(c) == IF call[c].got # None THEN call[c].got.user
              ELSE IF session # None THEN session.stored.user
              ELSE "signedOut"

Settle(c) ==
  /\ At(c, "settle") /\ ~Locked
  /\ call' = [call EXCEPT ![c].pc = "publish", ![c].next = Outcome(c)]
  /\ UNCHANGED <<session, file, status, pending, generation, refresh, accepted, issued,
                 revoked, overtaken, cut>>
-----------------------------------------------------------------------------
(* sign_out.                                                               *)

BeginSignOut(c) ==
  /\ Begins(c)
  /\ generation' = generation + 1
  /\ pending' = None
  /\ call' = [Cancelled(call) EXCEPT
       ![c] = [NoCall EXCEPT !.op = "signOut", !.pc = "take", !.generation = generation']]
  /\ UNCHANGED <<session, file, status, refresh, accepted, issued, revoked, overtaken, cut>>

Take(c) ==
  /\ At(c, "take") /\ ~Locked
  /\ session' = None
  /\ call' = [call EXCEPT ![c].pc = "forget",
                          ![c].got = IF session = None THEN None ELSE session.stored]
  /\ UNCHANGED <<file, status, pending, generation, refresh, accepted, issued, revoked,
                 overtaken, cut>>

\* Mutant: the sign-in stays on disk.
ForgetNothing(c) ==
  /\ At(c, "forget")
  /\ Step(c, "publish")
  /\ UNCHANGED <<session, file, status, pending, generation, refresh, accepted, issued,
                 revoked, overtaken, cut>>

Forget(c) ==
  /\ At(c, "forget")
  /\ file' = None
  /\ Step(c, "publish")
  /\ UNCHANGED <<session, status, pending, generation, refresh, accepted, issued, revoked,
                 overtaken, cut>>

(* Best effort.                                                            *)
Revoke(c) ==
  /\ At(c, "revoke")
  /\ \/ call[c].got # None /\ accepted' = accepted \ {call[c].got.token}
     \/ UNCHANGED accepted
  /\ call' = [call EXCEPT ![c] = Done]
  /\ UNCHANGED <<session, file, status, pending, generation, refresh, issued, revoked,
                 overtaken, cut>>
-----------------------------------------------------------------------------
(* access_token, called by the relay connection.                           *)

Refreshing(at, token) == refresh' = [at |-> at, token |-> token]

HasToken   == refresh.at = "none" /\ session # None /\ session.fresh
HasNoToken == refresh.at = "none" /\ session = None

StartRefresh ==
  /\ refresh.at = "none" /\ session # None /\ ~session.fresh
  /\ Refreshing("sent", 0)
  /\ UNCHANGED <<session, file, status, pending, generation, call, accepted, issued, revoked,
                 overtaken, cut>>

(* The account service answers, with the same refresh token or a new one   *)
(* that replaces it; or refuses (0).                                       *)
AnswerRefresh ==
  /\ refresh.at = "sent"
  /\ LET token == session.stored.token
     IN  \/ /\ token \notin accepted
            /\ Refreshing("answered", 0) /\ UNCHANGED <<accepted, issued>>
         \/ /\ token \in accepted
            /\ Refreshing("answered", token) /\ UNCHANGED <<accepted, issued>>
         \/ /\ token \in accepted /\ issued < MaxTokens
            /\ issued' = issued + 1
            /\ accepted' = (accepted \ {token}) \cup {issued'}
            /\ Refreshing("answered", issued')
  /\ UNCHANGED <<session, file, status, pending, generation, call, revoked, overtaken, cut>>

\* Mutant: the new refresh token is not kept.
RefreshedKeepsOld ==
  /\ refresh.at = "answered" /\ refresh.token # 0
  /\ session' = [session EXCEPT !.fresh = TRUE]
  /\ Refreshing("none", 0)
  /\ UNCHANGED <<file, status, pending, generation, call, accepted, issued, revoked,
                 overtaken, cut>>

Refreshed ==
  /\ refresh.at = "answered" /\ refresh.token # 0
  /\ session' = [stored |-> [session.stored EXCEPT !.token = refresh.token], fresh |-> TRUE]
  /\ file' = IF refresh.token = session.stored.token THEN file ELSE session'.stored
  /\ Refreshing("none", 0)
  /\ UNCHANGED <<status, pending, generation, call, accepted, issued, revoked, overtaken, cut>>

(* Refused: signing in again is the only way forward.                      *)
Refused ==
  /\ refresh.at = "answered" /\ refresh.token = 0
  /\ session' = None
  /\ Refreshing("forget", 0)
  /\ UNCHANGED <<file, status, pending, generation, call, accepted, issued, revoked,
                 overtaken, cut>>

ForgetRefused ==
  /\ refresh.at = "forget"
  /\ file' = None
  /\ Refreshing("report", 0)
  /\ UNCHANGED <<session, status, pending, generation, call, accepted, issued, revoked,
                 overtaken, cut>>

(* set_status, and access_token returns.                                   *)
ReportRefused ==
  /\ refresh.at = "report"
  /\ status' = "signedOut"
  /\ Refreshing("none", 0)
  /\ UNCHANGED <<session, file, pending, generation, call, accepted, issued, revoked,
                 overtaken, cut>>

Rotated == refresh.at = "answered" /\ refresh.token \notin {0, session.stored.token}

\* Mutant: the lock stays taken.
CutRefreshKeepsLock ==
  /\ refresh.at \in {"none", "sent", "answered"}
  /\ cut' = (cut \/ Rotated)
  /\ UNCHANGED <<session, file, status, pending, generation, call, refresh, accepted, issued,
                 revoked, overtaken>>

(* The request fails or is dropped, at any time.                           *)
CutRefresh ==
  /\ refresh.at \in {"none", "sent", "answered"}
  /\ cut' = (cut \/ Rotated)
  /\ Refreshing("none", 0)
  /\ UNCHANGED <<session, file, status, pending, generation, call, accepted, issued,
                 revoked, overtaken>>

(* Its access token expires, or discard_access_token.                      *)
Stale ==
  /\ ~Locked
  /\ session' = IF session = None THEN None ELSE [session EXCEPT !.fresh = FALSE]
  /\ UNCHANGED <<file, status, pending, generation, call, refresh, accepted, issued,
                 revoked, overtaken, cut>>

(* The user removes the sign-in at the account service (external).         *)
RevokeElsewhere ==
  /\ ~revoked /\ revoked' = TRUE
  /\ accepted' = {}
  /\ UNCHANGED <<session, file, status, pending, generation, call, refresh, issued,
                 overtaken, cut>>

(* The program ends and starts again (load), perhaps within write_private, *)
(* which empties the file before it writes.                                *)
Saving == Rotated \/ \E c \in Call : At(c, "save")

Reload ==
  /\ file' \in {file} \cup IF Saving THEN {None} ELSE {}
  /\ session' = Loaded(file') /\ status' = StatusOf(file')
  /\ pending' = None /\ generation' = 0 /\ refresh' = NoRefresh
  /\ call' = [c \in Call |-> IF At(c, "new") THEN call[c] ELSE Done]
  /\ cut' = (cut \/ Rotated)
  /\ UNCHANGED <<accepted, issued, revoked, overtaken>>
===============================================================================
