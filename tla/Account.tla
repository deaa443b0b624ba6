-------------------------------- MODULE Account --------------------------------
(***************************************************************************)
(* A device's sign-in (SignIn), the settings and the relay connection that *)
(* follows both (RelayClient), running together: the commands of the       *)
(* window, each of which may start while others wait; the relay's task;    *)
(* the account service; and the program ending and starting again.         *)
(***************************************************************************)
EXTENDS SignIn, RelayClient

CONSTANT MaxCrashes

ASSUME AccountAssumption == MaxCrashes \in Nat

VARIABLES
  crashes,
  overlapped  \* history: a setter configured what was no longer saved

windowVars == <<crashes, overlapped>>
vars == <<authVars, relayVars, windowVars>>

TypeOK ==
  /\ AuthTypeOK /\ RelayTypeOK
  /\ crashes \in 0..MaxCrashes /\ overlapped \in BOOLEAN
  /\ refresh.at # "none" => at = "token"

Init ==
  /\ AuthInit /\ RelayInit(status \in User)
  /\ crashes = 0 /\ overlapped = FALSE
-----------------------------------------------------------------------------
(* The commands.                                                           *)

BeginSet(c) ==
  /\ Begins(c)
  /\ \E next \in Settings : next # settings /\ Save(next)
  /\ call' = [call EXCEPT ![c] = [@ EXCEPT !.op = "set", !.pc = "configure", !.got = settings']]
  /\ UNCHANGED <<session, file, status, pending, generation, refresh, accepted, issued,
                 revoked, overtaken, cut, crashes, overlapped>>

EndSet(c) ==
  /\ At(c, "configure")
  /\ Configure(call[c].got)
  /\ overlapped' = (overlapped \/ call[c].got # settings)
  /\ call' = [call EXCEPT ![c] = Done]
  /\ UNCHANGED <<session, file, status, pending, generation, refresh, accepted, issued,
                 revoked, overtaken, cut, crashes>>

TellRelay(c) ==
  /\ Tell(c)
  /\ SetSignedIn(call[c].next \in User)
  /\ UNCHANGED windowVars

(* By the time the user or the network answers, the relay's task has       *)
(* noticed that a sign-in began: it has only to be scheduled.              *)
AnswerSignIn(c) == ~changed /\ LeaveBrowser(c)

(* What a call does next, once begun.                                      *)
Continue(c) ==
  \/ TellRelay(c) \/ EndSet(c)
  \/ /\ \/ Publish(c) \/ AnswerSignIn(c) \/ Exchange(c) \/ ExchangeFails(c) \/ SaveSignIn(c)
        \/ SetSession(c) \/ CheckGeneration(c) \/ Settle(c)
        \/ Take(c) \/ Forget(c) \/ Revoke(c)
     /\ UNCHANGED <<relayVars, windowVars>>

Begin(c) ==
  \/ BeginSet(c)
  \/ (BeginSignIn(c) \/ BeginSignOut(c)) /\ UNCHANGED <<relayVars, windowVars>>
-----------------------------------------------------------------------------
(* The relay's task.  access_token runs within it, and is dropped with it. *)

AccessToken ==
  \/ /\ at = "token"
     /\ StartRefresh \/ Refused \/ ForgetRefused
     /\ UNCHANGED relayVars
  \/ GotToken /\ HasToken /\ UNCHANGED authVars
  \/ GotToken /\ Refreshed
  \/ NoToken /\ HasNoToken /\ UNCHANGED authVars
  \/ NoToken /\ ReportRefused

GiveUp ==
  \/ Fails /\ (at = "token" => Locked) /\ CutRefresh
  \/ Rejected /\ Stale
  \/ (RejectedAgain \/ Dropped \/ Replaced) /\ UNCHANGED authVars

Task ==
  /\ \/ AccessToken \/ GiveUp
     \/ Drop /\ CutRefresh
     \/ (Look \/ Registered \/ SignedOut \/ IdleEnds) /\ UNCHANGED authVars
  /\ UNCHANGED windowVars

Service == AnswerRefresh /\ UNCHANGED <<relayVars, windowVars>>

Elsewhere == (Stale \/ RevokeElsewhere \/ CancelSignIn) /\ UNCHANGED <<relayVars, windowVars>>

Crash ==
  /\ crashes < MaxCrashes /\ crashes' = crashes + 1
  /\ Reload
  /\ \E signedIn \in BOOLEAN : (signedIn <=> status' \in User) /\ Restart(signedIn)
  /\ UNCHANGED overlapped

Next ==
  \/ \E c \in Call : Begin(c) \/ Continue(c)
  \/ Task \/ Service \/ Elsewhere \/ Crash

Spec == Init /\ [][Next]_vars

(* The runtime schedules the task and every command; the account service   *)
(* and the relay answer or time out.                                       *)
FairSpec == Spec /\ WF_vars(Task) /\ WF_vars(Service) /\ \A c \in Call : WF_vars(Continue(c))
-----------------------------------------------------------------------------
Settled ==
  /\ \A c \in Call : call[c].pc \in {"new", "revoke", "done"}
  /\ refresh.at = "none" /\ at # "signedOut"

(* "Mirrors `session` for synchronous reads (auth_status, relay            *)
(* configuration)" (auth.rs): when no call is under way, the status, what  *)
(* the relay was told and the file agree with the session.                 *)
StatusMirrors ==
  Settled =>
    /\ status = IF session = None THEN "signedOut" ELSE session.stored.user
    /\ inputs.signedIn <=> session # None
    /\ file = IF session = None THEN None ELSE session.stored

(* They agree unless a sign-in or a sign-out went on after a newer one had *)
(* begun, which the check of the generation comes too late to prevent.     *)
MirrorsUnlessOvertaken == overtaken \/ StatusMirrors

(* Signing out "removes it from disk" (auth.rs): while the device says it  *)
(* is signed out, no sign-in is left in memory or in the file.             *)
SignOutForgets == Settled /\ status = "signedOut" => session = None /\ file = None

(* "Refresh tokens may rotate; the new one replaces the old one            *)
(* everywhere": the account service accepts the refresh token of the       *)
(* session and of the file, unless the user removed the sign-in there or a *)
(* refresh was cut short after the token rotated.                          *)
StillAccepted ==
  ~(revoked \/ cut \/ Rotated) =>
    /\ session # None => session.stored.token \in accepted
    /\ Settled /\ file # None => file.token \in accepted

(* Each setter "tells the relay connection, which connects, disconnects,   *)
(* or reconnects to match the saved settings": it does unless two setters  *)
(* overlap.                                                                *)
SettingsFollowed ==
  \/ overlapped
  \/ \E c \in Call : At(c, "configure")
  \/ inputs.mode = settings.mode /\ inputs.url = settings.url

(* In the end the connection is what the settings and the sign-in call     *)
(* for, or the task has stopped; it never tries for ever.                  *)
Followed ==
  <>[](/\ desired = FromInputs(inputs)
       /\ IF desired.do = "connect"
          THEN \/ at = "connected" /\ url = desired.url
               \/ at = "idle" /\ delay = "stopped"
          ELSE at = "idle" /\ delay = "change")
===============================================================================
