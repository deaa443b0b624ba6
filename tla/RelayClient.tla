------------------------------ MODULE RelayClient ------------------------------
(***************************************************************************)
(* When a device connects to the relay: the task of                        *)
(* apps/desktop/src-tauri/src/relay.rs (Task::run), which follows what the *)
(* settings (settings.rs) and the sign-in call for, and the setters of     *)
(* settings, which save and then tell it.  What a connection does is       *)
(* RelaySession's.                                                         *)
(***************************************************************************)
EXTENDS Integers

CONSTANTS
  Url,       \* relay URLs that pass validate_relay_url
  StartUrl,  \* DEFAULT_RELAY_URL
  MaxFaults  \* bound: connections that fail, are refused or end

ASSUME RelayClientAssumption == StartUrl \in Url /\ MaxFaults \in Nat

VARIABLES
  settings,   \* what is saved, and in memory
  inputs,     \* Control.inputs
  desired,    \* Control.desired
  changed,    \* desired was modified since the task last looked
  at,         \* where the task is
  url,        \* the relay it connects to
  delay,      \* of idle: when it looks again by itself
  rejections,
  faults

relayVars == <<settings, inputs, desired, changed, at, url, delay, rejections, faults>>

Settings == [mode: {"lan", "relay"}, url: Url]
Desired  == [do: {"off", "needsSignIn"}] \cup [do: {"connect"}, url: Url]

RelayTypeOK ==
  /\ settings \in Settings
  /\ inputs \in [mode: {"lan", "relay"}, url: Url, signedIn: BOOLEAN]
  /\ desired.do \in {"off", "needsSignIn", "connect"}
  /\ changed \in BOOLEAN
  /\ at \in {"look", "token", "connecting", "connected", "signedOut", "idle"}
  /\ url \in Url
  /\ delay \in {"some", "change", "stopped"}
  /\ rejections \in 0..1 /\ faults \in 0..MaxFaults

FromInputs(in) ==
  IF in.mode # "relay" THEN [do |-> "off"]
  ELSE IF ~in.signedIn THEN [do |-> "needsSignIn"]
  ELSE [do |-> "connect", url |-> in.url]

StartInputs(s, signedIn) == [mode |-> s.mode, url |-> s.url, signedIn |-> signedIn]

RelayInit(signedIn) ==
  /\ settings \in [mode: {"lan", "relay"}, url: {StartUrl}]
  /\ inputs = StartInputs(settings, signedIn) /\ desired = FromInputs(inputs)
  /\ changed = FALSE /\ at = "look" /\ rejections = 0
  /\ url = StartUrl /\ delay = "change"
  /\ faults = 0
-----------------------------------------------------------------------------
\* Mutant: wakes the task only to connect.
UpdateWakesToConnect(in) ==
  /\ inputs' = in
  /\ desired' = FromInputs(in)
  /\ changed' = (changed \/ (desired' # desired /\ desired'.do = "connect"))

(* Control.update: wakes the task if it is to do something else.           *)
Update(in) ==
  /\ inputs' = in
  /\ desired' = FromInputs(in)
  /\ changed' = (changed \/ desired' # desired)

(* set_signed_in.                                                          *)
SetSignedIn(signedIn) ==
  /\ Update([inputs EXCEPT !.signedIn = signedIn])
  /\ UNCHANGED <<settings, at, url, delay, rejections, faults>>

(* SettingsState.update, by set_connection_mode or set_relay_url; a save   *)
(* that fails changes nothing.                                             *)
Save(next) ==
  /\ \/ next.url = settings.url
     \/ next.mode = settings.mode
  /\ settings' = next
  /\ UNCHANGED <<inputs, desired, changed, at, url, delay, rejections, faults>>

\* Mutant: a new URL waits for the next start.
ConfigureModeOnly(saved) ==
  /\ Update([inputs EXCEPT !.mode = saved.mode])
  /\ UNCHANGED <<settings, at, url, delay, rejections, faults>>

(* What either setter then does, with what it saved.                       *)
Configure(saved) ==
  /\ Update(StartInputs(saved, inputs.signedIn))
  /\ UNCHANGED <<settings, at, url, delay, rejections, faults>>
-----------------------------------------------------------------------------
(* Task::run.                                                              *)

Look ==
  /\ at = "look"
  /\ changed' = FALSE
  /\ IF desired.do = "connect"
     THEN at' = "token" /\ url' = desired.url /\ UNCHANGED delay
     ELSE at' = "idle" /\ delay' = "change" /\ UNCHANGED url
  /\ UNCHANGED <<settings, inputs, desired, rejections, faults>>

(* The connection is dropped as soon as something else is called for.      *)
InSession == at \in {"token", "connecting", "connected"}

Drop ==
  /\ InSession /\ changed
  /\ at' = "look"
  /\ rejections' = 0
  /\ UNCHANGED <<settings, inputs, desired, changed, url, delay, faults>>

GotToken ==
  /\ at = "token"
  /\ at' = "connecting"
  /\ UNCHANGED <<settings, inputs, desired, changed, url, delay, rejections, faults>>

NoToken ==
  /\ at = "token"
  /\ at' = "signedOut"
  /\ UNCHANGED <<settings, inputs, desired, changed, url, delay, rejections, faults>>

Registered ==
  /\ at = "connecting"
  /\ at' = "connected"
  /\ UNCHANGED <<settings, inputs, desired, changed, url, delay, rejections, faults>>

Idle(d) == at' = "idle" /\ delay' = d

(* EndKind::Failed: no access token or no relay now, or it does not answer. *)
Fails ==
  /\ at \in {"token", "connecting"}
  /\ faults < MaxFaults /\ faults' = faults + 1
  /\ Idle("some")
  /\ UNCHANGED <<settings, inputs, desired, changed, url, rejections>>

(* EndKind::Unauthorized, the first time: again, with a fresh token.       *)
Rejected ==
  /\ at = "connecting" /\ rejections = 0
  /\ faults < MaxFaults /\ faults' = faults + 1
  /\ rejections' = 1
  /\ Idle("some")
  /\ UNCHANGED <<settings, inputs, desired, changed, url>>

\* Mutant: a second rejection is tried again like the first.
RejectedAgainRetries ==
  /\ at = "connecting" /\ rejections = 1
  /\ Idle("some")
  /\ UNCHANGED <<settings, inputs, desired, changed, url, rejections, faults>>

RejectedAgain ==
  /\ at = "connecting" /\ rejections = 1
  /\ Idle("stopped")
  /\ UNCHANGED <<settings, inputs, desired, changed, url, rejections, faults>>

(* EndKind::Dropped.                                                       *)
Dropped ==
  /\ at = "connected"
  /\ faults < MaxFaults /\ faults' = faults + 1
  /\ rejections' = 0
  /\ Idle("some")
  /\ UNCHANGED <<settings, inputs, desired, changed, url>>

(* EndKind::Replaced: another connection took over this device.            *)
Replaced ==
  /\ at = "connected"
  /\ faults < MaxFaults /\ faults' = faults + 1
  /\ Idle("stopped")
  /\ UNCHANGED <<settings, inputs, desired, changed, url, rejections>>

(* EndKind::SignedOut.                                                     *)
SignedOut ==
  /\ at = "signedOut"
  /\ Update([inputs EXCEPT !.signedIn = FALSE])
  /\ at' = "look"
  /\ UNCHANGED <<settings, url, delay, rejections, faults>>

(* idle returns when desired changes or the delay has passed.              *)
IdleEnds ==
  /\ at = "idle"
  /\ changed \/ delay = "some"
  /\ at' = "look"
  /\ rejections' = IF delay = "stopped" THEN 0 ELSE rejections
  /\ delay' = "change"
  /\ UNCHANGED <<settings, inputs, desired, changed, url, faults>>

(* The program starts again (RelayState::start).                           *)
Restart(signedIn) ==
  /\ inputs' = StartInputs(settings, signedIn) /\ desired' = FromInputs(inputs')
  /\ changed' = FALSE /\ at' = "look" /\ rejections' = 0
  /\ UNCHANGED <<settings, url, delay, faults>>
===============================================================================
