# Cled in TLA+

Cled shares one clipboard between the computers of a group. These modules model
its core in TLA+, TLC checks them on small instances, and TLAPS proves
theorems about them. The modules follow the source under `src/`; each
definition that stands for code is listed with its lines under `map` in
`PROJECT.json`.

1. [What Cled is made of](#1-what-cled-is-made-of)
2. [Modules](#2-modules)
3. [Runs](#3-runs)
4. [Fairness](#4-fairness)
5. [Proofs](#5-proofs)
6. [Where code and documents disagree](#6-where-code-and-documents-disagree)
7. [What is not modelled](#7-what-is-not-modelled)
8. [Plan](#8-plan)

To repeat a run: `tlc -config sync_any.cfg MCClipboardSync`. To check the
proofs: `tlapm RelaySessionProofs.tla`, and so on for each `...Proofs` module.

## 1. What Cled is made of

A desktop program (Rust, Tauri) runs on each device. Devices on one network
connect to each other directly; devices that are apart may tunnel the same
connections through a relay server (TypeScript).

| Component | State it keeps | Operations | Hard behaviour | What makes it correct |
|---|---|---|---|---|
| Sync engine, `crates/cled-sync` | the IDs seen lately, the item being written, what is on the clipboard | `on_local_change`, `on_remote_item`, `on_write_failed` | called by two threads; what it believes lags behind the clipboard | only the origin sends; newest wins; no genuine copy is swallowed; no loops |
| Sync threads, `apps/desktop/src-tauri/src/{sync,clipboard}.rs` | the engine's mutex | `handle_event`, `process_change` | a blocking write from one thread served by the other; broadcasts overtaking each other | no deadlock; work comes to an end |
| Change detection, `crates/cled-clipboard/src/{content,snapshot,detector}.rs` | what was last observed | `observe`, `baseline` | contents that count as equal | a change is reported once |
| Clipboard service, `crates/cled-clipboard/src/service.rs` | requests, next check, last token | the thread's loop | other programs change the clipboard between any two calls; busy clipboards; lost notifications | every change that lasts is reported, nothing else is |
| Clipboard holder, `holder.rs` | content handed to a second process | hand over, hold, leave | race with other programs and with a 2 s timeout | an exit that was told the holder took over takes nothing off the clipboard |
| Platform clipboards, `platform/` | the operating system's | read, write, token, watch | per system | (assumed) |
| Group membership, `crates/cled-lan/src/{peers,node}.rs` | the paired devices and the removed ones, in `peers.json` | pair, remove, merge a roster, tell a removed device, leave | rosters over different paths in any order; different clocks; broken sessions | members agree; who is removed stays out, who is paired again is in; rosters stop |
| Connections, `node.rs` | one registered connection per peer, dials under way, backoff | dial, accept, register, unregister | both sides dial; tunnels; connections that end late | one connection, the same on both sides; it comes back |
| Pairing, `node.rs`, `code.rs`, `PairingPanel.tsx` | a code, its expiry and failures; the panel that shows it | start, accept, join, cancel | an attempt holds the code while the user cancels; events and replies that cross | few guesses per code; none works once cancelled; the code on show works |
| Handshakes and wire format, `noise.rs`, `keys.rs`, `wire.rs` | the device's key | handshake, encode | times are truncated | only known keys get in |
| Discovery, `discovery.rs`, `addr.rs` | addresses seen | announce, resolve | stale addresses | (hints only) |
| Relay client, `relay.rs` | what it should do, its connection, its retries, requests without answers | configure, register, send, reconnect | answers matched by order; settings and sign-in changing at any moment | every request is answered or fails; the connection follows settings and sign-in |
| Relay tunnels, `tunnel.rs` | open tunnels by peer and number | open, data, close | numbers used again on a new relay connection; one end lost | streams arrive whole; no tunnel stays open at one end |
| Sign-in, `auth.rs` | tokens, their file, a sign-in under way | sign in, out, refresh | refresh tokens that rotate, concurrent callers, crashes | signed out means signed out; the token kept is the one accepted |
| Settings, `settings.rs`, `device.rs` | a file and its copy in memory | update | setting and effect in different orders | the last one holds |
| Relay server, `apps/relay/src` | who is registered | verify, register, replace, forward, close | sockets that close, or are replaced, during verification | the registry lists what is open; frames stay within an account |
| Windows, tray, web site | views of the above | | | |

How they interact: the *clipboard thread* notices a change and hands it to the
engine (a callback, under the mutex); a genuine copy is encoded by a spawned
task and queued on every registered connection. The *read loop* of a connection
decodes items and sends them over a channel to the *event thread*, which asks
the engine, lets go of the mutex and has the clipboard thread write. The write
comes back to the engine as a change, the echo. Read loops also apply rosters
and notices, which change the stores and close or start connections. Clipboard
items and membership messages share the connections and nothing else.

The window's *commands* change settings and the sign-in; both reach the relay's
*task* through a watched value, and the task asks the sign-in for an access
token each time it connects. On the relay, a socket is registered once its
token is verified, and frames go between the sockets of one user. A tunnel
carries a connection of the local network over them, so its sessions are those
of `Connections` and `Membership`.

The hazards these behaviours bring, each at its line, are under `hazards` in
`PROJECT.json`, with the properties that cover them.

## 2. Modules

| Module | Models | Notes |
|---|---|---|
| `ClipboardContent` | `content.rs`, `snapshot.rs`, `detector.rs` | a clipboard holds content, something Cled refuses to read, or nothing; `Fingerprint` is what the detector compares, `IsChange` when it reports |
| `SyncEngine` | `engine.rs`, `recent.rs`, `item.rs` | the engine is a record, its methods are operators on it |
| `ClipboardSync` | `sync.rs`, `clipboard.rs`, and what they use of the service and of `LanNode` | any number of devices; composes an engine, a clipboard thread and an event thread on each with the links between them |
| `ClipboardSyncProofs` | | theorems about `ClipboardSync` |
| `ClipboardWatch` | the promise of `ClipboardService::spawn` | abstract: the clipboard changes, each change that lasts is observed once |
| `ClipboardService` | `service.rs`, `holder.rs` | the thread's loop, the exit and the holder process; implements `ClipboardWatch` (`Watch == INSTANCE ClipboardWatch WITH ...`) |
| `ClipboardServiceProofs` | | theorems about `ClipboardService`, the refinement among them |
| `PeerStore` | `peers.rs` | one device's view of the group, and how rosters are merged into it |
| `Membership` | `node.rs`: sessions, rosters, removal, pairing | a `PeerStore` on every device, and sessions between them |
| `MembershipProofs` | | theorems about `PeerStore` and `Membership` |
| `Connections` | `node.rs`: dialing and registering; `tunnel.rs`: when a tunnel is dialed | two devices and the connections between them |
| `ConnectionsProofs` | | theorems about `Connections` |
| `Pairing` | `node.rs`: the session of a code; `sync.rs`: its commands; `PairingPanel.tsx` | the side that shows a code, with attempts, commands and events under way at the same time |
| `PairingProofs` | | theorems about `Pairing` |
| `Registry` | the relay's `registry.ts` | operators on a record of the two indexes |
| `RelaySession` | the relay's `routes.ts`, `protocol.ts`; `session()` of `relay.rs` | any number of users, devices and sockets; composes the `Registry` with the clients |
| `RelaySessionProofs` | | theorems about `Registry` and `RelaySession` |
| `RelayTunnels` | `tunnel.rs`; the relay's `tunnel.ts` and `forwardTunnelFrame` | tunnels between two devices and the relay between them |
| `RelayTunnelsProofs` | | theorems about `RelayTunnels` |
| `SignIn` | `auth.rs` | the calls of `AuthState`, cut at their awaits; the account service is external |
| `RelayClient` | `relay.rs`: the task, `Desired`, retries; `settings.rs` | what the task does, and the setters |
| `Account` | the above together, as `lib.rs` puts them together | composes `SignIn` and `RelayClient`, with commands that overlap and crashes |
| `AccountProofs` | | theorems about `SignIn`, `RelayClient` and `Account` |
| `MC...` | | instances for TLC |

### ClipboardSync

| Code | Model |
|---|---|
| the OS clipboard | `clip[d]`; `unchecked[d]`: it changed since the last read |
| `ChangeDetector.last` | `last[d]` |
| the clipboard thread inside `on_change` | `reporting[d]` (has a change, waits for the engine), `sending[d]` (has an item, holds the mutex) |
| `SharedEngine` | `engine[d]`; its mutex is free when `sending[d] = None` |
| the event thread | `eventPc[d]`, `applying[d]` |
| tasks spawned by `broadcast` | `outbox[d]`, a set: they finish in any order |
| connections | `connected`, and `link`, a queue per direction |

`Check` is a check of the service as `ClipboardWatch` promises it; that the
service keeps that promise is `ClipboardService`'s subject. `ReportChange` and
`Broadcast` are `process_change`, `SendToAll` the spawned task, `ReceiveItem` the
first half of `handle_event`, `WriteClipboard`, `WriteFails` and `AbandonWrite`
the rest of it. Any program may replace or clear the clipboard (`UserCopy`).
`Disconnect` loses the end of what was in flight either way, `Restart` loses
everything a program keeps in memory. An item's ID is unique; how IDs of
different devices compare is the constant `IdRank`. Times are in ticks,
`TicksPerMs` of them to the millisecond that travels.

*Timing.* `PromptWatcher = FALSE` leaves the timing open. `PromptWatcher = TRUE`
is the regime the tests drive (`crates/cled-sync/tests/simulation.rs` reports
each write's echo before anything else happens), and the one a
user normally sees: a check comes 25 ms after a notification, and a person
copies more slowly than that. The rules in `engine.rs` are written for it.
Some hold only there (section 6).

### ClipboardService

Requests are queued in `requests`; `pc` says where the thread is; `due` counts
down to the next check. A check is two steps, `ReadToken` and `ReadContent` (or
`ReadFails`), since other programs may replace the clipboard between them.
`ChangeToken` has three forms: none, a counter (Windows, macOS), a hash of the
content (Wayland). `Platform` is the set of platforms a run considers: the
token, whether a watcher announces changes, how many calls fail, and whether
content dies with its process.

`KeepsWatch` is the refinement of `ClipboardWatch`: `clip`, `last` and
`reported` are those of the service, `running` is `pc # "exited"`. A check that
finds what it found before, and everything about requests, time, tokens and the
holder, are stutters; `ReadContent` that finds something else is `Observe`. The
liveness of the abstract specification, `WF(Observe)`, makes the service notice
every change that lasts.

At the end `RequestKeep` asks the thread to keep what was written.
`ServeKeep` decides, and starts the holder; `HolderReads` and `HolderWrites`
are its check and its write, two steps, as other programs may copy between
them; `AnswerKeep` is the service's answer, which may come too early (the 2 s
are over, `FALSE`); `Exit` takes the content away where content dies with its
process and is still this program's.

### PeerStore and Membership

A store maps a device to its entry, or `None`, in place of a list. A roster is
a store without the notified marks. `Merge` is translated entry by entry, as a
roster never holds two entries for a device.

A session has an `end` on each side and a queue `link` in each direction. `Handshake` is a dial and both handshakes;
it needs that each side trusts the key the other has now. `Register` is
`start_session`, on each side in its own time. `ReadRoster`, `ReadBye` and
`ReadEof` are the read loop. A side that closes its writer (`"closing"`)
goes on reading until the other closes too, as the code does; what is read then
is still handled. `TellRemoved` is the dial of a removed device.
`Pair` is the exchange; each side then stores the other (`StorePeer`) on its
own, by its own clock, or never does (`PairingFails`). `LoseKey` is a restart without the key file.
`now` counts the timestamps taken, so no two agree; `ClockSkew` shifts them.
`lastPaired` is history, for the properties only.

### Connections

A slot holds a connection: who started it, whether it is a tunnel, the state of
each `end`, and what each end has yet to learn of the other (`closed`).
`StartSession` is `start_session` with `register`, one step per side. The
fallback of the device with the higher ID may dial at any time: the 15 s it
waits are not modelled, so nothing depends on them.

### Pairing

| Code | Model |
|---|---|
| `Inner.pairing`, and the mutex held during an exchange | `session`, `holder` |
| what discovery announces | `advertised` |
| connections that want to pair | `attempt[j]`, with the code it guesses |
| `start_pairing`, `cancel_pairing`, each up to three steps | `command[c]`, with `pc` `"lock"`, `"advertise"`, `"reply"` |
| events on their way to the window | `events` |
| the panel | `open` (which time it is open), `shown`, `mounts` |

The mutex is granted in any order, since tasks ask for it in any order. `EndAttempt` is the second `end_pairing` of an attempt, after the
mutex was released. `guesses`, `cancelled` and `crossed` are history.

### Registry and RelaySession

`registry` holds both indexes of `ConnectionRegistry`. A socket goes through
`ready` (its `readyState`); a verification that is under way is `verifying`, and
`VerifyDone` may come after the socket closed, failed, or another socket of the
device was registered. `up` and `down` are what is on its way; `dead` connections
deliver nothing, and each end finds out for itself. On the device, `phase` says
where `session()` is, `outgoing` what the window asked for, `pending` and
`pairing` which answers are awaited; `DropSession` is the task dropping the
session at any await. `Caller` may `Ask` for test messages and pairings, and
`GiveUp` before they are answered.

### RelayTunnels

`tunnels[d]` maps a key (peer, number, who opened it) to the session over the
tunnel, `pumped[d]` is what sessions wrote. A stream's bytes are their places in
it, modulo 2: enough to notice one that is missing, repeated or out of order.
`link[d]` is a device's relay connection; `"gone"` is lost with the relay not
knowing. `OnOpen`, `OnData` and `OnClose` are the cases of `on_frame`, `Forward`
the relay's, which answers what it cannot deliver (`Undeliverable`).

### SignIn, RelayClient and Account

A call of the window is `call[c]` and goes from await to await: browser,
exchange, file, session, generation check, outcome, publication. `session` is
behind a lock that a refresh holds for as long as it takes (`refresh.at`,
`Locked`). `accepted` is what the account service accepts; a refresh rotates the
token. `Saving` says when a crash may find `file` emptied and not yet written.
The task of `RelayClient` is `at`: `Look` compares what is `desired` with what it
does, `Drop` leaves what it does when that changed, `Fails`, `Rejected` and
`RejectedAgain` end a session. `Account` joins the two where the code does: the
task's `access_token` runs within it (`AccessToken`) and is dropped with it
(`CutRefresh`), `TellRelay` is how a sign-in reaches it. Beginning a sign-in is
one step: its three assignments are next to each other under no await.
`AnswerSignIn` assumes that, by the time a person has signed in, the task has
been scheduled once.

## 3. Runs

Passing runs:

| Run | Instance | Shows |
|---|---|---|
| `sync_any` | 2 devices, 3 contents of which two differ in trailing whitespace, one private; any timing; one copy each; a failed write, a disconnection or a restart; an engine that remembers one ID | `TypeOK`; `EngineTracksDetector`: outside a report the engine judges remote items against what the detector saw last; `SeenIsRecentIds` across eviction; `SettlesDown`: once users stop, everything is encoded, sent, judged, written and recognized, and it ends |
| `sync_prompt` | 3 devices, of which one copies twice, one once and one never, 2 ticks; prompt; a failed write | `NoFeedback`: no received item goes out as a new one; `Converged`: at rest all engines name the same item; `NewestWins`: Cled never replaces an item it wrote by an older one; `GenuineCopyIsSent`: no copy is taken for an echo |
| `service` | 4 platforms: a counter with and without a watcher, no token with a watcher and without one; the last two with failing calls; content that dies with its process or not; 2 changes, `Interval` 3, `Debounce` 2 | `TypeOK`; `CheckInTime`: no burst of notifications puts a check off; `HandedOver`: an exit that was told a holder took over takes nothing off the clipboard; `KeepsWatch`: the service implements `ClipboardWatch` |
| `group` | 3 devices, two of them paired, 1 pairing, 1 removal by `d1` or `d3`, one broken connection, half pairing or lost key | `TypeOK`; `RostersAgree`: connected devices with nothing left to say agree on the others; `NotAddedBack`: only a newer pairing brings a removed device back; `GossipEnds`: rosters stop, and devices that trust each other are connected |
| `connections` | 2 devices, 3 connections at a time, a tunnel, a failed handshake, broken connection or restart | `TypeOK`; `OneConnection`: once settled, both have registered the same connection, or none, and read no other; `OneDialIsKept`: of two dials that cross, one survives; `StayConnected` |
| `pairing` | 3 attempts with right and wrong codes, 3 commands, 4 codes, 2 failures to a code | `TypeOK`; `GuessesBounded`: no code is tried more often than allowed; `NoneAfterCancel`: none works once cancelled; `ShownIsActive`: the code on show works, and none does when the panel is closed; `CommandsReturn`: neither attempts nor commands wait for ever |
| `relay` | 2 devices of one user or of two, 3 sockets, 2 requests of one device, 4 events | `TypeOK`; `RegistryIsExact`: the indexes agree and hold no closed socket; `OwnUserOnly`: no message crosses users; `ConnectedIsRegistered`: who believes to be connected is registered; `AnswersMatch`: answers reach the request they are for; `RequestsEnd` |
| `tunnels` | 2 devices, 2 tunnels in either direction, 2 lost relay connections, 1 session that ends | `TypeOK`; `StreamsIntact`: streams arrive whole and in order as long as no number is given twice; `NoneHalfOpen`: in the end a tunnel is open at both ends or at none |
| `account` | 1 user, 2 calls that may overlap, 3 tokens, 2 relay addresses, 1 failure of the relay or of the account service, 1 crash | `TypeOK`; `MirrorsUnlessOvertaken`: status, relay and file follow the session; `StillAccepted`: the refresh token kept is one that is accepted; `SettingsFollowed`; `Followed`: the connection ends up as settings and sign-in call for |

The runs that end in a counterexample are in [section 6](#6-where-code-and-documents-disagree).

*Why these bounds.* Two devices give every conflict between a local copy and a
remote item; the third of `sync_prompt` only receives, in every order, and must
end up where the others do. One copy on each side already crosses; a second on
one side lets an older item meet a newer one, and two broadcasts of one device
overtake each other. Two contents suffice for an echo and something else; a
third stands for whitespace. A single fault at any point reaches every loss one
step can meet. `sync_prompt` has no restart: a content that is on the clipboard
when the program starts brings `GenuineCopyIsSent` down (section 6). Nor does a
connection break there (`Breakable = {}`): what that loses only makes `Converged`
void, and `sync_any` has it. `MaxItems` bounds the items a device creates: it is never
reached unless one goes out that no user copied.

In `service` two changes are a change and one that follows while the first is
being read, or a received item and another program's copy around the holder's
check; `Interval` and `Debounce` differ, and both are more than a tick, so a
notification can come before, within and after either. In `Membership` a
pairing and a removal meet in either order and over either path. `d1` and `d2`
are interchangeable in `group`, so removals by `d2` add nothing (`Remover`);
`group_order`, with four devices, is there because three are not enough for the
order it needs. `Slot` bounds connections at a time, not over time.

Three attempts of `pairing` are two that use up a code and one that waits
meanwhile; three commands open the panel, close it and open it again. Three
sockets of `relay` are a device, its replacement, and the other device (or a
second replacement); four events include two connections, a request and a
failure. Two tunnels of `tunnels` are one each way, or one that is replaced by
another with the same number; two lost connections take one of each device, or the same
one twice. Two calls of `account` give every overlap of a pair; three tokens are
a sign-in, its refresh and a second sign-in.

`SYMMETRY` is used in `sync_prompt` only, whose contents are interchangeable
and whose properties are about states and steps, not about infinite behaviours.

Deadlock is not checked: a system whose users do nothing more is at rest, and
the bounds stop the rest. That nothing is stuck halfway is what `SettlesDown`,
`KeepsWatch`, `GossipEnds`, `StayConnected`, `CommandsReturn`, `RequestsEnd`,
`NoneHalfOpen` and `Followed` check.

## 4. Fairness

- `ClipboardSync`: weak fairness of each thread and spawned task. OS threads
  and tokio tasks are scheduled; the clipboard is polled or checked
  periodically, so a change is checked in the end. Nothing is assumed of users, of time, of failures or of
  reconnecting.
- `ClipboardService`: the thread and the clock go on, and it stops waiting for
  the holder in the end (`AnswerKeep`: its timeout). Notifications may be lost,
  and the holder need not do anything.
- `Membership`: the dial loop returns to every known device that is not
  connected (`dial_loop`, every 5 s, backoff at most 30 s), tasks run, a pairing
  exchange is completed. Users, faults and lost keys are not assumed.
- `Connections`: the device with the lower ID dials again, handshakes end one
  way or the other (`HANDSHAKE_TIMEOUT`), a silent connection is given up
  (`IDLE_TIMEOUT`). Neither the fallback nor tunnels are relied upon.

- `Pairing`: the window handles events, commands and attempts go on; an exchange
  ends one way or the other (it has a timeout, and `Succeed`, `Fail` and the
  rest of an attempt are one fairness condition). Codes need not expire, nobody
  has to open or close the panel.
- `RelaySession`: both programs keep running, verifications end, the relay's
  registration timeout and the client's idle timeout pass (`AuthTimeout`,
  `TimesOut`). No device has to connect again, no caller to give up.
- `RelayTunnels`: frames are sent, forwarded and received, the relay notices
  lost connections (its ping timeout), and sessions write now and then (their
  pings, every 15 s in `node.rs`). A device need not reconnect.
- `Account`: the task and the commands are scheduled, the account service and
  the relay answer or time out. Users and failures are not assumed.

Weak fairness is enough with one exception: no step of these tasks is enabled
and disabled for ever by others. The exception is `Ping` in `RelayTunnels`: the
bound `Busy` lets sessions write only when nothing is on its way, so what other
tunnels send disables it again and again, and strong fairness takes the place of
a session's own timer.

## 5. Proofs

TLAPS checks these for every value of the constants: any number of devices,
users, sockets, contents, attempts and changes, any intervals, any timing, any
failures.

| Module | Theorem | Says |
|---|---|---|
| `ClipboardSyncProofs` | `TypeCorrect` | `Spec => []TypeOK` |
| | `SeenStaysRecent` | `Spec => []SeenIsRecentIds` |
| | `EngineAlwaysTracksDetector` | `Spec => []EngineTracksDetector` |
| | `PromptWatcherPreventsFeedback` | with `PromptWatcher`, `Spec => []NoFeedback` |
| | `PromptWatcherKeepsNewest` | with `PromptWatcher`, no content at startup and no restart, `Spec => NewestWins` |
| | `PromptWatcherSendsCopies` | with the same, `Spec => GenuineCopyIsSent` |
| | `PromptWatcherConverges` | with `PromptWatcher`, no content at startup, clocks that agree and travel unrounded, `Spec => []Converged` |
| `ClipboardServiceProofs` | `ServiceTyped` | `Spec => []TypeOK` |
| | `ChecksInTime` | `Spec => []CheckInTime` |
| | `TakenOver` | `Spec => []HandedOver` |
| | `ImplementsWatch` | `Spec` implements `ClipboardWatch`, but for its fairness |
| `MembershipProofs` | `MembershipTyped` | `Spec => []TypeOK` |
| | `RemovedStayOut` | `Spec => NotAddedBack` |
| | `AgreeUnlessPairedAgain` | with clocks that agree, `Spec /\ [][NoReturn]_vars => []RostersAgree` |
| `ConnectionsProofs` | `ConnectionsTyped` | `Spec => []TypeOK` |
| | `AlwaysOneConnection` | `Spec => []OneConnection` |
| | `CrossingDialsKeepOne` | `Spec => []OneDialIsKept` |
| `PairingProofs` | `PairingTyped` | `Spec => []TypeOK` |
| | `FewGuesses` | `Spec => []GuessesBounded` |
| | `CancelIsFinal` | `Spec => NoneAfterCancel` |
| | `ShownWorks` | `Spec => []ShownIsActive` |
| `RelaySessionProofs` | `RelayTyped` | `Spec => []TypeOK` |
| | `RegistryExact` | `Spec => []RegistryIsExact` |
| | `OwnUser` | `Spec => []OwnUserOnly` |
| | `ConnectedRegistered` | `Spec => []ConnectedIsRegistered` |
| | `AnswersAreOwn` | `Spec => AnswersMatch` |
| `RelayTunnelsProofs` | `TunnelsTyped` | `Spec => []TypeOK` |
| | `StreamsStayIntact` | `Spec => []StreamsIntact` |
| `AccountProofs` | `AccountTyped` | `Spec => []TypeOK` |
| | `RelayFollowsSettings` | `Spec => []SettingsFollowed` |
| | `TokensStillAccepted` | `Spec => []StillAccepted` |
| | `StatusMirrorsSession` | `Spec => []MirrorsUnlessOvertaken` |

They rest on the assumptions the modules make of their constants, which TLC
evaluates in the runs: the kinds of clipboard content are disjoint, `None` is
none of the values it is told from, contents that hash alike hash to a content,
a debounce is no longer than an interval, clocks and bounds are natural numbers,
IDs of different devices differ, a sign-in brings at least one token, and the
like. Five theorems have hypotheses of their own.

`PromptWatcherPreventsFeedback` assumes the prompt watcher;
`PromptWatcherKeepsNewest` and `PromptWatcherSendsCopies` assume also that a
program starts with no shared content on its clipboard and is not restarted.
`PromptWatcherConverges` needs no bound on restarts, as `Converged` says nothing
once there was one, but clocks that agree (`ClocksAgree`), and a clock as coarse as
what the wire carries (`TicksPerMs = 1`). This is the regime `sync_prompt`
checks; section 6 says what happens outside it.

`AgreeUnlessPairedAgain` assumes clocks that agree and `NoReturn`: no device is
stored as paired while some device has recorded its removal, which is to say that
a removed device is not paired again. Devices may be paired any number of times
before, one side of a pairing may fail, keys may be lost and connections broken.
`group_order` shows that the hypothesis is needed.

**ClipboardSync.** `EngineTracksDetector` is not inductive: it says nothing of a
device while a change is being reported, so nothing follows for the moment the
report ends. The invariant of the proof (`TrackingInv`) adds that a change being
reported is the one the detector holds. Two lemmas carry the step:
`on_local_change` leaves the engine at the hash of what was reported, echo or
copy; `on_remote_item` changes at most which item that hash belongs to.

`NoFeedback` needs more (`PromptInv`): at most one change of a clipboard is on
its way to the engine. If Cled made it, the engine still expects its echo; if
the user made it, the item it will become is not yet counted in `created`,
so `created` is still below `copied`. While an item waits to be written nothing
else is under way and the engine expects that very item. This is where the
prompt watcher enters; without it the property fails (section 6).

`NewestWins` and `GenuineCopyIsSent` are about what a step does to a clipboard
that other steps filled. `OrderInv` says what the engine knows of it. An item
Cled put there is the one whose echo the engine expects, while the change is
under way, and afterwards is no newer than what the engine holds as current. A
write that is to come differs from what the detector saw last, so it will bring
an echo, and its item is not older than the one it replaces. When no echo is due
none is expected, so a user's copy finds no expectation that could swallow it.
This needs the engine to know of any content the detector has seen, hence no
content at startup and no restart.

`Converged` is about rest, and items travel each way in any order. `ConvergeInv`
follows them while nothing has failed. Every item that an engine stands for
(`Held`: names as current or expects the echo of) or that is on its way
(`OnItsWay`) is, for every device, either still on its way there or covered: that
device stands for it or for something newer (`AccountedFor`). At rest nothing is
on its way, so each engine covers what the other names, and `is_newer_than`,
which compares times and then IDs, is a total order (`OrderOfStamps`). Three
things keep this up. An ID that an engine remembers is that of an item it covers,
so nothing that is dropped as seen was needed, and an ID that was evicted only
causes the item to be compared again. A user's copy is newer than all its device
stands for (`LocalInvOf`): this is what clocks that agree and the prompt watcher
give. IDs are unique, so two items of the same age are told apart everywhere in
the same way.

`SeenIsRecentIds` is inductive as it stands: `remember` adds an ID to the queue
and to the set only if the set lacks it, and takes the first of the queue out of
both.

**ClipboardService.** `CheckInTime` is inductive together with `TypeOK`: time
passes only while the thread waits, at most until `due`, and a notification only
ever brings `due` forward. `HandedOver` is not: it says nothing before the
answer. `Handed` adds that while the thread waits for the holder
(`pc = "keeping"`) a holder that is ready has taken the clipboard from this
program, which cannot take it back, since the thread that would write is the one
that waits. The refinement follows step by step from the types of what requests
and the holder carry.

**Membership.** `NotAddedBack` is about a step, and the step that could break it,
`ReadRoster`, uses a roster sent long before. The invariant (`IInv`) therefore
dates what is kept and what is under way: no entry of a store (`StoresDated`) or
of a roster on a link (`LinksDated`) is from a later pairing than `lastPaired`
says of that device, and no store holds both an entry and a removal of one.
`MergeDated` shows that `Merge`, given a dated store and roster, returns a dated
store, and brings a removed device back only for a pairing after its removal.
Clocks may differ by any amount here.

`RostersAgree` is about two ends of a connection that have nothing left to say.
`PathsOK` is about what they still have to say. While `d` talks to `e`, whatever
the store of `d` says of a third device, `e` says too, or a roster on its way to
`e` does (`Aware`); and a `d` that has stopped talking has said goodbye or broken
the connection (`Ended`). It holds across a merge only if merging loses nothing,
and in general it does: a removal gives way to a newer pairing. `RemovalsLast`
rules that out. Every removal recorded, in a store or in a roster on its way, is
no earlier than the last pairing of that device, and what a roster says was
removed is still recorded in some store, so `NoReturn` covers those on their
way too. With it `Merge` only adds (`MergeGrows`). That a new removal is
that late follows from `ClockPast`: no pairing is dated after any clock. This is
where clocks have to agree.

**Connections.** `OneConnection` speaks of settled states only, and connections
settle one end at a time. `Told` is about every step in between: a device that
has closed its end of a connection, or reads on with another one in its place,
has told the other end, unless that end is gone. When nothing is left to learn,
only the registered connection remains. For `OneDialIsKept`, `OneWinner` says
that, while nothing breaks and nobody tunnels, one connection wins and is given
up by neither end: the one the device with the lower ID started or, while there
is none, the only one the other device started, as a device does not dial while
it has a dial under way or a connection.

**RelaySession.** The invariant (`IInv`) is the types, that only sockets that
were opened are being verified, and `Registration` and `Delivery`.
`RegistryIsExact` needs that every registered socket is registered under its own
identity and that a socket being verified is not registered yet: this is what
makes `Add`, which overwrites one index for the device and one for the socket,
and removes the replaced connection from the other, keep both in agreement
(`AddExact`). `OwnUserOnly` needs the former to know that a message goes to a
socket of the sender's user, and that nothing was sent to a socket before it
was opened by its device. `ConnectedIsRegistered` is about both ends of a
connection: `Confirmation` adds that a registration that was confirmed, to the
device or on its way there, is in the registry as long as the relay has not
closed the socket.

`AnswersMatch` is what the client's first-in, first-out list stands for, and its
invariant (`Dialogue`) spans the client, both directions of the connection and
the relay: the requests the client waits for are, in this order, those whose
answers are on their way to it, followed by those on their way to the relay.
`Matches` gives this order as a numbering of the answers and requests. A caller
that gives up stays in the list, which is why the others' answers are not
shifted. A session that ends takes the list with it; while the next one registers
no answer can come before the confirmation. `Owned` says that a device's socket
is its own, `Asked` that what is waited for was asked.

**RelayTunnels.** `StreamsIntact` is about the whole way of a stream, from what a
session wrote over both relay connections to the other session. The invariant
(`Streams`) is about what an end of a tunnel has on this way. Whatever names a
tunnel, its opener has used the number (`Numbered`), so unless a number is given
twice, all of it comes from one opening (`Matched`). Nothing goes either way
before the other end has heard of the tunnel (`Opening`), no end of a stream
overtakes its last piece (`Order`), and who can still hear of the stream has read
everything but the piece on its way (`ReadsAll`). What the ends wrote is known
even of ends that are gone; it is the witness `v` of `Tidy`. As in the runs, a
stream has one piece on its way at a time.

**Account.** The four invariants are proved over the composition, since a sign-in
of `SignIn` reaches the task of `RelayClient`, and the task's refreshes change
the session. `SettingsFollowed`: while nothing overlaps, at most one setter is
between saving and configuring, and what it configures is what it saved.
`StillAccepted` (`TokenInv`): every token held anywhere, by a sign-in under way, a
refresh, the session or the file, was issued (`Issued`) and, unless the user
removed the sign-in there or a rotation was lost, is accepted (`Kept`); no
sign-out revokes a token that a session or a sign-in holds (`Apart`).
`MirrorsUnlessOvertaken` (`MirrorInv`): the calls under way are told apart by
their generations (`Numbered`), the task is busy only with what is called for
(`Linked`), and `Mirrored` says how far the newest call, while it acts, has
brought status, relay and file, unless an older call has yet to change
something.

**Pairing.** `GuessesBounded` is not inductive: it does not say why the next
guess is allowed. `Counted` relates a code's guesses to the failures its session
has counted, plus one if an attempt holds the session; `OneHolder` says that
only one does. Codes are numbered as they are generated, so a new code has no
guesses and was never cancelled; from the same conjunct it follows that the
session never has a cancelled code, which is `NoneAfterCancel`. `ShownIsActive`
needs what is under way between the session and the panel. `PanelInv`: unless
something crossed, the last command decides. Either it closed the panel, and is
on its way to end the session or has; or it asked for a code, which will be shown
or is, and is then the session's until an attempt or an event says otherwise.

Only TLC checks:

- `RostersAgree` of `Membership` when a removed device is paired again. `group`
  has it for three devices; with four `group_order` violates it, so it is no
  theorem without `NoReturn`.
- All liveness: `SettlesDown`, `GossipEnds`, `StayConnected`, `CommandsReturn`,
  `RequestsEnd`, `NoneHalfOpen`, `Followed`, and the fairness of `KeepsWatch`.
  It rests on fairness, hence on `ENABLED`, which the prover cannot reason about.

## 6. Where code and documents disagree

Each run below ends in a counterexample to what a comment or document says; the
lines and quotes are under `findings` in `PROJECT.json`.

| Run | What happens |
|---|---|
| `busy` | a read that fails after the token was stored is not repeated |
| `group_order` | a removal that arrives after the newer pairing's roster drops the device on one member only |
| `sign_out` | a sign-out during the last steps of a sign-in is undone by it: the session is set and saved after it was forgotten |

What follows is so as well. The project keeps no run for it, and the properties
of the passing runs leave it out, as they say.

The clipboard:

- `GenuineCopyIsSent` fails when a program starts with content on its clipboard
  that another device copies (`sync_prompt` with `StartSnapshots <- AnySnapshot`):
  the content was the detector's baseline and is unknown to the engine, so the
  item is written and brings no echo. The expectation stays and, after the
  clipboard was cleared, swallows the user's next copy of that content
  (`engine.rs:107`), which `engine.rs:45-48` rules out.
- `NoFeedback` fails without a prompt watcher: a copy reported while an item is
  about to be written uses up the expectation of the echo, and the item is sent
  again as a new one (`engine.rs:107`).
- `Converged` fails for two copies in the same millisecond: each device may keep
  its own, as times are truncated on the wire only (`wire.rs:112`).
- `NewestWins` fails without a prompt watcher: an item that arrives between a
  write and its echo is compared with what was there before (`engine.rs:131`).
- `Converged` fails with clocks that differ: a copy can be current on its own
  device and stale everywhere else, and there is no winner (`engine.rs:84`).
- `EveryChangeObserved` fails with tokens made of content (Wayland): a change
  during a check and back again leaves the wrong content observed
  (`service.rs:195-201`). `service` leaves this platform out.
- A failed first read makes the content present at startup a change
  (`service.rs:165`); `ClipboardWatch` allows it when `BaselineFails`.
- The holder reads and then writes (`holder.rs:54-57`): what another program
  copies in between is overwritten. It stays while the clipboard is empty.
- An item written after `keep_content_after_exit` answered goes with the
  process; `wroteAfter` sets these aside in `HandedOver`.

The group:

- A device paired again is told that it was removed, by a member that has not
  heard of the new pairing, and leaves the group (`node.rs:961`), where
  `docs/rfcs/0001-lan-sync.md:122` says that it rejoins.
- A roster in flight gives a device that left the group its members back
  (`node.rs:813`, `1070`).
- A dial and a tunnel by the same device may both be dropped (`node.rs:492-497`).
- `RostersAgree` fails with clocks that differ, since a removal by a device
  whose clock is ahead is newer than a later pairing.
- A device that missed the last message of a pairing is not told of a removal a
  second time.

Pairing:

- An attempt that succeeded ends the session again after it released the mutex
  (`node.rs:597`), and wipes a session that was started in between.
- Two commands of the panel run in either order, and a reply or event may bring
  a code that was replaced meanwhile. `crossed` sets these aside in
  `ShownIsActive`.

The account and the relay:

- A superseded sign-in also replaces the session and the file of a newer one,
  and an older call may publish and tell the relay after a newer one.
  `overtaken` sets these aside in `MirrorsUnlessOvertaken`.
- A refresh that is cut short (the task moves on, or the program ends) after
  the account service rotated the token loses the sign-in: the old token is no
  longer accepted. `cut` sets these aside in `StillAccepted`.
- `write_private` is not atomic: a crash in between leaves no sign-in.
- Setters that overlap save in one order and configure in the other
  (`settings.rs:153-178`); the relay follows the older setting until the next
  change. `overlapped` sets these aside in `SettingsFollowed`.
- When the relay cannot reach the verifier it answers like for a bad token
  (`clerk.ts:65-71`, `routes.ts:248`), and after two such answers the client
  stops until its settings or its sign-in change (`relay.rs:417-422`).
- A verification that ends late may replace the newer connection of the same
  device by an older one, if that is still open (`routes.ts:254-268`).
- A test message asked for while the client is connecting is sent once it is
  connected, though its caller may have been told that it failed.
- Tunnel numbers start at 1 on every relay connection (`tunnel.rs:88`); frames of
  an old tunnel may reach a new one with the same key. `reused` sets these aside
  in `StreamsIntact`.

## 7. What is not modelled

- Handlers are steps. How `apply_roster`, `remove_peer` and `start_session`
  interleave between their locks is left out of `Membership`; the other modules
  do split what other threads and tasks can see.
- `Membership` gives a pair one session at a time; that this is what
  `Connections` brings about is argued, not checked. So is that a tunnel of
  `RelayTunnels` behaves like a connection of `Connections`, and a session of
  `RelaySession` like the `"connected"` of `RelayClient`.
- In `RelaySession` a device keeps its user; another user on the same device is
  another device to the relay's registry, which keeps them by user.
- An item that cannot be encoded, or is larger than 16 MiB, is dropped by its
  sender in the code and always sent in the model.
- Names, addresses, the oldest of more than 100 removals, failed saves of
  `peers.json`.
- Of pairing: the joiner's side, which tries one address after the other, and
  how a typed code is parsed. What an exchange leaves behind on both sides is
  `Membership`'s `Pair`.
- Of the relay client: the status and the join hints in the window, and how long
  backoffs are. Pings show only as connections that are found silent.
- Of the relay server: frames that do not parse, the token verification itself
  and HTTP.
- Discovery but for the announced pairing, addresses, start on login, the tray,
  the windows but for the pairing panel, the web site: no protocol of their own.
  Platform clipboards are the operating systems'.
- Cryptography: a handshake succeeds if and only if each side knows the other's
  current key, an exchange if and only if the codes agree.

## 8. Plan

The clipboard came first, then who is in the group and the connections that
carry both; then the relay, the account and pairing. What is left, in this
order:

1. `Membership` with the handlers split at their locks, and with stores on disk
   that may fail to be saved.
2. Abstract specifications: a tunnel as a reliable stream or none, implemented
   by `RelayTunnels` when numbers are not given twice; the `Pair` of
   `Membership`, implemented by `Pairing` on one side and the joiner on the
   other.
3. The joiner, and the addresses it tries.
