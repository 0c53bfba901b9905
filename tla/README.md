# Westbridge in TLA+

Westbridge is a control panel for telephone conferences. A Go program keeps one
connection to the Asterisk manager interface (AMI), a catalogue of rooms in
SQLite, and a WebSocket to every browser that watches a room. It dials people
into a room, shows who is there, and must stay right while events are lost,
replies never come, the connection breaks, browsers fall behind and rooms are
deleted under the people who use them.

This directory holds TLA+ models of that logic, the TLC configurations that check
them, and theorems checked by TLAPS. `PROJECT.json` lists the runs, the mutants,
the source lines each definition stands for, the hazards and the theorems.

## The system

| component | state it keeps | operations | what makes it correct |
|---|---|---|---|
| Call lifecycle, `conference/call_model.go` | phase, stop reason, failure of one attempt | `transitionCall`, `view` | no verdict on a live call; a cancellation is never undone |
| Conference service, `conference/service.go`, `calls.go`, `roster.go` | attempts, roster, event boundary, subscribers | invite, cancel, retry, kick, list, events, resync, maintenance, publish | the roster is the conference; every call resolves; what is published is current |
| Room coordinator, `conference/manager.go` | `Admission` lock, cached verification, epoch | reconcile, clean the registry, delete, ready, dispatch | a deleted room is empty and unreachable; a ready one is reachable |
| Room catalogue, `rooms/store.go` | rooms and grants in SQLite | create, delete, result, grants, access | a number is not reused too early |
| Admission registry, `ami/rooms.go` | entries in Asterisk's database | ensure, disable, count, list | read-back before success |
| Dialplan, `deploy/asterisk/extensions.conf` | group and target of each channel | join, dial | no channel slips in unseen |
| AMI client, `ami/client.go` | session, pending actions, event queue | connect, route, action, list, write | answers reach their caller; framing; nobody waits for ever |
| AMI codec and call adapter, `ami/message.go`, `decoder.go`, `calls.go` | none | encode, decode, translate | (pure; unit tests) |
| Fan-out, `hub/hub.go` | subscribers, their queues, the last payload | subscribe, broadcast, remove, close | no subscriber misses the latest; a dropped one is told |
| Room web server, `web/server.go`, `web/rooms.go` | servers of rooms, open sockets | admit a request, stream snapshots, prune, close | access holds when it is used; revoked sockets close |
| Mute and speaking, `conference/mute.go`, `roster.go` | `Muted` and `Talking` of each participant, two event boundaries | set muted, mute and talking events, reset | the mute shown is the mute there is; nobody is shown speaking who is silent |
| Accounts, `auth/store.go`, `web/auth.go` | users, sessions, login windows and slots | login, logout, create, update, authenticate, the two commands of the command line | a revoked session is over; an administrator remains; a refusal does not last |
| Phone book, settings, migrations, number normalisation, assets, command line | rows, files | one transaction or pure function each | (unit tests) |
| Web client, `frontend/src` | last snapshot, socket | reconnect, REST fallback | shows the latest snapshot |

How they interact:

- **Calls and replies.** `Service` and `RoomRegistry` send actions through
  `Client.do` and block for the reply, for the end of their context, or for the
  end of the session. One goroutine reads the connection.
- **Events.** The reader routes a packet to the action that waits for it or to
  `Client.events`; `Manager.dispatch` copies it into the queue of each room it
  concerns; `Service.Run` handles it. Both queues drop what does not fit.
- **Callbacks.** The reader tells `Manager.OnAMIStateChange`, which invalidates
  what was verified and signals each service through a channel that also drops.
- **Shared state.** `Manager.Admission` is a read-write lock: HTTP requests read
  it; grants, deletion, reconciliation and cleaning write it. Accounts are not
  under it: they meet everything else in the database, whose one connection makes
  each statement or transaction a step. `attempt.op`
  serialises commands on one call, `syncMu` lists and events, `pubMu`
  publications.
- **Publication.** `Service.notify` captures a snapshot and calls
  `Server.publish`, which broadcasts on the room's hub; each WebSocket handler
  takes payloads from its own queue and checks access before it writes.

What is hard here: events and replies of one connection are handled by different
goroutines, in either order; a reply that does not come leaves the outcome
unknown; a late write changes Asterisk after its caller gave up; the truth is
spread over SQLite, Asterisk's database and running channels, and the program may
stop between any two steps; every queue has a limit; access may be revoked at any
moment. `PROJECT.json` lists these hazards one by one, each at its line.

## Modules

| module | stands for | used by |
|---|---|---|
| `CallModel` | `call_model.go`: one operator per input of `transitionCall`, and `view` | `ConferenceService` |
| `AsteriskLink` | what the service sees of Asterisk: channels, replies, the event path, loss | `ConferenceService` |
| `CallBoard` | abstract: what may become of the row of a call | `ConferenceService` |
| `ConferenceService` | `service.go`, `calls.go`, `roster.go` | `MCConferenceService`, `ConferenceServiceProofs` |
| `SpeakingState` | `mute.go`, the mutes and speech in `roster.go` and `service.go` | `MCSpeaking`, `SpeakingProofs` |
| `RoomAccess` | abstract: what a room promises | `RoomLifecycle` |
| `RoomLifecycle` | `manager.go`, `rooms/store.go`, `ami/rooms.go`, the dialplan | `MCRoomLifecycle`, `RoomLifecycleProofs` |
| `AmiClient` | `ami/client.go` | `MCAmiClient`, `AmiClientProofs` |
| `AccountAccess` | abstract: who is enabled, who administers, which sessions are open | `Accounts`, `RoomServer` |
| `Accounts` | `auth/store.go`, `web/auth.go`, `cmd/westbridge/admin.go` | `MCAccounts`, `AccountsProofs` |
| `RoomServer` | `hub.go`, the WebSocket handler, admission of requests, grants | `MCRoomServer`, `RoomServerProofs` |
| `ConferenceServiceProofs` | types, attempts and verdicts of the conference service | `RunProofs` |
| `RunProofs` | publication and deadlines | `RosterProofs` |
| `RosterProofs` | who is in the roster, and a row for each call | |
| `SpeakingProofs`, `RoomLifecycleProofs`, `AmiClientProofs`, `AccountsProofs`, `RoomServerProofs` | the invariants of the module each is named for | |

The state machines are views of one program. Each takes from its neighbours what
it can observe of them:

- `ConferenceService` sees the AMI client as replies that come complete, fail or
  are given up, and events that come in order or are dropped. (`ami_truncation`
  shows the one case where a list is neither complete nor failed.)
- `SpeakingState` is the same service seen from the microphones: no calls are
  made, but the packets are numbered, the connection changes in separate steps
  and an event is checked and applied in separate steps.
- `RoomLifecycle` sees the service as the set of calls its list reports, which
  may shrink at any time.
- `RoomServer` sees the service as a counter of changes, the coordinator as a
  room that goes from open to deleting to deleted under the write lock, and
  accounts through the actions of `AccountAccess`, which `Accounts` is proved to
  implement: whatever the store can do, a snapshot or a command may meet.

### ConferenceService

An action is what happens between two points where a goroutine waits: `Invite`
lists the attempt and sends the Originate, `InviteFinish` takes the reply.
`op[c]` is the operation that holds `attempt.op`; `run` is where `Run` is;
`list.pc` other than `idle` is `syncMu` held by `List`. A section under `s.mu` and
the `notify` after it are one step. The end of `List` is three steps, as in the
code, and other goroutines come in between: `ListForget` (`forgetDeparted`, which
notifies nobody), `ListReplace` (`Replace`, whose verdict waits in `changed`) and
`ListFinish` (`reconcileJoined` and the `notify`).

Packet sequence numbers are not kept: they only tell which queued events were read
before a moment, and the queue is in order, so the number of queued events at that
moment says the same (`boundary`, `outdated`). Names are left out, and of the join
time it is kept that a list never knows it and a join event always sets it, so that
`Add` always reports a change. `published` is the snapshot sent last.

Asterisk is external: `AsteriskLink` has a channel move from `queued` through
`ringing`, `answered` and `joined` to `gone`, sending the events
`DecodeCallEvent` and `handleEvent` understand. Assumed of it: actions of one
connection are executed in order; by the time the deadline of an attempt passes
(its timeout and ten seconds more) the channel was allocated or the request
dropped. `stale` and `missed` are history: they carry the exceptions of two
properties.

`CallBoard` says in one relation, `Moves`, what a viewer may rely on: a dialing row
does not vanish, a cancelled one does not come back, one that ran out of time is
shown as failed first. `Stage` maps an attempt to its stage.

### SpeakingState

Every `ConfbridgeList` tells who is muted, none tells who is speaking, so speech is
known from events alone and must be forgotten when the connection changes.
`OnAMIStateChange` runs in the client's goroutine in two steps (`StoreBoundary`,
`ResetTalking`); `Run` takes an event, checks it and applies it (`Take`,
`CheckTalking`, `SetTalking`); `SetMuted` sends an action and ends with a `List`.
Here packets are numbered, because `EventSequence` is read at three different
moments.

Assumed of Asterisk: a microphone that is switched off ends the speech and says so,
in either order with the mute; a uniqueid joins once. A packet counts as read when
it is sent. `missed` is history, as in `AsteriskLink`; so are the two exceptions of
`SpeechEnds`. `raced` has the participant of an event that was checked before the
connection changed and is applied after (finding 4); `unheard[p]` is how much had
been read when an end of p's speech did not fit in the queue (see the notes).
`SetTalking` ends either with an event that is newer.

### RoomLifecycle

A room is identified by its bridge, which is random and never reused; its number
is reused. `state` is the catalogue and survives a restart; `reg` is Asterisk's
registry; `late` holds a write whose reply was given up and that Asterisk may
execute later, or never. `admission` says who holds the lock for writing,
`inviting` who holds it for reading. A reconciliation pass goes through
`CleanStart`, `Scan`, the orphans, then the rooms in any order; ensuring a room is
`Version`, `Put`, `Verify`; disabling it is `Get`, `Delete`, `Check`; a deletion
then needs `Count` and `List`. Any of these may fail instead (`StepFails`).
`at` and `target` follow each channel through the dialplan, one step per line that
reads or writes shared state.

Assumed: Asterisk executes the actions of one session in order, so a write that is
late comes before the next action; a write on a lost connection is executed or
dropped before the client is connected again. The database does not fail.
The generation of a room is not kept: it changes only under `Admission`, which the
reconciler holds from its read to its `Result`. `EntryLost` is Asterisk losing an
entry of its database while the link is down.

### AmiClient

Callers are goroutines in `Client.do`; each performs one action. `run` is where
the reader is, `hand` the packet it has routed and not yet delivered, `socket` the
packets written on the live connection with whether they are whole. A select with
several ready cases is a choice between actions (`Deliver` or `Discard`; `Take`,
`TimesOut` or `SeesClosed`). What Asterisk sends with an ActionID is external and
comes in order, mixed with other answers; packets read before the session was
closed are still decoded.

### Accounts

A statement or a transaction is one step: the program opens the database with one
connection, and SQLite commits the transactions of the command line, a process of
its own, one at a time. `Login` is four of them with a password verification in
between (`Read`, `Verify`, `Insert` or `InsertsNothing`, `SweepExpired`, `Answer`);
the condition of its `INSERT` is `StillTrue`. `UpdateUser` is one transaction.
`Arrive` is `loginLimiter.allow` under its lock, `TakeSlot` the `select` on
`loginSlots`. A hash is salted and so always new: it is a number. A session is a
token, issued once; `made` is history, what it was issued for. The answer of a
login may be lost, and the browser then keeps its old cookie. Requests enter with a
session and act later, when it may be over (`Enter`, then `Logout` or `Administer`).

### RoomServer

A snapshot is the number of changes it shows. `at[b]` is where the WebSocket
handler of browser `b` is, `command[b]` where its command is; `Readers` are those
that hold `Admission` for reading; whatever is done under the write lock waits
until there is none. `enabled`, `admins` and `logins` are those of `AccountAccess`.
`unsettled` is history: the handlers whose account or session changed after they
last looked, which `AccessIsHeld` excepts.

## Properties and runs

Every property has a mutant: a plausible slip in one mapped definition under which
TLC finds it violated.

| run | states | shows |
|---|---|---|
| `service_calls` | 2.36M | one call with any one fault: verdicts, the promise of its row, deadlines, and what the browsers see between any two sections of `List` |
| `service_members` | 2.82M | two calls, kicks, two users who retry: the roster is the conference, whatever order lists, kicks and events take; a failed call is replaced once |
| `service_live` | 571k | a cancelled call goes away, every call resolves and the roster converges, though a connection, any reply or an event is lost |
| `service_cancel_race` | violation | finding 1 |
| `service_publish` | violation | finding 2 |
| `speaking` | 1.46M | who is shown as muted and as speaking, across connections; the mutes converge |
| `speaking_reconnect` | violation | finding 4 |
| `rooms` | 158k | deletion, reuse of a number, late writes, restarts; the refinement; deletions complete, rooms become ready, leftovers go |
| `ami_client` | 409k | routing, framing, delivered answers, release on disconnect |
| `ami_truncation` | violation | finding 3 |
| `accounts` | 2.28M | sessions and the last administrator while logins, administrators and the command line overlap; the login limits; the refinement |
| `room_server` | 332k | access at the moment of use, no missed snapshot, eviction, revocation, closing |

### Bounds

- **Service.** One call with every fault, or two without: rows, verdicts and
  cancellation concern one attempt, and two are needed where one replaces the
  other (retry) or leaves the conference to the other (start and end events,
  lists). `MaxFaults` counts lost connections and replies together. The queue
  holds one or two events, so that it overflows; 256 in the code only makes that
  rarer. `Limit` is the 200 of `Invite`, `StateCapacity` the 8 of `New`. The
  theorems remove these bounds from everything but liveness.
- **Speaking.** One participant: the mute and the speech of one do not meet those
  of another, but in the queue, where four events and room for two let it overflow
  and let one connection's events outlive it. One fault breaks the connection or
  loses a reply. Both invariants are proved for any participants, queue and faults.
  A queue of four loses nothing in `speaking_reconnect`: no overflow is needed.
- **Rooms.** One room and a leftover entry share one number, because every hazard
  is about a number passing from one to another; the caller and the outgoing call
  are the two ways to be inside. Two faults: the smallest number in which a late
  write meets a restart. The theorems remove these bounds for safety; that a failed
  room does not keep the others from their turn is checked only as a pass that goes
  on after a failure. The run has an old entry of no room on the number; that of a
  room deleted before, with a new room on its number, is covered by `NumbersAreKept`.
- **Client.** Queues of one packet make the reader wait at once. Two callers are
  the least that share a gate. One session per run: callers of an earlier session
  see only its closing. Framing, answers and outcomes are proved for any number of
  callers and sessions, any queues and lists of any length.
- **Accounts.** Two users, so that each can demote the other, and two browsers,
  each at its own address. One slot, one attempt per window and one remembered
  window put every limit within reach; two logins in progress meet only in the
  tables, and the theorems cover any number of slots. Two changes of accounts: one
  to overtake a login, one more to undo it.
- **Server.** One browser with a socket and a command at the same time: another
  socket meets it only in `Admission`, where the command stands for it, and in
  `Broadcast`, which treats each client by itself. Access and the fan-out are
  proved for any number of browsers and any buffer. A buffer of one payload and
  three changes let it fall behind and be dropped; one change of account or grants
  can hit any step.

`CHECK_DEADLOCK FALSE` where the system may really stop: each caller of
`AmiClient` performs one action, and the program of `RoomServer` shuts down.

### Fairness

- `ConferenceService`: Go's `select` picks at random among ready cases and the
  tickers fire again and again, so each case of `Run` could be strongly fair;
  assumed is no more than the properties need: strong fairness of the maintenance
  ticker and of the changes of the connection, weak fairness of the resync. Mutexes
  do not starve, so commands and replies are weakly fair; the client reconnects for
  ever. Handling an event is not fair: lists and maintenance alone repair the
  roster and end the calls. Users do nothing they do not want to: inviting,
  cancelling and leaving are not fair.
- `SpeakingState`: the goroutines run, the client reconnects, replies come or time
  out, and the ticker makes `Resync` strongly fair.
- `RoomLifecycle`: the pass starts every three seconds and gets the lock sooner or
  later (strong fairness of `CleanStart` and `TakeRoom`); a begun step and a
  request end; the client reconnects. Every channel is hung up some day, without
  which no room could be deleted; nobody has to dial or invite.
- `AmiClient`: the reader and the goroutines in `do` run. Nothing makes a write
  end or a context expire.
- `RoomServer`: publications, handlers and closing run; `sessionCheck` ticks and
  `WriteTimeout` bounds a write. Changes, users and shutdown are not fair.

### Findings

1. **A cancelled call may ring on** (`service_cancel_race`, `calls.go:158`). A
   Hangup is answered "no such channel"; the channel is allocated; `Run` handles
   Newchannel before the goroutine in `Hangup` takes its reply; `ChannelSeen` then
   makes the reply final and the attempt leaves the list, though the comment at
   `calls.go:151` calls for a retry. `NoVerdictOnLiveCall` holds for every other
   channel.
2. **An automatic cancellation is not published** (`service_publish`,
   `calls.go:247`). The row becomes "Cancelling" without a snapshot, where
   `useConference.ts:47` relies on one after every change. `PublishedIsCurrent`
   holds otherwise.
3. **A list may be cut short without an error** (`ami_truncation`,
   `client.go:293`). After another caller's interrupted write closed the session,
   `route` drops or delivers each buffered packet at random, so an item can be
   dropped and the terminator delivered. `AnsweredInFull` (while its session is
   open, an action that returns an answer has consumed exactly the packets that
   answer it, in order) holds; `ListsAreComplete` does not.
4. **A speaker of the old connection is shown on the new one**
   (`speaking_reconnect`, `service.go:394`). `handleEvent` checks a talking event
   against the connection, then applies it (`SetTalking`); `OnAMIStateChange` runs
   on the client's goroutine and takes no lock in between. If the connection is lost
   and restored there, the reset comes first and the old event after it. The
   README says that "after AMI reconnects, the speaking indicator waits for a new
   activity event" (line 349, also 112-113; `roster.go:184`). `Run` must be held
   between the two lines for as long as the reconnect takes. The browser hides the
   indicator while disconnected. `SpeechEnds` holds: everybody else shown speaking
   speaks or is about to be corrected, and this display ends with the next event
   about the participant's speech.

Notes that are no disagreement a run could state:

- `Logout` and `UpdateUser` do not take `Admission`, by design, so a snapshot or
  command checked just before is completed; the next check refuses
  (`AccessIsHeld` states it, `RevokedSocketsClose` bounds it).
- An end of speech that a full queue dropped is not repaired by a resync: a list
  does not tell who speaks, and `Replace` keeps whoever was speaking
  (`roster.go:79`), as `TestTalkingLifecycle` wants it ("resync interrupted
  speaking"). That is less than the comment of `ResyncInterval` says of the roster
  (`service.go:71-73`: "a dropped event cannot accumulate into drift"). `SpeechEnds`
  excepts the participant until the next event about the speech (`unheard`); the
  `speaking` run reaches such states.
- `main.go` drains the HTTP server before it cancels `runCtx` so that commands
  still have a connection, but `runCtx` is a child of the context the signal
  cancels: on SIGINT and SIGTERM the client stops at once. `RoomServer` lets the
  commands of a closing server end either way.

## Proofs

TLAPS checks every obligation; nothing is assumed but the named assumptions on
the constants, which bound nothing: the bounds of a run are constants with any
value. Each inductive invariant was checked with TLC on small instances before it
was proved. Every state invariant and every action property of the passing runs,
and every refinement, is a theorem.

- **RoomLifecycleProofs.** The safety properties are not inductive: that a deleted
  room is empty depends on what the reconciler knew at each of its steps.
  `Inductive` adds it in parts: `LockInv` (who can hold `Admission` together),
  `WorkInv` (what a step or request in progress implies about its room),
  `CatalogueInv` (one live room per number), `RegistryInv` (which entries and
  outstanding writes there can be for each state), `ClosingInv` (once the entry
  is read back as absent it stays so; once the group was empty nobody passes),
  `TargetInv` (where a channel's target came from), `VerifiedInv` (what
  the cached verification guarantees). One lemma per action, by part; `Invariance`
  combines them. From it
  follow `TypeCorrect`, `DeletedRoomsAreEmpty`, `DeletedRoomsAreUnreachable`,
  `ReadyRoomsAreRegistered`, `RoomsStayWhileInviting`, the action property
  `NumbersAreKept`, and `RoomsKeepTheirPromise`: every step is a step of
  `RoomAccess` or a stutter.
- **ConferenceServiceProofs.** Three invariants, each resting on the one before.
  `TypeCorrect` is split by who changes what: `LinkTyped`, `ServiceTyped`, `Shown`
  (the published snapshot), and `Queued`: the positions in the queue that a `List`
  remembers stay within it, because the queue only grows at its end and only the
  handler takes from it.
  `AttemptInvariant` says of each attempt by itself which phases, stop reasons,
  holders and channels go together (`Sane`), and of a replacement that the replaced
  attempt is held by the retry until it is off the list (`Replacement`). From it
  follow `NobodyRetriesTheReplaced` and `RowsKeepTheirPromise`, the refinement of
  `CallBoard`: every input of the call model advances the stage of a sane attempt
  along `Moves`.
  `VerdictsAreFounded`: channels only move onward, so what a packet, a reply or a
  roster said of a channel when it was sent is still true when it is handled,
  however late. The one exception is a reply "no such channel" given before the
  channel was allocated: `stale`, and finding 1.
- **RunProofs.** `RunInvariant` says where `Run` is while it waits for a list or a
  hangup of its own. `BrowsersAreUpToDate` adds `PublicationInvariant`: a difference
  between what was published and what would be is always somebody's to publish.
  `TimeoutsFollowTheRoster` adds `SweepInvariant`: a call that is due and still
  unresolved in the sweep was absent from the roster of this pass, because no other
  input makes a call wait again.
- **RosterProofs.** `RosterFollowsConference` speaks of an empty queue, and is not
  inductive because it says nothing of a full one. `RosterInvariant` needs no fold
  over the queue, only its last word on each call (`LastWord`) and, where the queue
  is silent, that the roster is right (`Correct`). It holds of the roster and the
  events that are not outdated, and of a list's answer and the events after its
  boundary, and taking an event or replacing the roster trades one for the other.
  `EveryCallIsOneRow` adds `RowInvariant`: an attempt whose call is in the roster is
  told before `List` ends (`Seated`); a call that timed out has a channel, and a
  hangup sent before there is one is the user's, so that the one unfounded verdict
  ends its attempt instead of failing it (`Timed`); and a call shown twice has left
  the conference, or `List` is about to tell its attempt (`Once`).
- **SpeakingProofs.** `MuteFollowsConference` is the same argument with numbered
  events in place of positions: `MuteInvariant` claims the last word (`Words`), and
  what holds without one (`Right`), of the roster and the events after
  `ignoreThrough`, and of a list's answer and those after its boundary. That the
  last of finitely many events exists, which the property asks for, is `LastExists`.
  `SpeechAlwaysEnds`: `Covering` says that who is shown speaking, or is about to be,
  still speaks or has the end of the speech behind, unless an end was lost, and then
  for a later beginning of speech again; that later means later needs `Ordered`, the
  order of the queue. `Connections` says how far the client is with the change of a
  connection, and `Farewell` that neither a list nor a join brings back who has left.
  The theorem has the two exceptions of the property, of which finding 4 is one.
  `SpeakingTypeCorrect`: nobody is shown muted or speaking who is not shown, nor
  both at once.
- **AmiClientProofs.** `FramingIsKept`: a fragment is the last packet on its
  socket. The strengthening says whose it is: a fragment belongs to a caller in
  `WriteTo` or its session is no longer usable.
  `AnswersAreWhole`: a packet has one place in its answer (`AnswerPlaces`). What is
  under way to a caller is in the order of these places and beyond what the caller
  has (`StreamInvariant`); nothing of a list is missing in between while its session
  is open (`Unbroken`); so what a caller holds is the beginning of its answer
  (`InOrder`), and who returns has all of it (`Whole`). `OutcomesReachTheStream`:
  no action takes the event of an Originate from the reader. `ReturnsAnswers` and
  `ClientTypeCorrect` follow from the same invariant.
- **AccountsProofs.** `SessionsAlwaysMatch`, `AdministratorAlwaysRemains`,
  `AccountsTypeCorrect`. The
  invariant is the types, the two properties and that whoever administers does so
  in a database with accounts; `Login` keeps it because its `INSERT` asks again for
  what `Read` has read, and a row that no longer matches writes nothing.
  `AccountsKeepAccess`: every step is a step of `AccountAccess` or a stutter.
  `RefusalsDoNotOutlast` counts the windows the limiter remembers, which are
  finitely many (`FewWindows`) for any set of addresses.
- **RoomServerProofs.** `AccessIsAlwaysHeld`: the strengthening follows a handler
  from `locked` through `authenticated` to `checked`, and says what each has
  established unless its account changed. `ServerInvariant` gives
  `ServerTypeCorrect` and `UnservedAreTold`: a handler that subscribed is a client
  or its channel is closed. `DeliveryInvariant` orders what a browser was given
  (`Given`: shown, then held, then queued, none of them decreasing, and for a client
  the last is the hub's) and what the service announced (`Announced`: a publication
  in progress is newer than the hub's last). From it follow
  `SubscribersAreUpToDate` and the action property `SnapshotsOnlyMoveForward`.

Only model-checked: the liveness properties (`CancelCompletes`,
`EveryCallResolves`, `RosterConverges`, `MuteConverges`, `DeletionCompletes`,
`RoomsBecomeReady`, `RegistryIsCleaned`, `ReaderMovesOn`, `DisconnectReleases`,
`EverySocketCatchesUp`, `RevokedSocketsClose`, `ClosedServerIsLeft`), which rest on
fairness and so on ENABLED, out of the prover's reach; and the four findings,
which are counterexamples.

## Not modelled

The start and stop of a room's runtime and the four list slots: a list that waits
for a slot holds `syncMu` of its room, which only delays it. The phone book and
settings (single transactions on one connection); migrations; parsing and encoding
of AMI packets and numbers (pure, unit tested); password hashing, validation,
cookies and the Origin check; wording and routing of HTTP; the browser; database
failures.

## Plan

In the order of what matters most:

1. *(done)* `CallModel`, `AsteriskLink`, `ConferenceService`: the calls and the
   roster. `RoomAccess`, `RoomLifecycle`: deletion, with its proofs.
   `AmiClient`, `RoomServer`: the transport on both sides, first theorems.
2. *(done)* The three sections of `List` as steps of their own; `CallBoard` and the
   refinement; `SpeakingState`; `AccountAccess`, `Accounts` and the composition with
   `RoomServer`; most invariants of `ConferenceService` proved.
3. *(done)* The fan-out of `RoomServer`, the answers of `AmiClient`, the roster, the
   mutes and the speech: every invariant and action property of the runs proved.
4. *(done)* The speaking indicator across a reconnect: what is proved of it, and
   what the run that expects a violation shows. Liveness of calls under faults.
5. Extend: the runtimes' start and stop with the four list slots; the browser's
   socket and REST fallback on top of `RoomServer`.
6. Prove: what the liveness properties rest on and a state invariant can say, such
   as that a wait always has somebody who can end it.
