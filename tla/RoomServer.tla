------------------------------ MODULE RoomServer ------------------------------
(***************************************************************************)
(* One room's web server: how the service's snapshots reach the browsers,  *)
(* and how access to them is checked.  internal/web/server.go and rooms.go *)
(* (the room's Server, its WebSocket handler and the pruning of servers),  *)
(* internal/hub/hub.go (the fan-out), and what the database answers about  *)
(* sessions and grants.  Accounts and sessions are AccountAccess, which    *)
(* Accounts implements; the room is as far as access depends on it.        *)
(*                                                                         *)
(* A snapshot is the number of changes it shows.  A browser carries one    *)
(* session cookie, opens one WebSocket and sends one command at a time.    *)
(* Manager.Admission is a read-write lock: a handler between its checks    *)
(* and their use holds it for reading, and what is done under the write    *)
(* lock is one step that waits until no handler holds it.                  *)
(***************************************************************************)
EXTENDS Integers, Sequences, FiniteSets

CONSTANTS
  Browsers,    \* sessions, each in a browser of its own
  Users,
  UserOf,      \* [Browsers -> Users]
  BufferSize,  \* hub.Config.BufferSize, 8 in the code
  MaxVersion,  \* bound: changes of the conference
  MaxChanges   \* bound: changes of accounts and grants, and sessions ended

ASSUME ServerAssumption ==
  /\ UserOf \in [Browsers -> Users]
  /\ BufferSize \in Nat \ {0} /\ MaxVersion \in Nat \ {0} /\ MaxChanges \in Nat

VARIABLES
  room,         \* the room's state, as far as access depends on it
  enabled, admins, granted,  \* the users for whom each holds
  logins,       \* browsers whose session is in the sessions table
  version,      \* changes of the conference so far
  unpublished,  \* changes whose notify has not begun
  publishing,   \* snapshots captured by notify and not yet fanned out
  server,       \* the room's Server: its subscription and its hub
  stopping,     \* the program is shutting down
  last,         \* Hub.last; 0 is nil
  clients,      \* Hub.clients
  queue,        \* the channel of each client
  ended,        \* browsers whose channel is closed
  at,           \* where each WebSocket handler is
  payload,      \* the snapshot it is about to write
  shown,        \* the snapshot it wrote last
  command,      \* where the command of each browser is
  changes,      \* bound
  unsettled     \* history: <<browser, "socket" or "command">> whose account or
                \* session changed since the handler last looked

vars == <<room, enabled, admins, granted, logins, version, unpublished,
          publishing, server, stopping, last, clients, queue, ended, at, payload,
          shown, command, changes, unsettled>>
access  == <<room, enabled, admins, granted, logins, changes>>
source  == <<version, unpublished, publishing>>
hub     == <<server, stopping, last, clients>>
sockets == <<queue, ended, at, payload, shown>>

----------------------------------------------------------------------------
(* What the database answers.                                              *)

\* auth.Store.Authenticate
Authenticated(b) == b \in logins /\ UserOf[b] \in enabled

\* rooms.Store.Allowed
Allowed(u) ==
  /\ u \in enabled /\ room # "deleted"
  /\ u \in admins \/ (room # "deleting" /\ u \in granted)

Valid(b) == Authenticated(b) /\ Allowed(UserOf[b])

InUse == {"locked", "authenticated", "checked"}
CommandReaders == {b \in Browsers : command[b] = "admitted"}
\* Handlers that hold Admission for reading.
Readers == {b \in Browsers : at[b] \in InUse \/ command[b] = "admitted"}

----------------------------------------------------------------------------
(* The conference service: Service.notify.                                 *)

Change ==
  /\ version < MaxVersion
  /\ version' = version + 1 /\ unpublished' = unpublished + 1
  /\ UNCHANGED <<access, publishing, hub, sockets, command, unsettled>>

CaptureUnlocked ==
  /\ unpublished > 0
  /\ unpublished' = unpublished - 1
  /\ publishing' = IF server = "open" THEN publishing \union {version}
                   ELSE publishing
  /\ UNCHANGED <<access, version, hub, sockets, command, unsettled>>

CaptureOrSkip ==
  /\ unpublished > 0
  /\ unpublished' = unpublished - 1
  /\ publishing' = IF server = "open" /\ publishing = {} THEN {version}
                   ELSE publishing
  /\ UNCHANGED <<access, version, hub, sockets, command, unsettled>>

\* pubMu is taken, the snapshot and the list of subscribers are captured.
Capture ==
  /\ unpublished > 0 /\ publishing = {}
  /\ unpublished' = unpublished - 1
  /\ publishing' = IF server = "open" THEN {version} ELSE {}
  /\ UNCHANGED <<access, version, hub, sockets, command, unsettled>>

FullLate(b) == Len(queue[b]) > BufferSize
Full(b) == Len(queue[b]) >= BufferSize

EvictSilently(s) ==
  /\ clients' = {b \in clients : ~Full(b)}
  /\ UNCHANGED ended
\* Hub.Broadcast never blocks: a client that is not keeping up is dropped.
Evict(s) ==
  /\ clients' = {b \in clients : ~Full(b)}
  /\ ended' = ended \union {b \in clients : Full(b)}

\* Server.publish, still under pubMu; a closed hub ignores it.
Broadcast(s) ==
  /\ s \in publishing /\ publishing' = publishing \ {s}
  /\ IF server = "closed"
     THEN UNCHANGED <<last, clients, ended, queue>>
     ELSE /\ last' = s
          /\ Evict(s)
          /\ queue' = [b \in Browsers |-> IF b \in clients /\ ~Full(b)
                                          THEN Append(queue[b], s) ELSE queue[b]]
  /\ UNCHANGED <<access, version, unpublished, server, stopping, at, payload,
                 shown, command, unsettled>>

----------------------------------------------------------------------------
(* Opening a WebSocket.                                                    *)

\* authMiddleware; httpSrv.Shutdown lets no new request in.
Request(b) ==
  /\ at[b] = "idle" /\ ~stopping /\ Authenticated(b)
  /\ at' = [at EXCEPT ![b] = "requested"]
  /\ UNCHANGED <<access, source, hub, queue, ended, payload, shown, command,
                 unsettled>>

\* handleRoomRequest up to child.handleWebSocket, all of it under Admission.
\* roomServer makes the room's Server on first use, and Service.Subscribe
\* delivers the current snapshot to its hub under pubMu.
Enter(b) ==
  /\ at[b] = "requested"
  /\ IF ~Allowed(UserOf[b])
     THEN at' = [at EXCEPT ![b] = "idle"] /\ UNCHANGED <<server, last>>
     ELSE /\ at' = [at EXCEPT ![b] = "accepted"]
          /\ IF server = "none"
             THEN publishing = {} /\ server' = "open" /\ last' = version
             ELSE UNCHANGED <<server, last>>
  /\ UNCHANGED <<access, source, stopping, clients, queue, ended, payload, shown,
                 command, unsettled>>

RegisterWithoutReplay(b) ==
  /\ clients' = clients \union {b}
  /\ queue' = [queue EXCEPT ![b] = <<>>]
  /\ UNCHANGED ended
Register(b) ==
  /\ clients' = clients \union {b}
  /\ queue' = [queue EXCEPT ![b] = <<last>>]
  /\ UNCHANGED ended

\* Hub.Subscribe replays the last payload; a closed hub hands out a closed
\* channel.
Join(b) ==
  IF server # "closed" THEN Register(b)
  ELSE /\ ended' = ended \union {b}
       /\ queue' = [queue EXCEPT ![b] = <<>>]
       /\ UNCHANGED clients

Subscribe(b) ==
  /\ at[b] = "accepted"
  /\ Join(b)
  /\ at' = [at EXCEPT ![b] = "loop"] /\ shown' = [shown EXCEPT ![b] = 0]
  /\ UNCHANGED <<access, source, server, stopping, last, payload, command,
                 unsettled>>

----------------------------------------------------------------------------
(* The loop of handleWebSocket.                                            *)

Goto(b, pc) == at' = [at EXCEPT ![b] = pc]
idleVars == <<access, source, hub, queue, ended, shown, command>>

\* A payload is received, and Admission taken for reading.
Receive(b) ==
  /\ at[b] = "loop" /\ queue[b] # <<>>
  /\ payload' = [payload EXCEPT ![b] = Head(queue[b])]
  /\ queue' = [queue EXCEPT ![b] = Tail(@)]
  /\ Goto(b, "locked")
  /\ unsettled' = unsettled \ {<<b, "socket">>}
  /\ UNCHANGED <<access, source, hub, ended, shown, command>>

\* validSession, under Admission: the session, then the room.
Authenticate(b) ==
  /\ at[b] = "locked"
  /\ Goto(b, IF Authenticated(b) THEN "authenticated" ELSE "closing")
  /\ UNCHANGED <<idleVars, payload, unsettled>>

CheckAccess(b) ==
  /\ at[b] = "authenticated"
  /\ Goto(b, IF Allowed(UserOf[b]) THEN "checked" ELSE "closing")
  /\ UNCHANGED <<idleVars, payload, unsettled>>

Write(b) ==
  /\ at[b] = "checked"
  /\ Goto(b, "loop")
  /\ shown' = [shown EXCEPT ![b] = payload[b]]
  /\ payload' = [payload EXCEPT ![b] = 0]
  /\ UNCHANGED <<access, source, hub, queue, ended, command, unsettled>>

\* The write fails or lasts longer than WriteTimeout.
WriteFails(b) ==
  /\ at[b] = "checked"
  /\ Goto(b, "closing")
  /\ UNCHANGED <<idleVars, payload, unsettled>>

TickAuthenticates(b) ==
  /\ at[b] = "loop" /\ ~Authenticated(b)
  /\ Goto(b, "closing")
  /\ UNCHANGED <<idleVars, payload, unsettled>>
\* sessionCheck: once a second, without a payload and without Admission.
Tick(b) ==
  /\ at[b] = "loop" /\ ~Valid(b)
  /\ Goto(b, "closing")
  /\ UNCHANGED <<idleVars, payload, unsettled>>

\* The channel is closed and drained: evicted, or the hub is closed.
ChannelEnds(b) ==
  /\ at[b] = "loop" /\ queue[b] = <<>> /\ b \in ended
  /\ Goto(b, "closing")
  /\ UNCHANGED <<idleVars, payload, unsettled>>

\* The browser goes away, the handshake or a ping fails.
Leave(b) ==
  /\ at[b] \in {"accepted", "loop"}
  /\ Goto(b, "closing")
  /\ UNCHANGED <<idleVars, payload, unsettled>>

\* The handler returns: Hub.remove.
Unsubscribe(b) ==
  /\ at[b] = "closing"
  /\ Goto(b, "idle")
  /\ clients' = clients \ {b} /\ ended' = ended \ {b}
  /\ queue' = [queue EXCEPT ![b] = <<>>]
  /\ payload' = [payload EXCEPT ![b] = 0] /\ shown' = [shown EXCEPT ![b] = 0]
  /\ UNCHANGED <<access, source, server, stopping, last, command, unsettled>>

----------------------------------------------------------------------------
(* Commands: invite, kick, mute, cancel, retry.                            *)

Send(b) ==
  /\ command[b] = "none" /\ ~stopping /\ Authenticated(b)
  /\ command' = [command EXCEPT ![b] = "authenticated"]
  /\ UNCHANGED <<access, source, hub, sockets, unsettled>>

\* handleRoomRequest holds Admission until the command has returned.
Admit(b) ==
  /\ command[b] = "authenticated"
  /\ command' = [command EXCEPT ![b] = IF Allowed(UserOf[b]) THEN "admitted"
                                       ELSE "none"]
  /\ unsettled' = unsettled \ {<<b, "command">>}
  /\ UNCHANGED <<access, source, hub, sockets>>

Finish(b) ==
  /\ command[b] = "admitted"
  /\ command' = [command EXCEPT ![b] = "none"]
  /\ UNCHANGED <<access, source, hub, sockets, unsettled>>

----------------------------------------------------------------------------
(* Accounts, grants, deletion and shutdown.                                *)

Unsettle(bs) ==
  unsettled' = unsettled \union
    {<<b, "socket">> : b \in {c \in bs : at[c] \in InUse}} \union
    {<<b, "command">> : b \in {c \in bs : command[c] = "admitted"}}

elsewhere == <<source, hub, sockets, command>>

Accounts == INSTANCE AccountAccess WITH Sessions <- Browsers, OwnerOf <- UserOf

\* A socket keeps the cookie it was opened with, so a browser that signs in again
\* has no socket or command left from before.
Login(b) ==
  /\ at[b] = "idle" /\ command[b] = "none"
  /\ Accounts!SignIn(b)
  /\ UNCHANGED <<room, granted, changes, elsewhere, unsettled>>

\* Nothing that changes accounts or sessions takes Admission.
Logout(b) ==
  /\ changes < MaxChanges /\ changes' = changes + 1
  /\ Accounts!SignOut(b)
  /\ Unsettle({b})
  /\ UNCHANGED <<room, granted, elsewhere>>

UpdateUser(u) ==
  /\ changes < MaxChanges /\ changes' = changes + 1
  /\ Accounts!Change(u)
  /\ Unsettle({b \in Browsers : UserOf[b] = u})
  /\ UNCHANGED <<room, granted, elsewhere>>

\* handleAdminRooms: rooms.Store.SetGrants under Admission.
SetGrants(us) ==
  /\ Readers = {} /\ room = "open" /\ changes < MaxChanges
  /\ granted' = us /\ changes' = changes + 1
  /\ UNCHANGED <<room, enabled, admins, logins, elsewhere, unsettled>>

\* Manager.Delete and Store.Result, both under Admission; see RoomLifecycle.
DeleteRoom ==
  /\ Readers = {}
  /\ \/ room = "open" /\ room' = "deleting" /\ UNCHANGED granted
     \/ room = "deleting" /\ room' = "deleted" /\ granted' = {}
  /\ UNCHANGED <<enabled, admins, logins, changes, elsewhere, unsettled>>

Stop ==
  /\ ~stopping /\ stopping' = TRUE
  /\ UNCHANGED <<access, source, server, last, clients, sockets, command, unsettled>>

\* Server.Close, called by pruneRooms or at the end of run: first the
\* subscription to the service, then the hub.
EndSubscription ==
  /\ server = "open" /\ (room = "deleted" \/ stopping)
  /\ server' = "unsubscribed"
  /\ UNCHANGED <<access, source, stopping, last, clients, sockets, command,
                 unsettled>>

CloseHub ==
  /\ server = "unsubscribed"
  /\ server' = "closed"
  /\ clients' = {} /\ ended' = ended \union clients
  /\ UNCHANGED <<access, source, stopping, last, queue, at, payload, shown,
                 command, unsettled>>

----------------------------------------------------------------------------
Init ==
  /\ room = "open" /\ enabled = Users /\ granted = Users
  /\ admins \in SUBSET Users
  /\ logins = Browsers
  /\ version = 1 /\ unpublished = 0 /\ publishing = {}
  /\ server = "none" /\ stopping = FALSE /\ last = 0 /\ clients = {}
  /\ queue = [b \in Browsers |-> <<>>] /\ ended = {}
  /\ at = [b \in Browsers |-> "idle"]
  /\ payload = [b \in Browsers |-> 0] /\ shown = [b \in Browsers |-> 0]
  /\ command = [b \in Browsers |-> "none"]
  /\ changes = 0 /\ unsettled = {}

Publication == Capture \/ \E s \in publishing : Broadcast(s)
Handler(b) ==
  \/ Enter(b) \/ Subscribe(b) \/ Receive(b) \/ Authenticate(b) \/ CheckAccess(b)
  \/ Write(b) \/ WriteFails(b) \/ Tick(b) \/ ChannelEnds(b) \/ Unsubscribe(b)
Command(b) == Send(b) \/ Admit(b) \/ Finish(b)
Closing == EndSubscription \/ CloseHub

Next ==
  \/ Change \/ Publication \/ Closing \/ Stop \/ DeleteRoom
  \/ \E b \in Browsers : Request(b) \/ Handler(b) \/ Leave(b) \/ Command(b)
                           \/ Login(b) \/ Logout(b)
  \/ \E u \in Users : UpdateUser(u)
  \/ \E us \in SUBSET Users : SetGrants(us)

Spec == Init /\ [][Next]_vars

\* Goroutines run, a ticker ticks, and WriteTimeout bounds a write.
FairSpec ==
  /\ Spec
  /\ WF_vars(Publication) /\ WF_vars(Closing)
  /\ \A b \in Browsers : WF_vars(Handler(b))

----------------------------------------------------------------------------
(* Properties.                                                             *)

Places == {"idle", "requested", "accepted", "loop", "closing"} \union InUse
Open == {"accepted", "loop"} \union InUse

\* The shape of the state; a hub has clients only while it is open, and only
\* handlers that have subscribed.
TypeOK ==
  /\ room \in {"open", "deleting", "deleted"}
  /\ enabled \subseteq Users /\ admins \subseteq Users /\ granted \subseteq Users
  /\ logins \subseteq Browsers
  /\ version \in 1..MaxVersion /\ unpublished \in 0..MaxVersion
  /\ publishing \subseteq 1..MaxVersion /\ Cardinality(publishing) <= 1
  /\ server \in {"none", "open", "unsubscribed", "closed"} /\ stopping \in BOOLEAN
  /\ last \in 0..MaxVersion
  /\ clients \subseteq {b \in Browsers : at[b] \in {"loop", "closing"} \union InUse}
  /\ server \in {"none", "closed"} => clients = {}
  /\ queue \in [Browsers -> Seq(1..MaxVersion)]
  /\ \A b \in Browsers : Len(queue[b]) <= BufferSize
  /\ ended \subseteq Browsers \ clients
  /\ at \in [Browsers -> Places]
  /\ payload \in [Browsers -> 0..MaxVersion] /\ shown \in [Browsers -> 0..MaxVersion]
  /\ command \in [Browsers -> {"none", "authenticated", "admitted"}]
  /\ changes \in 0..MaxChanges
  /\ unsettled \subseteq Browsers \X {"socket", "command"}

\* A snapshot is written, and a command runs, only for a user who has access to
\* the room at that moment, not only when it was checked: grants and the room
\* cannot change in between (Manager.Admission).  The exception is a change of
\* the account itself or the end of its session, which do not take the lock.
AccessIsHeld ==
  \A b \in Browsers :
    /\ at[b] = "checked" /\ <<b, "socket">> \notin unsettled => Valid(b)
    /\ command[b] = "admitted" /\ <<b, "command">> \notin unsettled
         => Allowed(UserOf[b])

\* On one socket time does not go backwards: no snapshot is written after a
\* later one (pubMu across the capture and the fan-out, and the hub's lock).
SnapshotsMoveForward ==
  [][\A b \in Browsers : at[b] = "checked" /\ at'[b] = "loop"
                           => shown'[b] >= shown[b]]_vars

Newest(b) == CASE queue[b] # <<>> -> queue[b][Len(queue[b])]
               [] OTHER -> IF payload[b] # 0 THEN payload[b] ELSE shown[b]

\* Between publications, the newest snapshot a subscriber has written, holds or
\* has queued is the hub's last, and that shows every change that was announced:
\* none is skipped, whatever the queue (Subscribe's replay and Broadcast).
SubscribersHaveTheLatest ==
  /\ \A b \in clients : at[b] # "closing" => Newest(b) = last
  /\ server = "open" /\ publishing = {} /\ unpublished = 0 => last = version

\* A socket that the hub no longer serves has been told so: its channel is
\* closed, and it will not wait for ever (Hub.Broadcast, Hub.Close).
UnservedIsTold ==
  \A b \in Browsers : at[b] \in {"loop"} \union InUse /\ b \notin clients
                        => b \in ended

\* Every open socket catches up with the conference, or is closed.
EverySocketCatchesUp ==
  \A b \in Browsers :
    (at[b] \in Open) ~> (shown[b] = version \/ at[b] \notin Open)

\* Losing the session or the access to the room closes an open socket, even when
\* the conference never changes again (sessionCheck).
RevokedSocketsClose ==
  \A b \in Browsers : (at[b] \in Open /\ ~Valid(b)) ~> (at[b] \notin Open \/ Valid(b))

\* Closing the room's server ends every socket it had, and every socket that is
\* being opened on it.
ClosedServerIsLeft ==
  \A b \in Browsers : (server = "closed" /\ at[b] \in Open) ~> at[b] \notin Open
=============================================================================
