----------------------------- MODULE RoomLifecycle -----------------------------
(***************************************************************************)
(* The life of a conference room: the catalogue in SQLite (rooms.Store),   *)
(* the coordinator that reconciles it with Asterisk (conference.Manager),  *)
(* the admission registry in Asterisk's database (ami.RoomRegistry) and    *)
(* the dialplan every channel runs before it enters a bridge               *)
(* (deploy/asterisk/extensions.conf).                                      *)
(*                                                                         *)
(* A room is named by its bridge, which is never reused; numbers are.  An  *)
(* action of the manager that waits for Asterisk is one step, taken when   *)
(* Asterisk executes it; one that fails is StepFails or DeleteFails, and a *)
(* write whose outcome is unknown stays in "late".  Admission is modelled  *)
(* by its holders.  Outgoing calls are what ConferenceService shows of     *)
(* them: listed while they may be alive.                                   *)
(***************************************************************************)
EXTENDS Integers, FiniteSets

CONSTANTS
  Rooms,        \* rooms.Room.Bridge
  Foreign,      \* bridges an earlier installation left in the registry
  NoRoom,
  Numbers,
  NumberOf,     \* the number each room is created with
  Channels,     \* channels that may enter a conference
  CallRoom,     \* the room an outgoing call is made for; NoRoom: dialled in
  Dialled,      \* the extension the channel runs westbridge-join with
  MaxFaults     \* bound: failures of the link, of an action and of the process

ASSUME RoomAssumption ==
  /\ NoRoom \notin Rooms /\ Foreign \subseteq Rooms
  /\ NumberOf \in [Rooms -> Numbers]
  /\ CallRoom \in [Channels -> (Rooms \ Foreign) \cup {NoRoom}]
  /\ Dialled \in [Channels -> Numbers]
  /\ \A k \in Channels : CallRoom[k] # NoRoom => Dialled[k] = NumberOf[CallRoom[k]]
  /\ MaxFaults \in Nat

VARIABLES
  state,        \* rooms.state, durable; "none": not created yet
  reg,          \* the registry: the room each number leads to
  late,         \* a write Asterisk may still execute: its reply was given up
  link,         \* the AMI session and what Manager has been told of it
  admission,    \* who holds Manager.Admission for writing
  inviting,     \* calls whose handler holds it for reading
  listed,       \* calls Service.List reports and has not declared failed
  verified,     \* managedRoom.verified
  moved,        \* Manager.epoch changed since the current step read it
  step,         \* where reconcile is
  room,         \* the room it works on
  todo,         \* rooms, or orphan entries, still to be visited in this pass
  del, delRoom, \* the deletion request: where it is, and its room
  at,           \* the dialplan step of each channel
  target,       \* WB_TARGET of each channel
  faults

roomVars    == <<state, reg, late, link>>
managerVars == <<admission, inviting, listed, verified, moved, step, room, todo,
                 del, delRoom>>
channelVars == <<at, target>>
vars == <<roomVars, managerVars, channelVars, faults>>

Live      == {"pending", "ready", "deleting"}
States    == Live \cup {"none", "deleted"}
Writes    == {"put", "del"} \X Rooms
Disabling == {"get", "del", "check"}
Ensuring  == {"version", "put", "verify"}
Emptying  == {"count", "list"}
Outcomes  == {"registered", "kept", "empty", "failed"}
Steps     == {"idle", "entries", "orphans", "rooms"}
               \cup Disabling \cup Ensuring \cup Emptying \cup Outcomes
\* originated: the dial leg has not run yet; leg: counted, before its gate;
\* dialed: past it; read: WB_TARGET is read; counted: in the group, before the
\* final gate; admitted: past it.
ChannelSteps == {"none", "originated", "leg", "dialed", "read", "counted",
                 "admitted", "inside"}

TypeOK ==
  /\ state \in [Rooms -> States]
  /\ reg \in [Numbers -> Rooms \cup {NoRoom}]
  /\ late \subseteq Writes
  /\ link \in {"up", "lost", "down", "back"}
  /\ admission \in {"free", "clean", "reconcile", "delete"}
  /\ inviting \subseteq Channels /\ listed \subseteq Channels
  /\ verified \subseteq Rooms
  /\ moved \in BOOLEAN
  /\ step \in Steps
  /\ room \in Rooms \cup {NoRoom}
  /\ todo \subseteq Rooms
  /\ del \in {"idle", "count", "list", "commit"}
  /\ delRoom \in Rooms \cup {NoRoom}
  /\ at \in [Channels -> ChannelSteps]
  /\ target \in [Channels -> Rooms \cup {NoRoom}]
  /\ faults \in 0..MaxFaults

Init ==
  /\ state = [r \in Rooms |-> "none"]
  /\ reg \in [Numbers -> Foreign \cup {NoRoom}]
  /\ \A n \in Numbers : reg[n] # NoRoom => NumberOf[reg[n]] = n
  /\ late = {} /\ link = "down"
  /\ admission = "free" /\ inviting = {} /\ listed = {} /\ verified = {}
  /\ moved = FALSE /\ step = "idle" /\ room = NoRoom /\ todo = {}
  /\ del = "idle" /\ delRoom = NoRoom
  /\ at = [k \in Channels |-> "none"] /\ target = [k \in Channels |-> NoRoom]
  /\ faults = 0

------------------------------------------------------------------------------
(* What several operations use.                                             *)

\* Client.Connected(): set before the manager is told, cleared before too.
Connected == link \in {"up", "back"}

Registered(r) == reg[NumberOf[r]] = r

\* Manager.Ready.
Ready(r) == Connected /\ state[r] = "ready" /\ r \in verified

\* Asterisk runs the actions of a session in order.
Answered == Connected /\ late = {}

Executed(w) == [reg EXCEPT ![NumberOf[w[2]]] = IF w[1] = "put" THEN w[2] ELSE NoRoom]

\* Plausible slip in the dialplan: only those who joined are counted.
CountedInside(r) == {k \in Channels : at[k] = "inside" /\ target[k] = r}

\* GROUP_COUNT: a channel counts from Set(GROUP) on, a call for its dial leg too.
Counted(r) ==
  {k \in Channels : \/ target[k] = r /\ at[k] \in {"counted", "admitted", "inside"}
                    \/ CallRoom[k] = r /\ at[k] \notin {"none", "originated"}}

Participants(r)  == {k \in Channels : at[k] = "inside" /\ target[k] = r}
OpenCalls(r)     == {k \in listed : CallRoom[k] = r}

------------------------------------------------------------------------------
(* Administrators and users.                                                *)

\* A number is taken while a room that is not deleted has it.
Create(r) ==
  /\ admission = "free" /\ inviting = {}
  /\ r \notin Foreign /\ state[r] = "none"
  /\ \A q \in Rooms : NumberOf[q] = NumberOf[r] => state[q] \notin Live
  /\ state' = [state EXCEPT ![r] = "pending"]
  /\ UNCHANGED <<reg, late, link, managerVars, channelVars, faults>>

\* A request to call is admitted under the read lock, which is held until the
\* Originate is answered.
Admit(k) ==
  /\ admission = "free" /\ k \notin inviting \cup listed
  /\ CallRoom[k] # NoRoom /\ Ready(CallRoom[k]) /\ at[k] = "none"
  /\ inviting' = inviting \cup {k}
  /\ UNCHANGED <<roomVars, admission, listed, verified, moved, step, room, todo,
                 del, delRoom, channelVars, faults>>

\* The call is listed before it is sent.
Invite(k) ==
  /\ k \in inviting \ listed /\ at[k] = "none" /\ Connected
  /\ listed' = listed \cup {k}
  /\ at' = [at EXCEPT ![k] = "originated"]
  /\ UNCHANGED <<roomVars, admission, inviting, verified, moved, step, room, todo,
                 del, delRoom, target, faults>>

InviteEnds(k) ==
  /\ k \in inviting /\ inviting' = inviting \ {k}
  /\ UNCHANGED <<roomVars, admission, listed, verified, moved, step, room, todo,
                 del, delRoom, channelVars, faults>>

\* The service lists a call while its channel may exist.  One cancelled as its
\* channel was allocated may leave the list alive (CancelledCallIsOver).
Unlist(k) ==
  /\ k \in listed \ inviting /\ at[k] \in {"none", "originated"}
  /\ listed' = listed \ {k}
  /\ UNCHANGED <<roomVars, admission, inviting, verified, moved, step, room, todo,
                 del, delRoom, channelVars, faults>>

\* Plausible slip: deletion does not wait for the commands in progress.
DeleteStartUnlocked(r) ==
  /\ admission = "free"
  /\ state[r] \in {"pending", "ready"} /\ Connected
  /\ admission' = "delete" /\ del' = "count" /\ delRoom' = r
  /\ UNCHANGED <<roomVars, inviting, listed, verified, moved, step, room, todo,
                 channelVars, faults>>

\* Manager.Delete under the write lock.
DeleteStart(r) ==
  /\ admission = "free" /\ inviting = {}
  /\ state[r] \in {"pending", "ready"} /\ Connected
  /\ admission' = "delete" /\ del' = "count" /\ delRoom' = r
  /\ UNCHANGED <<roomVars, inviting, listed, verified, moved, step, room, todo,
                 channelVars, faults>>

DeleteGoes(to) ==
  /\ del' = to
  /\ IF to = "idle" THEN admission' = "free" /\ delRoom' = NoRoom
     ELSE UNCHANGED <<admission, delRoom>>
  /\ UNCHANGED <<reg, late, link, inviting, listed, verified, moved, step, room,
                 todo, channelVars>>

\* A busy room is refused: 409.
DeleteCount ==
  /\ del = "count" /\ Answered
  /\ DeleteGoes(IF Counted(delRoom) # {} THEN "idle" ELSE "list")
  /\ UNCHANGED <<state, faults>>

DeleteList ==
  /\ del = "list" /\ Answered
  /\ DeleteGoes(IF Participants(delRoom) \cup OpenCalls(delRoom) # {}
                THEN "idle" ELSE "commit")
  /\ UNCHANGED <<state, faults>>

DeleteCommit ==
  /\ del = "commit"
  /\ state' = [state EXCEPT ![delRoom] = "deleting"]
  /\ DeleteGoes("idle") /\ UNCHANGED faults

DeleteFails ==
  /\ del \in {"count", "list"}
  /\ IF Connected THEN faults < MaxFaults /\ faults' = faults + 1 ELSE UNCHANGED faults
  /\ DeleteGoes("idle") /\ UNCHANGED state

------------------------------------------------------------------------------
(* Manager.reconcile.  A pass cleans the registry, then visits every room.   *)

ReconcileUnchanged == UNCHANGED <<inviting, listed, del, delRoom, channelVars>>

\* cleanRegistry, under the write lock.
CleanStart ==
  /\ step = "idle" /\ Connected /\ admission = "free" /\ inviting = {}
  /\ admission' = "clean" /\ step' = "entries"
  /\ UNCHANGED <<roomVars, verified, moved, room, todo, faults>> /\ ReconcileUnchanged

\* Plausible slip: only entries of rooms in the catalogue are looked at.
ScanKnown ==
  /\ step = "entries" /\ Answered
  /\ todo' = {r \in Rooms : Registered(r) /\ state[r] = "deleted"}
  /\ step' = "orphans"
  /\ UNCHANGED <<roomVars, admission, verified, moved, room, faults>> /\ ReconcileUnchanged

\* Plausible slip: an entry belongs to a room only when the room is ready.
ScanUnready ==
  /\ step = "entries" /\ Answered
  /\ todo' = {r \in Rooms : /\ Registered(r)
                            /\ \A q \in Rooms : NumberOf[q] = NumberOf[r] => state[q] # "ready"}
  /\ step' = "orphans"
  /\ UNCHANGED <<roomVars, admission, verified, moved, room, faults>> /\ ReconcileUnchanged

\* The entries whose number belongs to no room that is not deleted.
Scan ==
  /\ step = "entries" /\ Answered
  /\ todo' = {r \in Rooms : /\ Registered(r)
                            /\ \A q \in Rooms : NumberOf[q] = NumberOf[r] => state[q] \notin Live}
  /\ step' = "orphans"
  /\ UNCHANGED <<roomVars, admission, verified, moved, room, faults>> /\ ReconcileUnchanged

NextOrphan(r) ==
  /\ step = "orphans" /\ r \in todo
  /\ todo' = todo \ {r} /\ room' = r /\ step' = "get"
  /\ UNCHANGED <<roomVars, admission, verified, moved, faults>> /\ ReconcileUnchanged

\* Plausible slip: a room that is ready needs no visit.
CleanEndSkipsReady ==
  /\ step = "orphans" /\ todo = {}
  /\ admission' = "free" /\ step' = "rooms" /\ room' = NoRoom
  /\ todo' = {r \in Rooms : state[r] \notin {"none", "ready"}}
  /\ UNCHANGED <<roomVars, verified, moved, faults>> /\ ReconcileUnchanged

\* The lock is released, and the catalogue is read: All() includes tombstones.
CleanEnd ==
  /\ step = "orphans" /\ todo = {}
  /\ admission' = "free" /\ step' = "rooms" /\ room' = NoRoom
  /\ todo' = {r \in Rooms : state[r] # "none"}
  /\ UNCHANGED <<roomVars, verified, moved, faults>> /\ ReconcileUnchanged

\* Plausible slip: a room being deleted is provisioned like any other.
TakeRoomReopens(r) ==
  /\ step = "rooms" /\ r \in todo /\ Connected
  /\ admission = "free" /\ inviting = {}
  /\ admission' = "reconcile" /\ room' = r /\ todo' = todo \ {r} /\ moved' = FALSE
  /\ step' = IF state[r] = "deleted" THEN "get" ELSE "version"
  /\ UNCHANGED <<roomVars, verified, faults>> /\ ReconcileUnchanged

\* The room as it is now, under the lock, and the epoch the result is for.
TakeRoom(r) ==
  /\ step = "rooms" /\ r \in todo /\ Connected
  /\ admission = "free" /\ inviting = {}
  /\ admission' = "reconcile" /\ room' = r /\ todo' = todo \ {r} /\ moved' = FALSE
  /\ step' = IF state[r] \in {"deleting", "deleted"} THEN "get" ELSE "version"
  /\ UNCHANGED <<roomVars, verified, faults>> /\ ReconcileUnchanged

SkipRoom(r) ==
  /\ step = "rooms" /\ r \in todo /\ ~Connected
  /\ todo' = todo \ {r}
  /\ UNCHANGED <<roomVars, admission, verified, moved, step, room, faults>>
  /\ ReconcileUnchanged

PassEnd ==
  /\ step = "rooms" /\ todo = {} /\ step' = "idle"
  /\ UNCHANGED <<roomVars, admission, verified, moved, room, todo, faults>>
  /\ ReconcileUnchanged

\* An action of the current operation is answered, and the operation goes on.
Acts(from, to) ==
  /\ step = from /\ Answered /\ step' = to
  /\ UNCHANGED <<state, late, link, admission, verified, moved, room, todo, faults>>
  /\ ReconcileUnchanged

------------------------------------------------------------------------------
(* RoomRegistry.Ensure.                                                      *)

Version == Acts("version", "put") /\ UNCHANGED reg
Put     == Acts("put", "verify") /\ reg' = Executed(<<"put", room>>)
Verify  == /\ Acts("verify", IF Registered(room) THEN "registered" ELSE "failed")
           /\ UNCHANGED reg

------------------------------------------------------------------------------
(* RoomRegistry.Disable, for an orphan or a room, and what follows it.       *)

Goes(outcome) == IF admission = "clean" THEN "orphans" ELSE outcome
Disabled == Goes(IF state[room] = "deleting" THEN "count" ELSE "kept")

\* A later room may have the number.
Get == Acts("get", IF Registered(room) THEN "del" ELSE Disabled) /\ UNCHANGED reg

\* DBDel names the number only.
Delete == Acts("del", "check") /\ reg' = Executed(<<"del", room>>)

\* Plausible slip: DBDel is believed and not read back.
CheckNothing == Acts("check", Disabled) /\ UNCHANGED reg

Check == /\ Acts("check", IF reg[NumberOf[room]] = NoRoom THEN Disabled ELSE Goes("failed"))
         /\ UNCHANGED reg

\* Manager.busy, for a room that is being deleted.
Count == Acts("count", IF Counted(room) # {} THEN "kept" ELSE "list") /\ UNCHANGED reg
List  == /\ Acts("list", IF Participants(room) \cup OpenCalls(room) # {} THEN "kept" ELSE "empty")
         /\ UNCHANGED reg

------------------------------------------------------------------------------
(* How an operation ends.                                                    *)

InFlight == IF step \in {"put", "del"} THEN {<<step, room>>} ELSE {}

\* An action that is rejected, given up or not sent.  The write may have been
\* sent, and Disable reads back whatever DBDel answered.
StepFails ==
  /\ step \in {"entries"} \cup Disabling \cup Ensuring \cup Emptying
  /\ IF Connected
     THEN /\ faults < MaxFaults /\ faults' = faults + 1
          /\ late' \in {late, late \cup InFlight}
     ELSE UNCHANGED <<late, faults>>
  /\ step' = IF step = "del" THEN "check" ELSE Goes("failed")
  /\ UNCHANGED <<state, reg, link, admission, verified, moved, room, todo>>
  /\ ReconcileUnchanged

\* The state an outcome leads to: Store.Result after an error keeps the state,
\* except that a room is not ready any more.
NewState ==
  IF step = "registered" THEN "ready"
  ELSE IF step = "empty" THEN "deleted"
  ELSE IF step = "failed" /\ state[room] = "ready" THEN "pending"
  ELSE state[room]

\* Plausible slip: a connection lost and restored during the operation is not
\* noticed.
StillConnected == Connected

SameSession == Connected /\ ~moved

SaveResult ==
  /\ step \in Outcomes
  /\ verified' = IF step # "failed" /\ NewState = "ready" /\ SameSession
                 THEN verified \cup {room} ELSE verified \ {room}
  /\ state' = [state EXCEPT ![room] = NewState]
  /\ admission' = "free" /\ step' = "rooms" /\ room' = NoRoom
  /\ UNCHANGED <<reg, late, link, moved, todo, faults>> /\ ReconcileUnchanged

Reconciling ==
  \/ CleanStart \/ Scan \/ (\E r \in Rooms : NextOrphan(r)) \/ CleanEnd
  \/ (\E r \in Rooms : TakeRoom(r) \/ SkipRoom(r)) \/ PassEnd
  \/ Version \/ Put \/ Verify \/ Get \/ Delete \/ Check \/ Count \/ List
  \/ StepFails \/ SaveResult

------------------------------------------------------------------------------
(* The link, and the process.                                                *)

LinkUnchanged == UNCHANGED <<state, admission, inviting, listed, step, room, todo,
                             del, delRoom, channelVars>>

\* The write in flight may have reached Asterisk.
LinkLost ==
  /\ link \in {"up", "back"} /\ faults < MaxFaults
  /\ link' = "lost" /\ faults' = faults + 1
  /\ late' \in {late, late \cup InFlight}
  /\ UNCHANGED <<reg, verified, moved>> /\ LinkUnchanged

\* OnAMIStateChange.
Told(from, to) ==
  /\ link = from /\ link' = to
  /\ verified' = {} /\ moved' = TRUE
  /\ UNCHANGED <<reg, late, faults>> /\ LinkUnchanged

ToldDown == Told("lost", "down")
ToldUp   == Told("back", "up")

\* By then Asterisk has read all it will ever read of the previous session.
LinkRestored ==
  /\ link = "down" /\ late = {} /\ link' = "back"
  /\ UNCHANGED <<reg, late, verified, moved, faults>> /\ LinkUnchanged

LateExecutes(w) ==
  /\ w \in late /\ late' = late \ {w} /\ reg' = Executed(w)
  /\ UNCHANGED <<link, verified, moved, faults>> /\ LinkUnchanged

LateDropped ==
  /\ ~Connected /\ late # {} /\ late' = {}
  /\ UNCHANGED <<reg, link, verified, moved, faults>> /\ LinkUnchanged

\* Asterisk comes back without its database entry.
EntryLost(n) ==
  /\ link = "down" /\ reg[n] # NoRoom /\ faults < MaxFaults
  /\ reg' = [reg EXCEPT ![n] = NoRoom] /\ faults' = faults + 1
  /\ UNCHANGED <<late, link, verified, moved>> /\ LinkUnchanged

\* Only the catalogue, the registry and the channels survive.
Restart ==
  /\ faults < MaxFaults /\ faults' = faults + 1
  /\ late' \in {late, late \cup InFlight}
  /\ link' = "down"
  /\ admission' = "free" /\ inviting' = {} /\ listed' = {} /\ verified' = {}
  /\ moved' = FALSE /\ step' = "idle" /\ room' = NoRoom /\ todo' = {}
  /\ del' = "idle" /\ delRoom' = NoRoom
  /\ UNCHANGED <<state, reg, channelVars>>

------------------------------------------------------------------------------
(* The dialplan.                                                             *)

ChannelUnchanged == UNCHANGED <<roomVars, managerVars, faults>>

Moves(k, from, to) == /\ at[k] = from /\ at' = [at EXCEPT ![k] = to]
                      /\ ChannelUnchanged

\* Hangup: the channel leaves every group.
HangsUp(k) ==
  /\ at[k] # "none"
  /\ at' = [at EXCEPT ![k] = "none"] /\ target' = [target EXCEPT ![k] = NoRoom]
  /\ ChannelUnchanged

\* westbridge-dial: the group first, then the gate.
CountsLeg(k) == Moves(k, "originated", "leg") /\ UNCHANGED target
PassesLeg(k) == /\ reg[Dialled[k]] = CallRoom[k]
                /\ Moves(k, "leg", "dialed") /\ UNCHANGED target

\* westbridge-join reads where its number leads: a caller, or the call that was
\* answered.
ReadsTarget(k) ==
  /\ reg[Dialled[k]] # NoRoom
  /\ Moves(k, IF CallRoom[k] = NoRoom THEN "none" ELSE "dialed", "read")
  /\ target' = [target EXCEPT ![k] = reg[Dialled[k]]]

Counts(k) == Moves(k, "read", "counted") /\ UNCHANGED target

\* Plausible slip in the dialplan: the gate is not checked again once counted.
PassesUnchecked(k) ==
  /\ CallRoom[k] \in {NoRoom, target[k]}
  /\ Moves(k, "counted", "admitted") /\ UNCHANGED target

\* Counted before the final check: after DBDel a channel either is counted or
\* fails it.
Passes(k) ==
  /\ reg[Dialled[k]] = target[k] /\ CallRoom[k] \in {NoRoom, target[k]}
  /\ Moves(k, "counted", "admitted") /\ UNCHANGED target

Enters(k) == Moves(k, "admitted", "inside") /\ UNCHANGED target

Dialplan(k) == \/ HangsUp(k) \/ CountsLeg(k) \/ PassesLeg(k) \/ ReadsTarget(k)
               \/ Counts(k) \/ Passes(k) \/ Enters(k)

------------------------------------------------------------------------------
Requests ==
  \/ \E r \in Rooms : Create(r) \/ DeleteStart(r)
  \/ \E k \in Channels : Admit(k) \/ Invite(k) \/ InviteEnds(k) \/ Unlist(k)
  \/ DeleteCount \/ DeleteList \/ DeleteCommit \/ DeleteFails

Environment ==
  \/ LinkLost \/ ToldDown \/ ToldUp \/ LinkRestored \/ LateDropped \/ Restart
  \/ (\E w \in Writes : LateExecutes(w)) \/ \E n \in Numbers : EntryLost(n)

Next == Requests \/ Reconciling \/ Environment \/ \E k \in Channels : Dialplan(k)

Spec == Init /\ [][Next]_vars

------------------------------------------------------------------------------
(* Fairness.  Reconcile runs again every 3s and its lock is a fair RWMutex:  *)
(* a taker that finds it free again and again gets it.  Handlers end, the    *)
(* client reconnects, Asterisk reads what it was sent, and every call is     *)
(* hung up some day.  Nobody has to create, delete or call anything.         *)

FairSpec ==
  /\ Spec
  /\ SF_vars(CleanStart) /\ \A r \in Rooms : SF_vars(TakeRoom(r))
  /\ WF_vars(Reconciling)
  /\ WF_vars(DeleteCount \/ DeleteList \/ DeleteCommit \/ DeleteFails)
  /\ \A k \in Channels : /\ WF_vars(InviteEnds(k)) /\ WF_vars(Unlist(k))
                         /\ WF_vars(HangsUp(k))
  /\ WF_vars(ToldDown) /\ WF_vars(ToldUp) /\ WF_vars(LinkRestored)
  /\ WF_vars(\E w \in Writes : LateExecutes(w))

------------------------------------------------------------------------------
(* Safety.                                                                   *)

\* A room is over only when nobody is in it or about to be let in, although the
\* count, the roster and the dialplan's gate are read at different moments
\* ("A join racing with the precheck must keep deletion pending until that
\* participant leaves").
DeletedIsEmpty ==
  \A r \in Rooms : state[r] = "deleted" =>
    \A k \in Channels : at[k] \in {"admitted", "inside"} => target[k] # r

\* A number is free for a new room only when nothing leads, or can still come to
\* lead, to the old one ("do not reuse a number while cleanup is pending").
DeletedIsUnreachable ==
  \A r \in Rooms : state[r] = "deleted" => ~Registered(r) /\ <<"put", r>> \notin late

\* A room takes calls only while its number leads to it: a call made for it
\* would be dialled and then rejected by the dialplan.  Ready is the product of
\* a durable state, a cached verification and the link.
ReadyMeansRegistered == \A r \in Rooms : Ready(r) => Registered(r)

\* While a call is being made its room stays ready: no deletion begins and no
\* failed synchronization is recorded between the check and the Originate.
RoomStaysWhileInviting == \A k \in inviting : state[CallRoom[k]] = "ready"

\* Cleaning up after one room never takes the number from another.
NumberIsKept ==
  [][\A r \in Rooms : Connected /\ Registered(r) /\ state[r] \in {"pending", "ready"}
                        => Registered(r)']_vars

------------------------------------------------------------------------------
(* The inductive invariant behind the safety properties.                     *)

Operating == Disabling \cup Ensuring \cup Emptying \cup Outcomes

Abandoned(r) == \A q \in Rooms : NumberOf[q] = NumberOf[r] => state[q] \notin Live

Removable(r) == r \in Foreign \/ state[r] \in {"deleting", "deleted"}

\* Who may be at work: the writers of Admission exclude each other and the
\* readers.
LockInv ==
  /\ admission \in {"clean", "reconcile"} <=> step \notin {"idle", "rooms"}
  /\ admission = "clean" => step \in {"entries", "orphans"} \cup Disabling
  /\ admission = "reconcile" => step \in Operating
  /\ step \in Operating => room \in Rooms
  /\ step = "idle" => todo = {}
  /\ del # "idle" <=> admission = "delete"
  /\ inviting # {} => admission = "free"

\* What the lock keeps true of the room somebody works on.
WorkInv ==
  /\ del # "idle" => delRoom \in Rooms /\ state[delRoom] \in {"pending", "ready"}
  /\ \A k \in inviting : CallRoom[k] # NoRoom
  /\ step \in Ensuring \cup {"registered"} => state[room] \in {"pending", "ready"}
  /\ step \in Emptying \cup {"empty"} => state[room] = "deleting"
  /\ step = "kept" => state[room] \in {"deleting", "deleted"}
  /\ step = "failed" => state[room] # "none"
  /\ admission = "reconcile" /\ step \in Disabling => state[room] \in {"deleting", "deleted"}
  /\ admission = "clean" /\ step \in Disabling => Abandoned(room)
  /\ admission = "clean" => \A r \in todo : Abandoned(r)
  /\ admission # "clean" => \A r \in todo : state[r] # "none"

CatalogueInv ==
  /\ \A r \in Foreign : state[r] = "none"
  /\ \A q, r \in Rooms : NumberOf[q] = NumberOf[r] /\ state[q] \in Live /\ state[r] \in Live
                           => q = r

\* What may lead, or still come to lead, to a room; and what a late DBDel hits.
RegistryInv ==
  /\ \A n \in Numbers : reg[n] # NoRoom =>
       NumberOf[reg[n]] = n /\ (reg[n] \in Foreign \/ state[reg[n]] \in Live)
  /\ \A r \in Rooms : <<"put", r>> \in late => state[r] \in Live
  /\ \A r \in Rooms : <<"del", r>> \in late =>
       reg[NumberOf[r]] \in {r, NoRoom} /\ Removable(r)
  /\ \A v, w \in late : v = w
  /\ step = "del" => reg[NumberOf[room]] \in {room, NoRoom} /\ Removable(room)
  /\ step \in {"put", "del"} => late \subseteq InFlight

\* Once Disable has read the closed gate back, it stays closed; once the group
\* was empty, nobody passes.
ClosingInv ==
  /\ step \in Emptying \cup {"empty"} => ~Registered(room) /\ <<"put", room>> \notin late
  /\ step \in {"list", "empty"} =>
       \A k \in Channels : at[k] \in {"admitted", "inside"} => target[k] # room

TargetInv ==
  \A k \in Channels :
    /\ at[k] \in {"read", "counted", "admitted", "inside"} => target[k] \in Rooms
    /\ target[k] \in Rooms => target[k] \in Foreign \/ state[target[k]] # "none"

\* A verification is worth nothing once the link was lost.
VerifiedInv ==
  /\ link = "down" => verified = {}
  /\ admission = "reconcile" /\ ~moved => link # "down"
  /\ step = "registered" /\ Connected /\ ~moved => Registered(room) /\ late = {}

\* Every part of the invariant the proofs rest on.
Inductive ==
  /\ TypeOK /\ LockInv /\ WorkInv /\ CatalogueInv /\ RegistryInv /\ ClosingInv
  /\ TargetInv /\ VerifiedInv
  /\ RoomStaysWhileInviting /\ DeletedIsEmpty /\ ReadyMeansRegistered

------------------------------------------------------------------------------
(* Liveness, under FairSpec.                                                 *)

\* Deletion is completed, through disconnections and restarts.
DeletionCompletes ==
  \A r \in Rooms \ Foreign : state[r] = "deleting" ~> state[r] = "deleted"

\* A room that stays becomes usable: what is lost is provisioned again.
RoomsBecomeReady ==
  \A r \in Rooms \ Foreign :
    (state[r] = "pending") ~> (Ready(r) \/ state[r] \in {"deleting", "deleted"})

\* No number leads to a room of another installation for ever.
RegistryIsCleaned == <>[](\A n \in Numbers : reg[n] \notin Foreign)

------------------------------------------------------------------------------
(* The promise RoomLifecycle implements.                                     *)

Access == [r \in Rooms |-> IF state[r] = "none" THEN "none"
                           ELSE IF state[r] = "deleting" THEN "closing"
                           ELSE IF state[r] = "deleted" THEN "closed"
                           ELSE "open"]

Inside == [k \in Channels |-> IF at[k] = "inside" /\ target[k] \notin Foreign
                              THEN target[k] ELSE NoRoom]

Abstract == INSTANCE RoomAccess WITH access <- Access, inside <- Inside

\* Rooms open, close and end as RoomAccess says: each step of the code is one of
\* its steps, or none.
ImplementsRoomAccess == Abstract!Spec
=============================================================================
