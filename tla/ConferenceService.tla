--------------------------- MODULE ConferenceService ---------------------------
(***************************************************************************)
(* conference.Service: the roster of one conference, the outgoing calls    *)
(* shown beside it, and the snapshot every browser receives.               *)
(*                                                                         *)
(* Threads of control: the Run goroutine (events, state notifications,     *)
(* resync, maintenance), the HTTP handlers (Invite, CancelCall, RetryCall, *)
(* Kick, and whatever calls List) and the AMI client (AsteriskLink).       *)
(* attempt.op, syncMu and s.mu are modelled where a holder waits: op[c] is *)
(* the operation holding attempt c, list.pc # "idle" is syncMu held by     *)
(* List.  A section under s.mu is one step, and so is the notify() that    *)
(* follows it: notify captures and delivers under pubMu.                   *)
(***************************************************************************)
EXTENDS CallModel, AsteriskLink

CONSTANTS
  Limit,            \* most attempts tracked: 200 in Invite
  StateCapacity,    \* the buffer of Service.state: 8 in New
  Slow,             \* attempts whose deadline may pass while they are listed
  Operations,       \* what the users do besides inviting
  NoCall

ASSUME ServiceAssumption == /\ Limit \in Nat \ {0}
                            /\ StateCapacity \in Nat \ {0}
                            /\ NoCall \notin Calls
                            /\ Slow \subseteq Calls
                            /\ Operations \subseteq {"cancel", "retry", "kick", "refresh"}
                            /\ DialFailures \cup {Unknown} = Causes

VARIABLES
  attempt,        \* the callModel of every attempt ever made
  invites,        \* Service.invites: the attempts listed
  op,             \* who holds attempt.op, and where it is
  parent,         \* the attempt a retry replaces
  roster,         \* Service.roster: the identifiers present
  outdated,       \* how many of the oldest queued events are at or below
                  \* Service.ignoreThrough
  boundary,       \* how many were queued when the List in progress read
                  \* EventSequence()
  lister,         \* who runs that List: "run" or "http"
  changed,        \* whether its Replace reported a change
  states,         \* Service.state: connection changes not yet handled
  run,            \* where the Run goroutine is
  pass,           \* the maintenance pass: [todo, due, absent]
  published       \* the snapshot last delivered to the subscribers

serviceVars == <<attempt, invites, op, parent, roster, outdated, boundary,
                 changed, lister, states, run, pass, published>>
listVars == <<boundary, changed, lister>>
vars == <<linkVars, serviceVars>>

OpStates  == {"free", "invite", "cancel", "maintain", "retry", "retrying", "retried"}
RunStates == {"select", "resync", "resyncNotify", "check", "checking", "sweep", "hangup"}
ListPlaces == {"idle", "asked", "answered", "forgotten", "replaced", "broken"}
SnapshotRow == [call : Calls, state : {"dialing", "connected", "failed"},
                reason : Failures \cup {"Cancelling", "Checking call status",
                                        "Answered; joining conference"}]

TypeOK ==
  /\ link \in BOOLEAN
  /\ channel \in [Calls -> ChannelStates]
  /\ command \in [Calls -> Commands]
  /\ kick \in [Calls -> {"none", "sent", "ok", "broken"}]
  /\ list \in [pc : ListPlaces, found : SUBSET Calls]
  /\ events \in Seq(Event) /\ Len(events) <= QueueCapacity
  /\ overdue \in [Calls -> BOOLEAN]
  /\ faults \in 0..MaxFaults
  /\ stale \subseteq Calls
  /\ missed \in {"none", "before", "since"}
  /\ attempt \in [Calls -> CallRecord]
  /\ invites \subseteq Calls
  /\ op \in [Calls -> OpStates]
  /\ parent \in [Calls -> Calls \cup {NoCall}]
  /\ roster \subseteq Calls
  /\ outdated \in 0..Len(events) /\ boundary \in 0..Len(events)
  /\ lister \in {"run", "http"} /\ changed \in BOOLEAN
  /\ states \in Seq(BOOLEAN) /\ Len(states) <= StateCapacity
  /\ run \in RunStates
  /\ pass \in [todo : SUBSET Calls, due : SUBSET Calls, absent : SUBSET Calls]
  /\ published \in [connected : BOOLEAN, participants : SUBSET Calls,
                    rows : SUBSET SnapshotRow]

------------------------------------------------------------------------------
(* Snapshot and its publication.                                            *)

Snapshot(up, members, listed, model) ==
  [connected    |-> up,
   participants |-> {c \in members : ~(c \in listed /\ Stopping(model[c]))},
   rows         |-> {Row(c, model[c]) :
                       c \in {d \in listed : model[d].phase # "connected"
                                             \/ Stopping(model[d])}}]

Current == Snapshot(link, roster, invites, attempt)
Notify  == published' = Snapshot(link', roster', invites', attempt')
NotifyIf(visible) == IF visible THEN Notify ELSE UNCHANGED published

\* What an attempt no longer listed says is read by nobody.
Over == [NewCall EXCEPT !.phase = "ended"]

\* applyCallLocked: an attempt that ended leaves the list.
ApplyCall(c, model) ==
  /\ attempt' = [attempt EXCEPT ![c] = IF model.phase = "ended" THEN Over ELSE model]
  /\ invites' = IF model.phase = "ended" THEN invites \ {c} ELSE invites

Init ==
  /\ LinkInit
  /\ attempt = [c \in Calls |-> NewCall]
  /\ invites = {}
  /\ op = [c \in Calls |-> "free"]
  /\ parent = [c \in Calls |-> NoCall]
  /\ roster = {}
  /\ outdated = 0 /\ boundary = 0
  /\ lister = "run" /\ changed = FALSE
  /\ states = <<>>
  /\ run = "select"
  /\ pass = [todo |-> {}, due |-> {}, absent |-> {}]
  /\ published = Snapshot(TRUE, {}, {}, attempt)

------------------------------------------------------------------------------
(* Commands: Invite, CancelCall, RetryCall.                                 *)

\* The attempt is listed before the Originate is sent, in the step that
\* counts the list.  old is the attempt a retry replaces, or NoCall.
InviteStart(c, old) ==
  /\ channel[c] = "none" /\ link
  /\ Cardinality(invites) < Limit
  /\ invites' = invites \cup {c}
  /\ parent' = [parent EXCEPT ![c] = old]
  /\ op' = [d \in Calls |-> CASE d = c   -> "invite"
                              [] d = old -> "retrying"
                              [] OTHER   -> op[d]]
  /\ channel' = [channel EXCEPT ![c] = "wire"]
  /\ command' = [command EXCEPT ![c] = "originate"]
  /\ UNCHANGED <<attempt, roster, link, kick, list, events, overdue, faults,
                 stale, missed, outdated, listVars, states, run, pass>>
  /\ Notify

Invite(c) == InviteStart(c, NoCall)

\* A rejection is definitive.  Any other error leaves the outcome unknown.
InviteFinish(c) ==
  /\ op[c] = "invite" /\ command[c] \in {"accepted", "rejected", "broken"}
  /\ CASE command[c] = "accepted" -> UNCHANGED <<attempt, invites>>
       [] command[c] = "rejected" -> ApplyCall(c, Rejected(attempt[c]))
       [] command[c] = "broken"   -> ApplyCall(c, AcknowledgementUnknown(attempt[c]))
  /\ op' = [d \in Calls |-> CASE d = c         -> "free"
                              [] d = parent[c] -> "retried"
                              [] OTHER         -> op[d]]
  /\ command' = [command EXCEPT ![c] = "none"]
  /\ UNCHANGED <<parent, roster, link, channel, kick, list, events, overdue,
                 faults, stale, missed, outdated, listVars, states, run, pass>>
  /\ Notify

\* Plausible slip: the row is gone and nobody is told.
CancelDismissSilent(c) ==
  /\ "cancel" \in Operations
  /\ c \in invites /\ op[c] = "free" /\ attempt[c].phase = "failed"
  /\ ApplyCall(c, Cancel(attempt[c]))
  /\ UNCHANGED <<op, parent, roster, outdated, listVars, states, run,
                 pass, published, linkVars>>

\* A failed row is dismissed; any other attempt is hung up.
CancelDismiss(c) ==
  /\ "cancel" \in Operations
  /\ c \in invites /\ op[c] = "free" /\ attempt[c].phase = "failed"
  /\ ApplyCall(c, Cancel(attempt[c]))
  /\ UNCHANGED <<op, parent, roster, outdated, listVars, states, run,
                 pass, linkVars>>
  /\ Notify

CancelStart(c) ==
  /\ "cancel" \in Operations
  /\ c \in invites /\ op[c] = "free" /\ link
  /\ CancelHangsUp(attempt[c])
  /\ ApplyCall(c, Cancel(attempt[c]))
  /\ op' = [op EXCEPT ![c] = "cancel"]
  /\ command' = [command EXCEPT ![c] = "hangup"]
  /\ UNCHANGED <<parent, roster, link, channel, kick, list, events, overdue,
                 faults, stale, missed, outdated, listVars, states, run, pass>>
  /\ Notify

\* hangupAttempt, for CancelCall and for maintenance: only "no such channel"
\* says anything about the call.
HangupFinish(c) ==
  /\ op[c] \in {"cancel", "maintain"}
  /\ command[c] \in {"hung", "missing", "broken"}
  /\ IF command[c] = "missing" /\ c \in invites
     THEN ApplyCall(c, ChannelMissing(attempt[c], overdue[c]))
     ELSE UNCHANGED <<attempt, invites>>
  /\ op' = [op EXCEPT ![c] = "free"]
  /\ command' = [command EXCEPT ![c] = "none"]
  /\ run' = IF op[c] = "maintain" THEN "sweep" ELSE run
  /\ UNCHANGED <<parent, roster, link, channel, kick, list, events, overdue,
                 faults, stale, missed, outdated, listVars, states, pass>>
  /\ NotifyIf(command[c] = "missing")

\* Plausible slip: the attempt looked up before waiting for op is trusted after.
RetryTrustsLookup(c) ==
  /\ "retry" \in Operations
  /\ op[c] = "free" /\ channel[c] # "none" /\ attempt[c].phase = "failed"
  /\ op' = [op EXCEPT ![c] = "retry"]
  /\ UNCHANGED <<attempt, invites, parent, roster, outdated, listVars,
                 states, run, pass, published, linkVars>>

RetryStart(c) ==
  /\ "retry" \in Operations
  /\ c \in invites /\ op[c] = "free" /\ attempt[c].phase = "failed"
  /\ op' = [op EXCEPT ![c] = "retry"]
  /\ UNCHANGED <<attempt, invites, parent, roster, outdated, listVars,
                 states, run, pass, published, linkVars>>

RetryInvites(old, c) == op[old] = "retry" /\ InviteStart(c, old)

\* Invite refuses, without a connection or at the limit: nothing is replaced.
RetryRefused(c) ==
  /\ op[c] = "retry" /\ (~link \/ Cardinality(invites) >= Limit)
  /\ op' = [op EXCEPT ![c] = "free"]
  /\ UNCHANGED <<attempt, invites, parent, roster, outdated, listVars,
                 states, run, pass, published, linkVars>>

RetryFinish(c) ==
  /\ op[c] = "retried"
  /\ op' = [op EXCEPT ![c] = "free"]
  /\ invites' = invites \ {c}
  /\ UNCHANGED <<attempt, parent, roster, outdated, listVars, states, run,
                 pass, linkVars>>
  /\ Notify

------------------------------------------------------------------------------
(* Kick removes the participant at once when Asterisk agrees; it does not    *)
(* hold syncMu.                                                             *)

KickStart(c) ==
  /\ "kick" \in Operations
  /\ c \in roster /\ link /\ kick[c] = "none"
  /\ kick' = [kick EXCEPT ![c] = "sent"]
  /\ UNCHANGED <<link, channel, command, list, events, overdue, faults,
                 stale, missed, serviceVars>>

KickFinish(c) ==
  /\ kick[c] \in {"ok", "broken"}
  /\ kick' = [kick EXCEPT ![c] = "none"]
  /\ roster' = IF kick[c] = "ok" THEN roster \ {c} ELSE roster
  /\ UNCHANGED <<link, channel, command, list, events, overdue, faults,
                 stale, missed, attempt, invites, op, parent, outdated, listVars, states, run, pass>>
  /\ NotifyIf(roster' # roster)

------------------------------------------------------------------------------
(* List, under syncMu from its first step to its last.                      *)

\* Plausible slip: the sequence number is read when the roster has arrived.
SequenceAfterRoster == Len(events)

\* List reads EventSequence() before it sends the action.
SequenceBeforeRoster == boundary

ListStart(by) ==
  /\ list.pc = "idle" /\ link
  /\ list' = [list EXCEPT !.pc = "asked"]
  /\ lister' = by /\ boundary' = Len(events)
  /\ missed' = IF missed = "since" THEN "before" ELSE missed
  /\ UNCHANGED <<link, channel, command, kick, events, overdue, faults, stale,
                 attempt, invites, op, parent, roster, outdated, changed>>

\* SetMuted refreshes the roster after its action; deletion of a room lists it.
HttpList ==
  /\ "refresh" \in Operations
  /\ ListStart("http")
  /\ UNCHANGED <<states, run, pass, published>>

\* Where the Run goroutine goes when the List it waits for returns.
AfterList(done) ==
  IF lister = "http" THEN run
  ELSE IF run = "checking" /\ done THEN "sweep"
  ELSE "select"

NoPass == [todo |-> {}, due |-> {}, absent |-> {}]

\* Plausible slip: the roster is replaced and the attempts that joined are not told.
ToldNothing(found) == attempt

\* reconcileJoined: what it makes of the attempts, under s.mu.
ReconcileJoined(found) ==
  [c \in Calls |-> IF c \in invites \cap found THEN Joined(attempt[c]) ELSE attempt[c]]

\* forgetDeparted, under s.mu: connected attempts that are not in the roster.
Forgotten(found) ==
  {c \in invites \ found : AbsentFromConference(attempt[c]).phase = "ended"}

\* The roster has arrived: the boundary holds from here, and attempts are
\* forgotten first.  The three sections of List are locked one by one.
ListForget ==
  /\ list.pc = "answered"
  /\ list' = [list EXCEPT !.pc = "forgotten"]
  /\ outdated' = SequenceBeforeRoster /\ boundary' = 0
  /\ missed' = IF missed = "before" THEN "none" ELSE missed
  /\ attempt' = [c \in Calls |-> IF c \in Forgotten(list.found) THEN Over ELSE attempt[c]]
  /\ invites' = invites \ Forgotten(list.found)
  /\ UNCHANGED <<link, channel, command, kick, events, overdue, faults, stale, op,
                 parent, roster, changed, lister, states, run, pass, published>>

\* Roster.Replace, or Clear when there is no conference.  Replace also compares
\* names, mute and join times: it may report a change where nobody came or went.
ListReplace ==
  /\ list.pc = "forgotten"
  /\ list' = [list EXCEPT !.pc = "replaced"]
  /\ roster' = list.found
  /\ changed' \in {roster # list.found, TRUE}
  /\ UNCHANGED <<link, channel, command, kick, events, overdue, faults, stale, missed,
                 attempt, invites, op, parent, outdated, boundary, lister, states,
                 run, pass, published>>

\* reconcileJoined and the one notify of List; syncMu is released.
ListFinish ==
  /\ list.pc = "replaced"
  /\ attempt' = ReconcileJoined(list.found)
  /\ list' = [pc |-> "idle", found |-> {}] /\ changed' = FALSE
  /\ run' = AfterList(TRUE)
  /\ pass' = IF lister = "run" /\ run = "checking"
             THEN [pass EXCEPT !.absent = Calls \ list.found] ELSE pass
  /\ UNCHANGED <<link, channel, command, kick, events, overdue, faults, stale, missed,
                 invites, op, parent, roster, outdated, boundary, lister, states>>
  /\ NotifyIf(changed \/ attempt' # attempt \/ (lister = "run" /\ run = "resyncNotify"))

\* The action failed: the roster and its boundary stay, and a maintenance pass
\* that needed the roster is abandoned.
ListFailed ==
  /\ list.pc = "broken"
  /\ list' = [pc |-> "idle", found |-> {}] /\ boundary' = 0
  /\ missed' = IF missed = "before" THEN "since" ELSE missed
  /\ run' = AfterList(FALSE)
  /\ pass' = IF lister = "run" /\ run = "checking" THEN NoPass ELSE pass
  /\ UNCHANGED <<link, channel, command, kick, events, overdue, faults, stale,
                 attempt, invites, op, parent, roster, outdated, changed, lister, states>>
  /\ NotifyIf(lister = "run" /\ run = "resyncNotify")

------------------------------------------------------------------------------
(* The Run goroutine: events.                                               *)

\* The oldest event leaves the queue.  handleEvent waits for syncMu.
Takes ==
  /\ run = "select" /\ list.pc = "idle" /\ events # <<>>
  /\ events' = Tail(events)
  /\ outdated' = IF outdated > 0 THEN outdated - 1 ELSE 0
  /\ UNCHANGED <<link, channel, command, kick, list, overdue, faults, stale, missed,
                 op, parent, listVars, states, run, pass>>

\* handleCallEvent: facts about a call are applied whatever the boundary, and
\* only while the attempt is listed.
HandleFact ==
  /\ Takes /\ Head(events).kind \in Facts
  /\ LET e == Head(events) IN
       IF e.call \in invites
       THEN /\ ApplyCall(e.call, ApplyFact(attempt[e.call], e.kind, e.cause))
            /\ roster' = IF e.kind = "ended" THEN roster \ {e.call} ELSE roster
            /\ NotifyIf(attempt' # attempt \/ e.kind = "ended")
       ELSE UNCHANGED <<attempt, invites, roster, published>>

\* Packets read before the last roster was asked for do not change it again.
Outdated == outdated > 0

HandleOutdated ==
  /\ Takes /\ Head(events).kind \in Happenings /\ Outdated
  /\ UNCHANGED <<attempt, invites, roster, published>>

\* A channel joins once: Add finds somebody new, or stamps the join time that a
\* list has left unknown.
HandleJoin ==
  /\ Takes /\ Head(events).kind = "join" /\ ~Outdated
  /\ LET c == Head(events).call IN
       /\ IF c \in invites THEN ApplyCall(c, Joined(attempt[c]))
          ELSE UNCHANGED <<attempt, invites>>
       /\ roster' = roster \cup {c}
  /\ Notify

HandleLeave ==
  /\ Takes /\ Head(events).kind = "leave" /\ ~Outdated
  /\ UNCHANGED <<attempt, invites>>
  /\ roster' = roster \ {Head(events).call}
  /\ NotifyIf(roster' # roster)

\* ConfbridgeStart and ConfbridgeEnd: what was remembered is gone.
HandleClear ==
  /\ Takes /\ Head(events).kind \in {"start", "end"} /\ ~Outdated
  /\ UNCHANGED <<attempt, invites>>
  /\ roster' = {}
  /\ NotifyIf(roster # {})

HandleEvent == HandleFact \/ HandleOutdated \/ HandleJoin \/ HandleLeave \/ HandleClear

------------------------------------------------------------------------------
(* The Run goroutine: connection changes and the resync ticker.             *)

\* OnAMIStateChange never blocks: a full buffer drops the notification.
Signals(up) == states' = IF Len(states) < StateCapacity THEN Append(states, up) ELSE states

ConnectionLost ==
  /\ LinkLost /\ Signals(FALSE)
  /\ UNCHANGED <<attempt, invites, op, parent, roster, outdated, listVars,
                 run, pass, published>>

ConnectionRestored ==
  /\ LinkRestored /\ Signals(TRUE)
  /\ UNCHANGED <<attempt, invites, op, parent, roster, outdated, listVars,
                 run, pass, published>>

\* The link is up again: resync, then notify.
HandleUp ==
  /\ run = "select" /\ states # <<>> /\ Head(states) /\ link
  /\ ListStart("run")
  /\ states' = Tail(states) /\ run' = "resyncNotify"
  /\ UNCHANGED <<pass, published>>

\* The link is down, or went down again: there is nothing to ask.
HandleDown ==
  /\ run = "select" /\ states # <<>> /\ (~Head(states) \/ ~link)
  /\ states' = Tail(states)
  /\ UNCHANGED <<attempt, invites, op, parent, roster, outdated, listVars,
                 run, pass, linkVars>>
  /\ Notify

\* Plausible slip: only an empty roster is worth rebuilding.
ResyncWhenEmpty ==
  /\ run = "select" /\ roster = {} /\ ListStart("run")
  /\ run' = "resync"
  /\ UNCHANGED <<states, pass, published>>

\* The ticker, and the first resync of Run.
Resync ==
  /\ run = "select" /\ ListStart("run")
  /\ run' = "resync"
  /\ UNCHANGED <<states, pass, published>>

------------------------------------------------------------------------------
(* The Run goroutine: maintainCalls.                                        *)

\* One time boundary for the pass: what is due is decided here.
MaintainStart ==
  /\ run = "select" /\ link
  /\ LET todo == {c \in invites : Pending(attempt[c]) \/ Stopping(attempt[c])}
         due  == {c \in todo : overdue[c]}
     IN  /\ todo # {}
         /\ pass' = [todo |-> todo, due |-> due, absent |-> {}]
         /\ run' = IF \E c \in todo : NeedsReconcile(attempt[c], c \in due)
                   THEN "check" ELSE "sweep"
  /\ UNCHANGED <<attempt, invites, op, parent, roster, outdated, listVars,
                 states, published, linkVars>>

\* A call past its deadline: ask who is in the conference first.
MaintainCheck ==
  /\ run = "check" /\ ListStart("run")
  /\ run' = "checking"
  /\ UNCHANGED <<states, pass, published>>

MaintainUnavailable ==
  /\ run = "check" /\ ~link
  /\ run' = "select" /\ pass' = NoPass
  /\ UNCHANGED <<attempt, invites, op, parent, roster, outdated, listVars,
                 states, published, linkVars>>

\* Plausible slip: the clock is read again for every attempt.
DueNow(c) == overdue[c]

Due(c) == c \in pass.due

\* An attempt some command holds is left to the next pass (TryLock).
SweepSkip(c) ==
  /\ run = "sweep" /\ c \in pass.todo
  /\ op[c] # "free" \/ c \notin invites
  /\ pass' = [pass EXCEPT !.todo = @ \ {c}]
  /\ UNCHANGED <<attempt, invites, op, parent, roster, outdated, listVars,
                 states, run, published, linkVars>>

\* The Hangup is sent again for every stopping call; nothing is published here.
Sweep(c) ==
  /\ run = "sweep" /\ c \in pass.todo /\ op[c] = "free" /\ c \in invites
  /\ ApplyCall(c, Maintenance(attempt[c], Due(c)))
  /\ pass' = [pass EXCEPT !.todo = @ \ {c}]
  /\ IF MaintenanceHangsUp(attempt'[c]) /\ link
     THEN /\ op' = [op EXCEPT ![c] = "maintain"]
          /\ command' = [command EXCEPT ![c] = "hangup"]
          /\ run' = "hangup"
     ELSE UNCHANGED <<op, command, run>>
  /\ UNCHANGED <<parent, roster, link, channel, kick, list, events, overdue,
                 faults, stale, missed, outdated, listVars, states, published>>

SweepEnd ==
  /\ run = "sweep" /\ pass.todo = {}
  /\ run' = "select" /\ pass' = NoPass
  /\ UNCHANGED <<attempt, invites, op, parent, roster, outdated, listVars,
                 states, published, linkVars>>

------------------------------------------------------------------------------
(* The environment's steps leave the service alone.                         *)

\* Time passes the deadline of a listed attempt.  By then, Originate's timeout
\* plus 10s after the attempt was made, Asterisk has allocated the channel or
\* dropped the request.
DeadlinePasses(c) ==
  /\ c \in Slow \cap invites /\ (Pending(attempt[c]) \/ Stopping(attempt[c]))
  /\ ~overdue[c] /\ channel[c] \notin Unallocated
  /\ overdue' = [overdue EXCEPT ![c] = TRUE]
  /\ UNCHANGED <<link, channel, command, kick, list, events, faults, stale, missed>>

\* A call on its way: every stage but the conference itself ends by itself.
Proceeds(c) ==
  /\ UNCHANGED serviceVars
  /\ \/ AsteriskAccepts(c) \/ AsteriskRejects(c)
     \/ Allocates(c) \/ AllocationFails(c)
     \/ DialFails(c) \/ Answers(c) \/ Joins(c) \/ Ends(c)
     \/ channel[c] = "leaving" /\ Leaves(c)

Departs(c)    == channel[c] = "joined" /\ Leaves(c) /\ UNCHANGED serviceVars
ObeysHangup(c) == AsteriskHangsUp(c) /\ UNCHANGED serviceVars
ObeysKick(c)  == AsteriskKicks(c) /\ UNCHANGED serviceVars
RepliesList   == AsteriskLists /\ UNCHANGED serviceVars
ReplyLost     == ReplyTimesOut /\ UNCHANGED serviceVars
Lateness(c)   == DeadlinePasses(c) /\ UNCHANGED serviceVars

Asterisk ==
  \/ \E c \in Calls : \/ Proceeds(c) \/ Departs(c)
                      \/ ObeysHangup(c) \/ ObeysKick(c) \/ Lateness(c)
  \/ RepliesList \/ ReplyLost

Commanding ==
  \E c \in Calls :
    \/ Invite(c) \/ InviteFinish(c)
    \/ CancelDismiss(c) \/ CancelStart(c) \/ HangupFinish(c)
    \/ RetryStart(c) \/ (\E old \in Calls : RetryInvites(old, c))
    \/ RetryRefused(c) \/ RetryFinish(c)
    \/ KickStart(c) \/ KickFinish(c)

Running ==
  \/ HandleEvent \/ HandleUp \/ HandleDown \/ Resync
  \/ MaintainStart \/ MaintainCheck \/ MaintainUnavailable
  \/ (\E c \in Calls : SweepSkip(c) \/ Sweep(c)) \/ SweepEnd

Listing == HttpList \/ ListForget \/ ListReplace \/ ListFinish \/ ListFailed

Next == Asterisk \/ Commanding \/ Running \/ Listing
          \/ ConnectionLost \/ ConnectionRestored

Spec == Init /\ [][Next]_vars

------------------------------------------------------------------------------
(* Fairness, no more than is needed.  Go's select picks at random among the *)
(* cases that are ready, and the tickers make theirs ready again and again: *)
(* a case of Run's loop is taken if it is ready infinitely often.           *)
(* sync.Mutex does not starve a waiter.  Commands, replies and the          *)
(* reconnecting client are weakly fair; users are not fair, a participant   *)
(* need not ever leave, and no event need ever be handled: the lists and    *)
(* the maintenance passes repair what the events would have said.           *)

Working == \/ MaintainCheck \/ MaintainUnavailable
           \/ (\E c \in Calls : SweepSkip(c) \/ Sweep(c)) \/ SweepEnd

CommandEnds(c) == InviteFinish(c) \/ HangupFinish(c) \/ RetryFinish(c)

ListReturns == ListForget \/ ListReplace \/ ListFinish \/ ListFailed

RunFairness ==
  /\ SF_vars(HandleUp \/ HandleDown) /\ WF_vars(Resync) /\ SF_vars(MaintainStart)
  /\ WF_vars(Working) /\ WF_vars(ListReturns)

CommandFairness == \A c \in Calls : WF_vars(CommandEnds(c))

AsteriskFairness ==
  /\ \A c \in Calls : WF_vars(Proceeds(c)) /\ WF_vars(Lateness(c)) /\ WF_vars(ObeysHangup(c))
  /\ WF_vars(RepliesList) /\ WF_vars(ConnectionRestored)

FairSpec == Spec /\ RunFairness /\ CommandFairness /\ AsteriskFairness

------------------------------------------------------------------------------
(* Safety.                                                                  *)

\* A call is declared failed or over only when its channel is: no lost reply,
\* lost event or lost connection invents the end of a call ("Acknowledging an
\* outgoing call may precede channel allocation: A missing channel then means
\* retry, not success", hangupAttempt).  The channels in stale are the
\* exception CancelledCallIsOver is about.
NoVerdictOnLiveCall ==
  \A c \in Calls \ stale :
    attempt[c].phase \in {"failed", "ended"} => channel[c] \in {"left", "gone"}

\* The same without the exception, for calls no longer listed: what the comment
\* at hangupAttempt promises.  A Hangup answered "no such channel" just before
\* the channel is allocated is applied just after ChannelSeen was set.
CancelledCallIsOver ==
  \A c \in Calls : attempt[c].phase = "ended" => channel[c] \in {"left", "gone"}

\* When every event has been handled and none was lost since the last roster,
\* the roster is the conference.  Events read before that roster was asked for
\* must not be replayed over it, and events read after it must be, whichever of
\* List, Kick and handleEvent came in between.
RosterMatchesConference ==
  missed = "none" /\ events = <<>> /\ list.pc = "idle" =>
    \A c \in Calls : channel[c] # "leaving" => (c \in roster <=> channel[c] = "joined")

\* What the browsers were last sent is what the service would send now, except
\* while a change of the connection waits for Run, between the sections of List
\* and while an automatic cancellation is under way: every notify that is skipped
\* (Add, Remove, Clear and Replace report "nothing changed") skips nothing
\* visible, whatever other goroutines publish between the sections of List.
PublishedIsCurrent ==
  \/ states # <<>> \/ run = "resyncNotify" \/ list.pc \in {"forgotten", "replaced"}
  \/ \E c \in invites : attempt[c].stop = "timeout"
  \/ published = Current

\* The same without the exception for automatic cancellation: the frontend
\* relies on a full snapshot "on connect and after every change".
PublishedAfterEveryChange ==
  states = <<>> /\ run = "select" /\ (\A c \in Calls : op[c] = "free")
    => published = Current

\* A call is one row: never a participant and a dialing or failed attempt at the
\* same time, though roster and attempts are changed under different locks and a
\* call can join after it was given up for lost.  Once the queue is empty and no
\* event was lost, nothing would ever correct such a pair.
OneRowPerCall ==
  missed = "none" /\ events = <<>> /\ list.pc = "idle" =>
    published.participants \cap {r.call : r \in published.rows} = {}

\* An attempt that was replaced is not retried again, however many users click
\* and whatever happens to it while the replacement is dialled.
NoRetryOfReplaced ==
  \A c \in Calls : op[c] = "retry" => \A d \in Calls : parent[d] # c

------------------------------------------------------------------------------
(* Action properties.                                                       *)

\* The stage a call has on the board: what Snapshot and view show of it.
Stage(c) ==
  CASE c \in invites /\ attempt[c].stop = "user"    -> "cancelling"
    [] c \in invites /\ attempt[c].stop = "timeout" -> "expiring"
    [] c \in invites /\ ~Stopping(attempt[c])       ->
         IF Pending(attempt[c]) THEN "dialing" ELSE attempt[c].phase
    [] c \notin invites -> IF channel[c] = "none" THEN "none" ELSE "over"

\* The rows keep their promise: whatever is lost and whoever comes in between, a
\* dialing row does not vanish, a cancelled one does not come back, and one that
\* ran out of time is shown as failed.
Board == INSTANCE CallBoard WITH board <- [c \in Calls |-> Stage(c)]
ImplementsCallBoard == Board!Spec

\* The deadline cancels a call only in a pass that has first asked who is in the
\* conference and not found it there ("a deadline crossed during this pass
\* cannot trigger a timeout without the preceding roster check").
TimeoutOnlyAfterRosterCheck ==
  [][\A c \in Calls : attempt[c].stop = "none" /\ attempt'[c].stop = "timeout"
                     => c \in pass.absent]_vars

------------------------------------------------------------------------------
(* Liveness, under FairSpec.                                                *)

\* A call a user cancelled leaves the list for good, though the Hangup is not
\* answered or fails, and whatever events are lost on the way.
CancelCompletes ==
  <>[](\A c \in invites : attempt[c].stop # "user")

\* No row says "dialing" for ever: it connects, fails or disappears.
EveryCallResolves ==
  \A c \in Calls : []<>(c \notin invites \/ ~Pending(attempt[c]))

\* Lost events do not accumulate into drift: once the faults are over the roster
\* becomes the conference, and the browsers see it.
RosterConverges == <>[](roster = Members /\ published = Current)
=============================================================================
