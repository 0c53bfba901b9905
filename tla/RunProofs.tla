------------------------------- MODULE RunProofs -------------------------------
(***************************************************************************)
(* The Run goroutine, for any number of calls: where it is while a List or *)
(* a Hangup of its own is under way, what the browsers were last sent, and *)
(* which calls a maintenance pass may time out.                            *)
(*                                                                         *)
(* PublicationInvariant follows the excuses of PublishedIsCurrent through  *)
(* the three sections of List: forgetting a departed call shows nothing    *)
(* new, and between Replace and the notify of List "changed" says whether  *)
(* there is something to show.  SweepInvariant follows a call from the     *)
(* start of the pass to the Hangup: no input makes a call wait again.      *)
(***************************************************************************)
EXTENDS ConferenceServiceProofs

\* Run waits for a List of its own.
RunWaits == {"resync", "resyncNotify", "checking"}

\* Run waits for a List exactly while its own is under way, and for a Hangup while
\* an attempt is held by maintenance, one at most.
RunInvariant ==
  /\ run \in RunWaits <=> (list.pc # "idle" /\ lister = "run")
  /\ \A c \in Calls : op[c] = "maintain" =>
       run = "hangup" /\ \A d \in Calls : op[d] = "maintain" => c = d

\* A step that moves neither Run nor the List keeps the invariant.
LEMMA RunKeepsPlace ==
  ASSUME ServiceTyped, RunInvariant, UNCHANGED <<run, lister>>,
         list'.pc # "idle" <=> list.pc # "idle",
         \A d \in Calls : op'[d] = "maintain" => op[d] = "maintain"
  PROVE  RunInvariant'
  BY DEF RunInvariant

\* Every step keeps track of where Run is.
LEMMA RunStep ==
  ASSUME Assumptions, Typed, Typed', AttemptInvariant, RunInvariant, [Next]_vars
  PROVE  RunInvariant'
<1> USE DEF Typed, LinkTyped, ServiceTyped
<1>0. \A c \in Calls : op[c] = "maintain" => run = "hangup"
  BY DEF RunInvariant
<1>1. CASE UNCHANGED vars
  BY <1>1, RunKeepsPlace DEF vars, linkVars, serviceVars
<1>2. CASE Asterisk
  <2>1. UNCHANGED <<run, lister, op>>
    BY <1>2, EnvironmentTyped DEF serviceVars
  <2>2. list'.pc # "idle" <=> list.pc # "idle"
    <3>1. CASE RepliesList \/ ReplyLost
      BY <3>1 DEF RepliesList, AsteriskLists, ReplyLost, ReplyTimesOut
    <3>2. ASSUME NEW c \in Calls,
                 \/ Proceeds(c) \/ Departs(c) \/ ObeysHangup(c) \/ ObeysKick(c) \/ Lateness(c)
          PROVE  list' = list
      BY <3>2 DEF Proceeds, Departs, ObeysHangup, ObeysKick, Lateness, AsteriskAccepts,
         AsteriskRejects, Allocates, AllocationFails, DialFails, Answers, Joins, Ends, Leaves,
         AsteriskHangsUp, AsteriskKicks, DeadlinePasses
    <3> QED BY <1>2, <3>1, <3>2 DEF Asterisk
  <2> QED BY <2>1, <2>2, RunKeepsPlace
<1>3. CASE ConnectionLost \/ ConnectionRestored
  BY <1>3, RunKeepsPlace DEF ConnectionLost, LinkLost, ConnectionRestored, LinkRestored, listVars
<1>4. CASE Commanding
  <2>1. PICK c \in Calls : Command(c)
    BY <1>4 DEF Commanding, Command
  <2>2. CASE HangupFinish(c)
    <3>1. op' = [op EXCEPT ![c] = "free"] /\ list' = list /\ lister' = lister
      BY <2>2 DEF HangupFinish, listVars
    <3>2. CASE op[c] = "maintain"
      BY <2>2, <3>1, <3>2 DEF HangupFinish, RunInvariant, RunWaits
    <3>3. CASE op[c] # "maintain"
      BY <2>2, <3>1, <3>3, RunKeepsPlace DEF HangupFinish
    <3> QED BY <3>2, <3>3
  <2>3. CASE ~HangupFinish(c)
    <3>1. CASE InviteFinish(c)
      <4>1. \A d \in Calls : op'[d] # "maintain" \/ op'[d] = op[d]
        BY <3>1 DEF InviteFinish
      <4> QED BY <3>1, <4>1, RunKeepsPlace DEF InviteFinish, listVars
    <3>2. CASE \E old \in Calls \union {NoCall} : InviteStart(c, old)
      <4>1. \A d \in Calls : op'[d] # "maintain" \/ op'[d] = op[d]
        BY <3>2 DEF InviteStart
      <4> QED BY <3>2, <4>1, RunKeepsPlace DEF InviteStart, listVars
    <3>3. CASE CancelDismiss(c) \/ CancelStart(c) \/ RetryStart(c) \/ RetryRefused(c) \/ RetryFinish(c)
      <4>1. UNCHANGED <<run, lister, list>>
        BY <3>3 DEF CancelDismiss, CancelStart, RetryStart, RetryRefused, RetryFinish, listVars,
                    linkVars
      <4>2. \A d \in Calls : op'[d] # "maintain" \/ op'[d] = op[d]
        BY <3>3 DEF CancelDismiss, CancelStart, RetryStart, RetryRefused, RetryFinish
      <4> QED BY <4>1, <4>2, RunKeepsPlace
    <3>4. CASE KickStart(c) \/ KickFinish(c)
      BY <3>4, RunKeepsPlace DEF KickStart, KickFinish, listVars, serviceVars
    <3> QED BY <2>1, <2>3, <3>1, <3>2, <3>3, <3>4 DEF Command, Invite, RetryInvites
  <2> QED BY <2>2, <2>3
<1>5. CASE Running
  <2>1. CASE HandleEvent
    <3>1. UNCHANGED <<run, lister, list, op>>
      BY <2>1 DEF HandleEvent, HandleFact, HandleOutdated, HandleJoin, HandleLeave, HandleClear,
         Takes, listVars
    <3> QED BY <3>1, RunKeepsPlace
  <2>2. CASE HandleUp \/ Resync \/ MaintainCheck
    <3>1. list'.pc = "asked" /\ lister' = "run" /\ run' \in RunWaits /\ op' = op
          /\ run \in {"select", "check"}
      BY <2>2 DEF HandleUp, Resync, MaintainCheck, ListStart, RunWaits
    <3> QED BY <1>0, <3>1 DEF RunInvariant, RunWaits
  <2>3. CASE HandleDown \/ MaintainStart \/ MaintainUnavailable \/ SweepEnd
    <3>1. /\ UNCHANGED <<list, lister, op>> /\ run \notin RunWaits /\ run' \notin RunWaits
          /\ run # "hangup"
      BY <2>3 DEF HandleDown, MaintainStart, MaintainUnavailable, SweepEnd, RunWaits, listVars,
                  linkVars
    <3> QED BY <1>0, <3>1 DEF RunInvariant
  <2>4. ASSUME NEW c \in Calls, SweepSkip(c) PROVE RunInvariant'
    BY <2>4, RunKeepsPlace DEF SweepSkip, listVars, linkVars
  <2>5. ASSUME NEW c \in Calls, Sweep(c) PROVE RunInvariant'
    <3>1. UNCHANGED <<list, lister>> /\ run = "sweep"
      BY <2>5 DEF Sweep, listVars
    <3>2. \/ UNCHANGED <<run, op>>
          \/ run' = "hangup" /\ op' = [op EXCEPT ![c] = "maintain"]
      BY <2>5 DEF Sweep
    <3> QED BY <1>0, <3>1, <3>2 DEF RunInvariant, RunWaits
  <2> QED BY <1>5, <2>1, <2>2, <2>3, <2>4, <2>5 DEF Running
<1>6. CASE Listing
  <2>1. CASE HttpList
    BY <2>1 DEF HttpList, ListStart, RunInvariant
  <2>2. CASE ListForget \/ ListReplace
    BY <2>2, RunKeepsPlace DEF ListForget, ListReplace
  <2>3. CASE ListFinish \/ ListFailed
    <3>1. list.pc # "idle" /\ list'.pc = "idle" /\ op' = op
      <4>1. CASE ListFailed BY <4>1 DEF ListFailed
      <4>2. CASE ListFinish BY <4>2 DEF ListFinish
      <4> QED BY <2>3, <4>1, <4>2
    <3>2. lister = "http" => run' = run
      BY <2>3 DEF ListFinish, ListFailed, AfterList, NotifyIf
    <3>3. lister = "run" => run \in RunWaits /\ run' \in {"select", "sweep"}
      BY <2>3, <3>1 DEF RunInvariant, ListFinish, ListFailed, AfterList, NotifyIf
    <3>4. run' \notin RunWaits
      BY <3>1, <3>2, <3>3 DEF RunInvariant, RunWaits
    <3>5. (\E c \in Calls : op[c] = "maintain") => run' = "hangup"
      BY <1>0, <3>2, <3>3 DEF RunWaits
    <3> QED BY <3>1, <3>4, <3>5 DEF RunInvariant
  <2> QED BY <1>6, <2>1, <2>2, <2>3 DEF Listing
<1> QED
  BY <1>1, <1>2, <1>3, <1>4, <1>5, <1>6 DEF Next

\* A publication is due: of a connection change, of a resync, or of an automatic
\* cancellation.
Excused == \/ states # <<>> \/ run = "resyncNotify"
           \/ \E c \in invites : attempt[c].stop = "timeout"

\* Nothing is due and the snapshot is the current one, or Replace has reported a
\* change that List is about to publish.
PublicationInvariant ==
  (list.pc = "replaced" /\ changed) \/ Excused \/ published = Current

\* Whoever notifies brings the browsers up to date.
LEMMA Notified == ASSUME Notify PROVE PublicationInvariant'
  BY DEF Notify, PublicationInvariant, Current

\* A step that changes nothing visible and takes no excuse away.
LEMMA NothingShown ==
  ASSUME PublicationInvariant, UNCHANGED <<published, link, roster, invites, attempt>>,
         states # <<>> => states' # <<>>, run = "resyncNotify" => run' = "resyncNotify",
         list.pc = "replaced" /\ changed => list'.pc = "replaced" /\ changed'
  PROVE  PublicationInvariant'
<1>1. Current' = Current
  BY DEF Current
<1> QED
  BY <1>1 DEF PublicationInvariant, Excused

\* Commands publish what they change.
LEMMA CommandPublishes ==
  ASSUME Assumptions, Typed, RunInvariant, PublicationInvariant, NEW c \in Calls, Command(c)
  PROVE  PublicationInvariant'
<1> USE DEF Typed, LinkTyped, ServiceTyped
<1>1. CASE \/ (\E old \in Calls \union {NoCall} : InviteStart(c, old)) \/ InviteFinish(c)
           \/ CancelDismiss(c) \/ CancelStart(c) \/ RetryFinish(c)
  <2>1. Notify
    BY <1>1 DEF InviteStart, InviteFinish, CancelDismiss, CancelStart, RetryFinish
  <2> QED BY <2>1, Notified
<1>2. CASE RetryStart(c) \/ RetryRefused(c) \/ KickStart(c)
  BY <1>2, NothingShown DEF RetryStart, RetryRefused, KickStart, listVars, linkVars, serviceVars
<1>3. CASE HangupFinish(c)
  <2>1. CASE command[c] = "missing"
    BY <1>3, <2>1, Notified DEF HangupFinish, NotifyIf
  <2>2. CASE command[c] # "missing"
    <3>1. UNCHANGED <<published, link, roster, invites, attempt, states, list, changed>>
      BY <1>3, <2>2 DEF HangupFinish, NotifyIf, listVars
    <3>2. run = "resyncNotify" => run' = "resyncNotify"
      BY <1>3 DEF HangupFinish, RunInvariant
    <3> QED BY <3>1, <3>2, NothingShown
  <2> QED BY <2>1, <2>2
<1>4. CASE KickFinish(c)
  <2>1. CASE roster' # roster
    BY <1>4, <2>1, Notified DEF KickFinish, NotifyIf
  <2>2. CASE roster' = roster
    BY <1>4, <2>2, NothingShown DEF KickFinish, NotifyIf, listVars
  <2> QED BY <2>1, <2>2
<1> QED
  BY <1>1, <1>2, <1>3, <1>4 DEF Command, Invite, RetryInvites

\* handleEvent publishes what it changes: an event that reports no change has
\* changed neither the attempts, nor the list, nor the roster.
LEMMA EventPublishes ==
  ASSUME Assumptions, Typed, Typed', AttemptInvariant, PublicationInvariant, HandleEvent
  PROVE  PublicationInvariant'
<1> USE DEF Typed, LinkTyped, ServiceTyped
<1>h. Takes
  BY DEF HandleEvent, HandleFact, HandleOutdated, HandleJoin, HandleLeave, HandleClear
<1>u. UNCHANGED <<link, list, changed, states, run>>
  BY <1>h DEF Takes, listVars
<1>1. ASSUME UNCHANGED <<published, roster, invites, attempt>> PROVE PublicationInvariant'
  BY <1>1, <1>u, NothingShown
<1>2. CASE HandleFact
  <2> DEFINE e == Head(events)
             n == ApplyFact(attempt[e.call], e.kind, e.cause)
  <2>1. CASE e.call \notin invites
    BY <1>1, <1>2, <2>1 DEF HandleFact
  <2>2. CASE e.call \in invites
    <3>1. /\ ApplyCall(e.call, n)
          /\ roster' = IF e.kind = "ended" THEN roster \ {e.call} ELSE roster
          /\ NotifyIf(attempt' # attempt \/ e.kind = "ended")
      BY <1>2, <2>2 DEF HandleFact
    <3> HIDE DEF n, e
    <3>2. CASE attempt' # attempt \/ e.kind = "ended"
      BY <3>1, <3>2, Notified DEF NotifyIf
    <3>3. CASE ~(attempt' # attempt \/ e.kind = "ended")
      <4>1. attempt' = attempt /\ roster' = roster /\ UNCHANGED published
        BY <3>1, <3>3 DEF NotifyIf
      <4>2. attempt[e.call].phase # "ended"
        BY <2>2 DEF AttemptInvariant, Sane, Sound
      <4>3. n.phase # "ended"
        BY <2>2, <3>1, <4>1, <4>2 DEF ApplyCall, Over, NewCall
      <4>4. invites' = invites
        BY <3>1, <4>3 DEF ApplyCall
      <4> QED BY <1>1, <4>1, <4>4
    <3> QED BY <3>2, <3>3
  <2> QED BY <2>1, <2>2
<1>3. CASE HandleJoin
  BY <1>3, Notified DEF HandleJoin
<1>4. CASE HandleOutdated
  BY <1>1, <1>4 DEF HandleOutdated
<1>5. CASE HandleLeave
  <2>1. CASE roster' # roster
    BY <1>5, <2>1, Notified DEF HandleLeave, NotifyIf
  <2>2. CASE roster' = roster
    BY <1>1, <1>5, <2>2 DEF HandleLeave, NotifyIf
  <2> QED BY <2>1, <2>2
<1>6. CASE HandleClear
  <2>1. CASE roster # {}
    BY <1>6, <2>1, Notified DEF HandleClear, NotifyIf
  <2>2. CASE roster = {}
    BY <1>1, <1>6, <2>2 DEF HandleClear, NotifyIf
  <2> QED BY <2>1, <2>2
<1> QED
  BY <1>2, <1>3, <1>4, <1>5, <1>6 DEF HandleEvent

\* The sweep publishes nothing; what it changes is a call that is being timed out.
LEMMA SweepPublishes ==
  ASSUME Assumptions, Typed, AttemptInvariant, PublicationInvariant, NEW c \in Calls, Sweep(c)
  PROVE  PublicationInvariant'
<1> USE DEF Typed, LinkTyped, ServiceTyped
<1> DEFINE m == attempt[c]
           n == Maintenance(m, Due(c))
<1>1. c \in invites /\ m.phase # "ended" /\ m \in CallRecord
  BY DEF Sweep, AttemptInvariant, Sane, Sound
<1>2. n = m \/ (n.stop = "timeout" /\ n.phase # "ended")
  BY <1>1 DEF Maintenance, Unless, CallRecord
<1>3. ApplyCall(c, n) /\ run = "sweep" /\ UNCHANGED <<published, link, roster, states, list, changed>>
  BY DEF Sweep, listVars
<1> HIDE DEF n
<1>4. CASE n = m
  <2>1. UNCHANGED <<invites, attempt>>
    BY <1>1, <1>3, <1>4 DEF ApplyCall
  <2> QED BY <1>3, <2>1, NothingShown
<1>5. CASE n.stop = "timeout" /\ n.phase # "ended"
  BY <1>1, <1>3, <1>5 DEF ApplyCall, PublicationInvariant, Excused
<1> QED
  BY <1>2, <1>4, <1>5

\* The sections of List: forgetting shows nothing new, Replace reports what it
\* changes, and the last section publishes it.
LEMMA ListPublishes ==
  ASSUME Assumptions, Typed, AttemptInvariant, RunInvariant, PublicationInvariant, Listing
  PROVE  PublicationInvariant'
<1> USE DEF Typed, LinkTyped, ServiceTyped
<1>1. CASE HttpList
  BY <1>1, NothingShown DEF HttpList, ListStart
<1>2. CASE ListForget
  <2> DEFINE gone == Forgotten(list.found)
  <2>1. \A d \in gone : /\ d \in invites /\ attempt[d].phase = "connected"
                        /\ attempt[d].stop = "none"
    <3>1. \A d \in gone : d \in invites /\ AbsentFromConference(attempt[d]).phase = "ended"
      BY DEF Forgotten
    <3>2. \A d \in gone : attempt[d].phase # "ended" /\ attempt[d] \in CallRecord
      BY <3>1 DEF AttemptInvariant, Sane, Sound
    <3> QED BY <3>1, <3>2 DEF AbsentFromConference, Unless, Stopping, CallRecord
  <2>2. /\ UNCHANGED <<link, roster, states, run, changed, published>>
        /\ list.pc = "answered" /\ invites' = invites \ gone
        /\ \A d \in Calls \ gone : attempt'[d] = attempt[d]
    BY <1>2 DEF ListForget
  <2> HIDE DEF gone
  <2>3. Current' = Current
    <3>1. {d \in roster : ~(d \in invites' /\ Stopping(attempt'[d]))}
            = {d \in roster : ~(d \in invites /\ Stopping(attempt[d]))}
      BY <2>1, <2>2 DEF Stopping
    <3>2. {d \in invites' : attempt'[d].phase # "connected" \/ Stopping(attempt'[d])}
            = {d \in invites : attempt[d].phase # "connected" \/ Stopping(attempt[d])}
      BY <2>1, <2>2 DEF Stopping
    <3>3. \A d \in {e \in invites : attempt[e].phase # "connected" \/ Stopping(attempt[e])} :
            attempt'[d] = attempt[d]
      BY <2>1, <2>2 DEF Stopping
    <3>4. {Row(d, attempt'[d]) : d \in {e \in invites' : attempt'[e].phase # "connected"
                                                          \/ Stopping(attempt'[e])}}
            = {Row(d, attempt[d]) : d \in {e \in invites : attempt[e].phase # "connected"
                                                          \/ Stopping(attempt[e])}}
      BY <3>2, <3>3
    <3> QED BY <2>2, <3>1, <3>4 DEF Current, Snapshot
  <2> QED BY <2>1, <2>2, <2>3 DEF PublicationInvariant, Excused
<1>3. CASE ListReplace
  <2>1. /\ list.pc = "forgotten" /\ list'.pc = "replaced" /\ roster' = list.found
        /\ changed' \in {roster # list.found, TRUE}
        /\ UNCHANGED <<link, invites, attempt, published, states, run>>
    BY <1>3 DEF ListReplace
  <2>2. CASE changed'
    BY <2>1, <2>2 DEF PublicationInvariant
  <2>3. CASE ~changed'
    <3>1. roster' = roster
      BY <2>1, <2>3
    <3> QED BY <2>1, <3>1, NothingShown
  <2> QED BY <2>2, <2>3
<1>4. CASE ListFinish \/ ListFailed
  <2>1. CASE Notify
    BY <2>1, Notified
  <2>2. CASE ~Notify
    <3>1. run = "resyncNotify" => lister = "run"
      BY DEF RunInvariant, RunWaits
    <3>2. CASE ListFinish
      <4>1. /\ list.pc = "replaced" /\ run # "resyncNotify" /\ ~changed
            /\ UNCHANGED <<link, roster, invites, attempt, published, states>>
        BY <2>2, <3>1, <3>2 DEF ListFinish, NotifyIf
      <4> QED BY <4>1, NothingShown
    <3>3. CASE ListFailed
      <4>1. /\ list.pc = "broken" /\ run # "resyncNotify"
            /\ UNCHANGED <<link, roster, invites, attempt, published, states>>
        BY <2>2, <3>1, <3>3 DEF ListFailed, NotifyIf
      <4> QED BY <4>1, NothingShown
    <3> QED BY <1>4, <3>2, <3>3
  <2> QED BY <2>1, <2>2
<1> QED
  BY <1>1, <1>2, <1>3, <1>4 DEF Listing

\* Every step keeps the publication invariant.
LEMMA PublicationStep ==
  ASSUME Assumptions, Typed, Typed', AttemptInvariant, RunInvariant, PublicationInvariant,
         [Next]_vars
  PROVE  PublicationInvariant'
<1> USE DEF Typed, LinkTyped, ServiceTyped
<1>1. CASE UNCHANGED vars
  BY <1>1, NothingShown DEF vars, linkVars, serviceVars
<1>2. CASE Asterisk
  <2>1. UNCHANGED serviceVars
    BY <1>2, EnvironmentTyped
  <2>2. link' = link /\ (list.pc = "replaced" => list'.pc = "replaced")
    <3>1. CASE RepliesList \/ ReplyLost
      BY <3>1 DEF RepliesList, AsteriskLists, ReplyLost, ReplyTimesOut
    <3>2. ASSUME NEW c \in Calls,
                 \/ Proceeds(c) \/ Departs(c) \/ ObeysHangup(c) \/ ObeysKick(c) \/ Lateness(c)
          PROVE  link' = link /\ list' = list
      BY <3>2 DEF Proceeds, Departs, ObeysHangup, ObeysKick, Lateness, AsteriskAccepts,
         AsteriskRejects, Allocates, AllocationFails, DialFails, Answers, Joins, Ends, Leaves,
         AsteriskHangsUp, AsteriskKicks, DeadlinePasses
    <3> QED BY <1>2, <3>1, <3>2 DEF Asterisk
  <2> QED BY <2>1, <2>2, NothingShown DEF serviceVars
<1>3. CASE ConnectionLost \/ ConnectionRestored
  <2>1. PICK up \in BOOLEAN : Signals(up)
    BY <1>3 DEF ConnectionLost, ConnectionRestored
  <2>2. states' # <<>>
    <3>1. CASE Len(states) < StateCapacity
      <4>1. states' = Append(states, up) /\ Len(states') = Len(states) + 1
        BY <2>1, <3>1, AppendProperties DEF Signals
      <4> QED BY <4>1, LenProperties, EmptySeq
    <3>2. CASE ~(Len(states) < StateCapacity)
      <4>1. states' = states
        BY <2>1, <3>2 DEF Signals
      <4>2. Len(<<>>) = 0 /\ 0 < StateCapacity
        BY DEF Assumptions, ServiceAssumption
      <4> QED BY <3>2, <4>1, <4>2
    <3> QED BY <3>1, <3>2
  <2> QED BY <2>2 DEF PublicationInvariant, Excused
<1>4. CASE Commanding
  BY <1>4, CommandPublishes DEF Commanding, Command
<1>5. CASE Running
  <2>1. CASE HandleEvent
    BY <2>1, EventPublishes
  <2>2. CASE \E c \in Calls : Sweep(c)
    BY <2>2, SweepPublishes
  <2>3. CASE HandleDown
    BY <2>3, Notified DEF HandleDown
  <2>4. CASE HandleUp
    BY <2>4 DEF HandleUp, PublicationInvariant, Excused
  <2>5. CASE \/ Resync \/ MaintainStart \/ MaintainCheck \/ MaintainUnavailable
             \/ (\E c \in Calls : SweepSkip(c)) \/ SweepEnd
    BY <2>5, NothingShown DEF Resync, MaintainStart, MaintainCheck, MaintainUnavailable, SweepSkip,
       SweepEnd, ListStart, linkVars, listVars
  <2> QED BY <1>5, <2>1, <2>2, <2>3, <2>4, <2>5 DEF Running
<1>6. CASE Listing
  BY <1>6, ListPublishes
<1> QED
  BY <1>1, <1>2, <1>3, <1>4, <1>5, <1>6 DEF Next

\* At the start the browsers have what there is.
LEMMA PublicationInit == ASSUME Init PROVE RunInvariant /\ PublicationInvariant
<1>1. RunInvariant
  BY DEF Init, LinkInit, RunInvariant, RunWaits
<1>2. published = Current
  <2>1. Snapshot(TRUE, {}, {}, attempt) = Snapshot(link, roster, invites, attempt)
    BY DEF Init, LinkInit
  <2> QED BY <2>1 DEF Init, Current
<1> QED
  BY <1>1, <1>2 DEF PublicationInvariant

\* Run waits for a List exactly while a List of its own holds syncMu, and no
\* attempt is held by maintenance unless Run waits for its Hangup.
THEOREM RunKnowsItsPlace == Spec => [](Typed /\ AttemptInvariant /\ RunInvariant)
<1> USE CausesAssumption, LinkAssumption, ServiceAssumption DEF Assumptions
<1>1. Init => Typed /\ Shown /\ AttemptInvariant /\ RunInvariant
  BY InitTyped, AttemptInit, PublicationInit
<1>2. Typed /\ Shown /\ AttemptInvariant /\ RunInvariant /\ [Next]_vars
        => (Typed /\ Shown /\ AttemptInvariant /\ RunInvariant)'
  BY NextTyped, AttemptStep, RunStep
<1> QED
  BY <1>1, <1>2, PTL DEF Spec

\* What the browsers were last sent is what the service would send now, except
\* while a publication is due or under way, whatever other goroutines publish
\* between the sections of List.
THEOREM BrowsersAreUpToDate == Spec => []PublishedIsCurrent
<1> USE CausesAssumption, LinkAssumption, ServiceAssumption DEF Assumptions
<1>1. Init => PublicationInvariant
  BY PublicationInit
<1>2. Typed /\ Typed' /\ AttemptInvariant /\ RunInvariant /\ PublicationInvariant /\ [Next]_vars
        => PublicationInvariant'
  BY PublicationStep
<1>3. PublicationInvariant => PublishedIsCurrent
  BY DEF PublicationInvariant, Excused, PublishedIsCurrent
<1> QED
  BY <1>1, <1>2, <1>3, RunKnowsItsPlace, PTL DEF Spec

\* An attempt that waits for an outcome and is not being hung up.
Waiting(m) == Pending(m) /\ m.stop = "none"

\* No input but maintenance makes an attempt wait again, or times it out.
LEMMA CallsWait ==
  ASSUME NEW m \in CallRecord,
         NEW n, \/ n \in {m, Over, AcknowledgementUnknown(m), Rejected(m), Cancel(m), Joined(m),
                          AbsentFromConference(m)}
                \/ \E late \in BOOLEAN : n = ChannelMissing(m, late)
                \/ \E kind \in Facts, why \in Causes \union {NoFailure} :
                     n = ApplyFact(m, kind, why)
  PROVE  (Waiting(n) => Waiting(m)) /\ (m.stop = "none" => n.stop # "timeout")
<1> USE DEF CallRecord, Phases, StopReasons, Waiting, Pending, Stopping, Unless
<1>1. CASE n \in {m, Over, AcknowledgementUnknown(m), Rejected(m), Cancel(m), Joined(m),
                  AbsentFromConference(m)}
  BY <1>1 DEF Over, NewCall, AcknowledgementUnknown, Rejected, Cancel, Joined,
              AbsentFromConference
<1>2. ASSUME NEW late \in BOOLEAN, n = ChannelMissing(m, late)
      PROVE  (Waiting(n) => Waiting(m)) /\ (m.stop = "none" => n.stop # "timeout")
  BY <1>2 DEF ChannelMissing, FinishStop
<1>3. ASSUME NEW kind \in Facts, NEW why \in Causes \union {NoFailure}, n = ApplyFact(m, kind, why)
      PROVE  (Waiting(n) => Waiting(m)) /\ (m.stop = "none" => n.stop # "timeout")
  <2>1. CASE n \in {ChannelObserved(m), FailureObserved(m, why), Answered(m)}
    BY <2>1 DEF ChannelObserved, FailureObserved, Answered
  <2>2. CASE n \in {OriginationFailed(m, why), ChannelEnded(m, why)}
    BY <2>2 DEF OriginationFailed, ChannelEnded, Fail, FinishStop
  <2> QED BY <1>3, <2>1, <2>2 DEF ApplyFact, Facts
<1> QED
  BY <1>1, <1>2, <1>3

\* The same of a step.
Restful(d) == (Waiting(attempt'[d]) => Waiting(attempt[d]))
              /\ (attempt[d].stop = "none" => attempt'[d].stop # "timeout")

\* Applying such an input to one attempt.
LEMMA AppliedRestful ==
  ASSUME ServiceTyped, NEW c \in Calls, NEW n, ApplyCall(c, n),
         \/ n \in {attempt[c], Over, AcknowledgementUnknown(attempt[c]), Rejected(attempt[c]),
                   Cancel(attempt[c]), Joined(attempt[c]), AbsentFromConference(attempt[c])}
         \/ \E late \in BOOLEAN : n = ChannelMissing(attempt[c], late)
         \/ \E kind \in Facts, why \in Causes \union {NoFailure} :
              n = ApplyFact(attempt[c], kind, why)
  PROVE  \A d \in Calls : Restful(d)
<1>1. attempt[c] \in CallRecord
  BY DEF ServiceTyped
<1>2. Restful(c)
  <2>1. (Waiting(n) => Waiting(attempt[c])) /\ (attempt[c].stop = "none" => n.stop # "timeout")
    BY <1>1, CallsWait
  <2>2. attempt'[c] = n \/ attempt'[c] = Over
    BY DEF ApplyCall, ServiceTyped
  <2> QED BY <2>1, <2>2 DEF Restful, Waiting, Pending, Over, NewCall
<1>3. \A d \in Calls : d # c => attempt'[d] = attempt[d]
  BY DEF ApplyCall, ServiceTyped
<1>4. \A d \in Calls : attempt'[d] = attempt[d] => Restful(d)
  BY DEF Restful
<1> QED
  BY <1>2, <1>3, <1>4

\* Whatever is not a step of the sweep makes no call wait and times no call out.
LEMMA RestfulStep ==
  ASSUME Assumptions, Typed, [Next]_vars, ~\E c \in Calls : Sweep(c)
  PROVE  \A d \in Calls : Restful(d)
<1> USE DEF Typed, LinkTyped
<1>0. UNCHANGED attempt => \A d \in Calls : Restful(d)
  BY DEF Restful
<1>a. \A d \in Calls : attempt[d] \in CallRecord
  BY DEF ServiceTyped
<1>1. CASE UNCHANGED vars \/ Asterisk \/ ConnectionLost \/ ConnectionRestored
  <2>1. UNCHANGED attempt
    BY <1>1, EnvironmentTyped DEF vars, serviceVars, ConnectionLost, ConnectionRestored
  <2> QED BY <1>0, <2>1
<1>2. ASSUME NEW c \in Calls, Command(c) PROVE \A d \in Calls : Restful(d)
  <2>1. CASE InviteFinish(c)
    BY <1>0, <2>1, AppliedRestful DEF InviteFinish
  <2>2. CASE CancelDismiss(c) \/ CancelStart(c)
    BY <2>2, AppliedRestful DEF CancelDismiss, CancelStart
  <2>3. CASE HangupFinish(c)
    <3>1. UNCHANGED attempt \/ ApplyCall(c, ChannelMissing(attempt[c], overdue[c]))
      BY <2>3 DEF HangupFinish
    <3>2. overdue[c] \in BOOLEAN
      OBVIOUS
    <3> QED BY <1>0, <3>1, <3>2, AppliedRestful
  <2>4. CASE \/ Invite(c) \/ RetryStart(c) \/ (\E old \in Calls : RetryInvites(old, c))
             \/ RetryRefused(c) \/ RetryFinish(c) \/ KickStart(c) \/ KickFinish(c)
    BY <1>0, <2>4 DEF Invite, InviteStart, RetryStart, RetryInvites, RetryRefused, RetryFinish,
                      KickStart, KickFinish, serviceVars
  <2> QED BY <1>2, <2>1, <2>2, <2>3, <2>4 DEF Command
<1>3. CASE HandleEvent
  <2> DEFINE e == Head(events)
  <2>e. e.call \in Calls /\ e.cause \in Causes \union {NoFailure}
    <3>1. events # <<>>
      BY <1>3 DEF HandleEvent, HandleFact, HandleOutdated, HandleJoin, HandleLeave, HandleClear,
                  Takes
    <3>2. e \in Event
      BY <3>1, Tails
    <3> QED BY <3>2 DEF Event, NoFailure, Unknown, Assumptions, CausesAssumption, ServiceAssumption
  <2> HIDE DEF e
  <2>1. CASE HandleFact
    <3>1. UNCHANGED attempt \/ ApplyCall(e.call, ApplyFact(attempt[e.call], e.kind, e.cause))
      BY <2>1 DEF HandleFact, e
    <3>2. e.kind \in Facts
      BY <2>1 DEF HandleFact, e
    <3> QED BY <1>0, <2>e, <3>1, <3>2, AppliedRestful
  <2>2. CASE HandleJoin
    <3>1. UNCHANGED attempt \/ ApplyCall(e.call, Joined(attempt[e.call]))
      BY <2>2 DEF HandleJoin, e
    <3> QED BY <1>0, <2>e, <3>1, AppliedRestful
  <2>3. CASE HandleOutdated \/ HandleLeave \/ HandleClear
    BY <1>0, <2>3 DEF HandleOutdated, HandleLeave, HandleClear
  <2> QED BY <1>3, <2>1, <2>2, <2>3 DEF HandleEvent
<1>4. CASE Running /\ ~HandleEvent
  BY <1>0, <1>4 DEF Running, HandleUp, HandleDown, Resync, MaintainStart, MaintainCheck, ListStart,
                    MaintainUnavailable, SweepSkip, SweepEnd, linkVars
<1>5. CASE Listing
  <2>1. CASE HttpList \/ ListReplace \/ ListFailed
    BY <1>0, <2>1 DEF HttpList, ListStart, ListReplace, ListFailed
  <2>2. CASE ListForget
    <3>1. \A d \in Calls : attempt'[d] \in {attempt[d], Over}
      BY <2>2 DEF ListForget
    <3> QED BY <1>a, <3>1, CallsWait DEF Restful
  <2>3. CASE ListFinish
    <3>1. \A d \in Calls : attempt'[d] \in {attempt[d], Joined(attempt[d])}
      BY <2>3 DEF ListFinish, ReconcileJoined
    <3> QED BY <1>a, <3>1, CallsWait DEF Restful
  <2> QED BY <1>5, <2>1, <2>2, <2>3 DEF Listing
<1> QED
  BY <1>1, <1>2, <1>3, <1>4, <1>5 DEF Next, Commanding, Command

\* A call is listed only before it has a channel, and a channel does not vanish.
LEMMA ListedLate ==
  ASSUME Assumptions, Typed, [Next]_vars, NEW d \in Calls
  PROVE  /\ d \in invites' /\ d \notin invites => channel[d] = "none"
         /\ channel'[d] = "none" => channel[d] = "none"
<1> USE DEF Typed, LinkTyped, ServiceTyped
<1>1. CASE \/ UNCHANGED vars \/ Asterisk \/ ConnectionLost \/ ConnectionRestored
  <2>1. UNCHANGED invites
    BY <1>1, EnvironmentTyped DEF vars, serviceVars, ConnectionLost, ConnectionRestored
  <2>2. channel'[d] = "none" => channel[d] = "none"
    BY <1>1, ChannelsStay DEF vars, linkVars
  <2> QED BY <2>1, <2>2
<1>2. ASSUME NEW c \in Calls, NEW old, InviteStart(c, old)
      PROVE  /\ d \in invites' /\ d \notin invites => channel[d] = "none"
             /\ channel'[d] = "none" => channel[d] = "none"
  BY <1>2 DEF InviteStart
<1>3. ASSUME NEW c \in Calls, Command(c), ~\E old : InviteStart(c, old)
      PROVE  (d \in invites' => d \in invites) /\ channel' = channel
  BY <1>3 DEF Command, Invite, InviteFinish, CancelDismiss, CancelStart, HangupFinish, RetryStart,
              RetryInvites, RetryRefused, RetryFinish, KickStart, KickFinish, ApplyCall, linkVars,
              serviceVars
<1>4. CASE HandleEvent
  BY <1>4 DEF HandleEvent, HandleFact, HandleOutdated, HandleJoin, HandleLeave, HandleClear, Takes,
              ApplyCall
<1>5. CASE Running /\ ~HandleEvent
  BY <1>5 DEF Running, HandleUp, HandleDown, Resync, MaintainStart, MaintainCheck, ListStart,
              MaintainUnavailable, SweepSkip, Sweep, SweepEnd, ApplyCall, linkVars
<1>6. CASE Listing
  BY <1>6 DEF Listing, HttpList, ListStart, ListForget, ListReplace, ListFinish, ListFailed
<1> QED
  BY <1>1, <1>2, <1>3, <1>4, <1>5, <1>6 DEF Next, Commanding, Command

\* A listed call that waits for an outcome.
Unresolved(c) == c \in invites /\ Waiting(attempt[c])

\* In the sweep, a call that is due and still unresolved was absent from the roster
\* the pass has asked for.
SweepInvariant ==
  /\ \A c \in pass.todo : channel[c] # "none"
  /\ run \in {"sweep", "hangup"} =>
       \A c \in pass.todo \intersect pass.due : Unresolved(c) => c \in pass.absent

\* The pass only forgets what it has swept: nothing due becomes unresolved.
LEMMA PassShrinks ==
  ASSUME Assumptions, Typed, Typed', AttemptInvariant, SweepInvariant, [Next]_vars,
         \A d \in pass'.todo : d \in pass.todo, pass'.due = pass.due, pass'.absent = pass.absent,
         \A d \in pass'.todo : Waiting(attempt'[d]) => Waiting(attempt[d]),
         run' \in {"sweep", "hangup"} => run \in {"sweep", "hangup"}
  PROVE  SweepInvariant'
<1> USE DEF Typed, ServiceTyped
<1>1. ASSUME NEW d \in pass'.todo
      PROVE  channel'[d] # "none" /\ (Unresolved(d)' => Unresolved(d))
  <2>1. d \in Calls /\ channel[d] # "none"
    BY <1>1 DEF SweepInvariant
  <2>2. /\ d \in invites' /\ d \notin invites => channel[d] = "none"
        /\ channel'[d] = "none" => channel[d] = "none"
    BY <2>1, ListedLate
  <2> QED BY <1>1, <2>1, <2>2 DEF Unresolved
<1> QED
  BY <1>1 DEF SweepInvariant

\* Every step keeps the sweep invariant.
LEMMA SweepStep ==
  ASSUME Assumptions, Typed, Typed', AttemptInvariant, RunInvariant, SweepInvariant, [Next]_vars
  PROVE  SweepInvariant'
<1> USE DEF Typed, LinkTyped, ServiceTyped
<1>1. ASSUME NEW c \in Calls, Sweep(c) PROVE SweepInvariant'
  <2>1. /\ pass' = [pass EXCEPT !.todo = @ \ {c}] /\ run = "sweep"
        /\ \A d \in Calls : d # c => attempt'[d] = attempt[d]
    BY <1>1 DEF Sweep, ApplyCall
  <2> QED BY <1>1, <2>1, PassShrinks
<1>2. CASE ~\E c \in Calls : Sweep(c)
  <2>0. \A d \in Calls : Waiting(attempt'[d]) => Waiting(attempt[d])
    BY <1>2, RestfulStep DEF Restful
  <2>1. ASSUME UNCHANGED pass, run' \in {"sweep", "hangup"} => run \in {"sweep", "hangup"}
        PROVE  SweepInvariant'
    BY <2>0, <2>1, PassShrinks
  <2>2. CASE UNCHANGED vars \/ Asterisk \/ ConnectionLost \/ ConnectionRestored
    <3>1. UNCHANGED <<pass, run>>
      BY <2>2, EnvironmentTyped DEF vars, serviceVars, ConnectionLost, ConnectionRestored
    <3> QED BY <2>1, <3>1
  <2>3. ASSUME NEW c \in Calls, Command(c) PROVE SweepInvariant'
    <3>1. CASE HangupFinish(c)
      <4>1. pass' = pass /\ (run' = run \/ op[c] = "maintain")
        BY <3>1 DEF HangupFinish
      <4>2. op[c] = "maintain" => run = "hangup"
        BY DEF RunInvariant
      <4> QED BY <2>1, <4>1, <4>2
    <3>2. CASE ~HangupFinish(c)
      <4>1. UNCHANGED <<pass, run>>
        BY <2>3, <3>2 DEF Command, Invite, InviteStart, InviteFinish, CancelDismiss, CancelStart,
           RetryStart, RetryInvites, RetryRefused, RetryFinish, KickStart, KickFinish, serviceVars
      <4> QED BY <2>1, <4>1
    <3> QED BY <3>1, <3>2
  <2>4. CASE HandleEvent
    <3>1. UNCHANGED <<pass, run>>
      BY <2>4 DEF HandleEvent, HandleFact, HandleOutdated, HandleJoin, HandleLeave, HandleClear,
                  Takes
    <3> QED BY <2>1, <3>1
  <2>5. CASE HandleUp \/ HandleDown \/ Resync \/ MaintainCheck
    <3>1. pass' = pass /\ (run' \in {"sweep", "hangup"} => run' = run)
      BY <2>5 DEF HandleUp, HandleDown, Resync, MaintainCheck, ListStart
    <3> QED BY <2>1, <3>1
  <2>6. CASE MaintainUnavailable \/ SweepEnd
    BY <2>6 DEF MaintainUnavailable, SweepEnd, NoPass, SweepInvariant
  <2>7. ASSUME NEW c \in Calls, SweepSkip(c) PROVE SweepInvariant'
    <3>1. pass' = [pass EXCEPT !.todo = @ \ {c}] /\ run' = run
      BY <2>7 DEF SweepSkip
    <3> QED BY <2>0, <3>1, PassShrinks
  <2>8. CASE MaintainStart
    <3> DEFINE todo == {d \in invites : Pending(attempt[d]) \/ Stopping(attempt[d])}
    <3>1. /\ UNCHANGED <<invites, attempt, channel>>
          /\ pass'.todo = todo /\ pass'.due = {d \in todo : overdue[d]}
          /\ run' \in {"sweep", "hangup"} =>
               \A d \in todo : ~NeedsReconcile(attempt[d], d \in pass'.due)
      BY <2>8 DEF MaintainStart, linkVars
    <3>2. \A d \in todo : channel'[d] # "none"
      BY <3>1 DEF AttemptInvariant, Sane
    <3>3. run' \in {"sweep", "hangup"} => \A d \in pass'.due : ~Waiting(attempt'[d])
      BY <3>1 DEF NeedsReconcile, Waiting, Stopping
    <3> QED BY <3>1, <3>2, <3>3 DEF SweepInvariant, Unresolved
  <2>9. CASE HttpList \/ ListForget \/ ListReplace
    BY <2>1, <2>9 DEF HttpList, ListStart, ListForget, ListReplace
  <2>10. CASE ListFailed
    <3>1. CASE lister = "run" /\ run = "checking"
      BY <2>10, <3>1 DEF ListFailed, AfterList, NoPass, SweepInvariant
    <3>2. CASE ~(lister = "run" /\ run = "checking")
      <4>1. pass' = pass /\ (run' = run \/ run' = "select")
        BY <2>10, <3>2 DEF ListFailed, AfterList
      <4> QED BY <2>1, <4>1
    <3> QED BY <3>1, <3>2
  <2>11. CASE ListFinish
    <3>1. CASE lister = "run" /\ run = "checking"
      <4>1. /\ pass'.todo = pass.todo /\ pass'.absent = Calls \ list.found
            /\ invites' = invites /\ channel' = channel
            /\ \A d \in Calls : attempt'[d] = IF d \in invites \intersect list.found
                                              THEN Joined(attempt[d]) ELSE attempt[d]
        BY <2>11, <3>1 DEF ListFinish, ReconcileJoined
      <4>2. \A d \in pass'.todo : Unresolved(d)' => d \notin list.found
        <5>1. \A d \in invites : ~Waiting(Joined(attempt[d]))
          BY DEF Waiting, Pending, Joined, Unless, CallRecord
        <5> QED BY <4>1, <5>1 DEF Unresolved
      <4> QED BY <4>1, <4>2 DEF SweepInvariant
    <3>2. CASE ~(lister = "run" /\ run = "checking")
      <4>1. pass' = pass /\ (run' = run \/ run' = "select")
        BY <2>11, <3>2 DEF ListFinish, AfterList
      <4> QED BY <2>1, <4>1
    <3> QED BY <3>1, <3>2
  <2> QED
    BY <1>2, <2>2, <2>3, <2>4, <2>5, <2>6, <2>7, <2>8, <2>9, <2>10, <2>11
       DEF Next, Commanding, Command, Running, Listing
<1> QED
  BY <1>1, <1>2

\* A deadline cancels a call only in a pass that has asked who is in the conference
\* and not found it there, however the call, the roster and the deadline race.
THEOREM TimeoutsFollowTheRoster == Spec => TimeoutOnlyAfterRosterCheck
<1> USE CausesAssumption, LinkAssumption, ServiceAssumption DEF Assumptions
<1>1. Init => SweepInvariant
  BY DEF Init, SweepInvariant
<1>2. Typed /\ Typed' /\ AttemptInvariant /\ RunInvariant /\ SweepInvariant /\ [Next]_vars
        => SweepInvariant'
  BY SweepStep
<1>3. ASSUME Typed, SweepInvariant, [Next]_vars, NEW c \in Calls,
             attempt[c].stop = "none", attempt'[c].stop = "timeout"
      PROVE  c \in pass.absent
  <2>1. PICK d \in Calls : Sweep(d)
    BY <1>3, RestfulStep DEF Restful
  <2>2. d = c
    BY <1>3, <2>1 DEF Sweep, ApplyCall, Typed, ServiceTyped
  <2>3. Waiting(attempt[c]) /\ c \in pass.due
    <3> DEFINE n == Maintenance(attempt[c], Due(c))
    <3>1. ApplyCall(c, n) /\ n.stop # "timeout" => attempt'[c].stop # "timeout"
      BY <1>3 DEF ApplyCall, Over, NewCall, Typed, ServiceTyped
    <3>2. n.stop = "timeout"
      BY <1>3, <2>1, <2>2, <3>1 DEF Sweep
    <3> QED BY <1>3, <3>2 DEF Maintenance, Unless, NeedsReconcile, Waiting, Due, Stopping
  <2> QED BY <1>3, <2>1, <2>2, <2>3 DEF Sweep, SweepInvariant, Unresolved
<1>4. Typed /\ SweepInvariant /\ [Next]_vars =>
        [\A c \in Calls : attempt[c].stop = "none" /\ attempt'[c].stop = "timeout"
                            => c \in pass.absent]_vars
  BY <1>3
<1> QED
  BY <1>1, <1>2, <1>4, RunKnowsItsPlace, PTL DEF Spec, TimeoutOnlyAfterRosterCheck
===============================================================================
