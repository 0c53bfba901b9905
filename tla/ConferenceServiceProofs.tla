------------------------ MODULE ConferenceServiceProofs ------------------------
(***************************************************************************)
(* TypeOK of the conference service for any calls, capacities and faults,  *)
(* then its attempts, and then its verdicts, NoVerdictOnLiveCall.          *)
(*                                                                         *)
(* The type invariant is split by who changes it: what the link keeps,     *)
(* what the service keeps, and the positions in the queue that a List in   *)
(* progress remembers (Queued), which hold because only List and the       *)
(* handler of events move them and the queue only grows between the two.   *)
(*                                                                         *)
(* The argument for the verdicts is that channels only move on (Onward):   *)
(* what a packet, a reply or a roster said of a channel when it was sent   *)
(* is still true when it is handled, however late (Founded,                *)
(* EventsAreTrue).  The one reply for which that fails, "no such channel"  *)
(* before the channel is allocated, is what stale records.                 *)
(***************************************************************************)
EXTENDS ConferenceService, SequenceTheorems, TLAPS

\* Every input of callModel leaves a well-formed attempt.
LEMMA CallTypes ==
  ASSUME CausesAssumption, NEW m \in CallRecord
  PROVE  /\ AcknowledgementUnknown(m) \in CallRecord /\ Rejected(m) \in CallRecord
         /\ Cancel(m) \in CallRecord /\ Joined(m) \in CallRecord
         /\ AbsentFromConference(m) \in CallRecord
         /\ \A late \in BOOLEAN : /\ Maintenance(m, late) \in CallRecord
                                  /\ ChannelMissing(m, late) \in CallRecord
         /\ \A kind \in Facts, why \in Causes \union {NoFailure} :
              ApplyFact(m, kind, why) \in CallRecord
<1> USE DEF CallRecord, Unless, Phases, StopReasons, Failures
<1>1. AcknowledgementUnknown(m) \in CallRecord /\ Rejected(m) \in CallRecord
  BY DEF AcknowledgementUnknown, Rejected
<1>2. Cancel(m) \in CallRecord /\ Joined(m) \in CallRecord
  BY DEF Cancel, Joined
<1>3. AbsentFromConference(m) \in CallRecord
  BY DEF AbsentFromConference
<1>4. FinishStop(m) \in CallRecord
  BY DEF FinishStop
<1>5. ASSUME NEW late \in BOOLEAN
      PROVE  Maintenance(m, late) \in CallRecord /\ ChannelMissing(m, late) \in CallRecord
  BY <1>4 DEF Maintenance, ChannelMissing
<1>6. ASSUME NEW kind \in Facts, NEW why \in Causes \union {NoFailure}
      PROVE  ApplyFact(m, kind, why) \in CallRecord
  <2>1. Fail(m, why) \in CallRecord
    BY DEF Fail
  <2>2. ChannelObserved(m) \in CallRecord /\ FailureObserved(m, why) \in CallRecord
    BY DEF ChannelObserved, FailureObserved
  <2>3. Answered(m) \in CallRecord
    BY DEF Answered
  <2>4. OriginationFailed(m, why) \in CallRecord /\ ChannelEnded(m, why) \in CallRecord
    BY <1>4, <2>1 DEF OriginationFailed, ChannelEnded
  <2> QED
    BY <2>2, <2>3, <2>4 DEF ApplyFact, Facts
<1> QED
  BY <1>1, <1>2, <1>3, <1>5, <1>6

\* The queue only grows when packets are read, within its capacity, and keeps
\* its element type S; a packet that does not fit is remembered in missed.
LEMMA SendGrows ==
  ASSUME LinkAssumption, NEW S, events \in Seq(S), Len(events) <= QueueCapacity,
         NEW batch \in Seq(S), Send(batch)
  PROVE  /\ events' \in Seq(S) /\ Len(events') <= QueueCapacity
         /\ Len(events) <= Len(events')
         /\ missed' \in {missed, "since"}
<1>1. CASE link
  <2> DEFINE room == QueueCapacity - Len(events)
             kept == IF Len(batch) <= room THEN Len(batch) ELSE room
  <2>1. /\ kept \in Nat /\ kept <= Len(batch) /\ kept <= room
        /\ Len(events) \in Nat /\ Len(batch) \in Nat /\ QueueCapacity \in Nat
    BY DEF LinkAssumption
  <2>2. SubSeq(batch, 1, kept) \in Seq(S) /\ Len(SubSeq(batch, 1, kept)) = kept
    BY <2>1, SubSeqProperties
  <2>3. events' = events \o SubSeq(batch, 1, kept) /\ missed' \in {missed, "since"}
    BY <1>1 DEF Send
  <2> HIDE DEF kept, room
  <2>4. events' \in Seq(S) /\ Len(events') = Len(events) + kept
    BY <2>2, <2>3, ConcatProperties
  <2> QED
    BY <2>1, <2>3, <2>4 DEF room
<1>2. CASE ~link
  BY <1>2 DEF Send
<1> QED
  BY <1>1, <1>2

\* The variables of AsteriskLink.
LinkTyped ==
  /\ link \in BOOLEAN
  /\ channel \in [Calls -> ChannelStates]
  /\ command \in [Calls -> Commands]
  /\ kick \in [Calls -> {"none", "sent", "ok", "broken"}]
  /\ list \in [pc : ListPlaces, found : SUBSET Calls]
  /\ events \in Seq(Event) /\ Len(events) <= QueueCapacity
  /\ overdue \in [Calls -> BOOLEAN]
  /\ faults \in 0..MaxFaults
  /\ stale \subseteq Calls
  /\ missed \in {"none", "before", "since"}

\* The variables of the service, but for the snapshot and the queue positions.
ServiceTyped ==
  /\ attempt \in [Calls -> CallRecord]
  /\ invites \subseteq Calls
  /\ op \in [Calls -> OpStates]
  /\ parent \in [Calls -> Calls \cup {NoCall}]
  /\ roster \subseteq Calls
  /\ lister \in {"run", "http"} /\ changed \in BOOLEAN
  /\ states \in Seq(BOOLEAN) /\ Len(states) <= StateCapacity
  /\ run \in RunStates
  /\ pass \in [todo : SUBSET Calls, due : SUBSET Calls, absent : SUBSET Calls]

\* The snapshot the browsers have.
Shown == published \in [connected : BOOLEAN, participants : SUBSET Calls,
                        rows : SUBSET SnapshotRow]

\* outdated and boundary are positions in the queue; a boundary is kept only
\* between the request of a list and its roster.
Queued == /\ outdated \in 0..Len(events) /\ boundary \in 0..Len(events)
          /\ list.pc \in {"idle", "forgotten", "replaced"} => boundary = 0

\* The assumptions on the constants, by one name.
Assumptions == CausesAssumption /\ LinkAssumption /\ ServiceAssumption

\* The two constructors make events.
LEMMA EventTyped ==
  ASSUME NEW kind \in Facts \union Happenings, NEW c \in Calls,
         NEW cause \in DialFailures \union {"", "Connection failed"}
  PROVE  Fact(kind, c, cause) \in Event
  BY DEF Fact, Event

\* Asterisk's steps keep the types and leave the service alone.
LEMMA EnvironmentTyped ==
  ASSUME Assumptions, LinkTyped, Queued, Asterisk
  PROVE  LinkTyped' /\ Queued' /\ UNCHANGED serviceVars
<1> USE DEF Assumptions, LinkTyped
<1>u. UNCHANGED serviceVars
  BY DEF Asterisk, Proceeds, Departs, ObeysHangup, ObeysKick, Lateness, RepliesList, ReplyLost
<1>q. SUFFICES LinkTyped' /\ Len(events) <= Len(events') /\ Len(events') \in Nat
                 /\ (list'.pc = list.pc \/ list'.pc \in {"answered", "broken"})
  BY <1>u, LenProperties DEF Queued, serviceVars
<1>b. \A batch \in Seq(Event) : Send(batch) =>
        /\ events' \in Seq(Event) /\ Len(events') <= QueueCapacity
        /\ Len(events) <= Len(events') /\ Len(events') \in Nat
        /\ missed' \in {"none", "before", "since"}
  BY SendGrows, LenProperties
<1>t. \A d, e, f \in Event :
        <<d>> \in Seq(Event) /\ <<d, e>> \in Seq(Event) /\ <<d, e, f>> \in Seq(Event)
  OBVIOUS
<1>s. Len(events) \in Nat /\ Len(events) <= Len(events)
  BY LenProperties
<1> HIDE DEF Assumptions
<1>1. CASE RepliesList
  BY <1>1, <1>s DEF RepliesList, AsteriskLists, Members, ListPlaces
<1>2. CASE ReplyLost
  BY <1>2, <1>s DEF ReplyLost, ReplyTimesOut, Assumptions, LinkAssumption, ListPlaces, Commands
<1>3. ASSUME NEW c \in Calls,
             Proceeds(c) \/ Departs(c) \/ ObeysHangup(c) \/ ObeysKick(c) \/ Lateness(c)
      PROVE  /\ LinkTyped' /\ Len(events) <= Len(events') /\ Len(events') \in Nat
             /\ list'.pc = list.pc
  <2>e. \A kind \in Facts \union Happenings :
          /\ Happens(kind, c) \in Event
          /\ \A cause \in DialFailures \union {"Connection failed"} :
               Fact(kind, c, cause) \in Event
    BY EventTyped DEF Happens
  <2>1. CASE \/ AsteriskAccepts(c) \/ AsteriskRejects(c) \/ AsteriskKicks(c)
             \/ DeadlinePasses(c)
    <3>1. CASE AsteriskAccepts(c) \/ AsteriskRejects(c)
      BY <1>s, <3>1 DEF AsteriskAccepts, AsteriskRejects, Moves, Commands, ChannelStates
    <3>4. CASE AsteriskKicks(c)
      BY <1>s, <3>4 DEF AsteriskKicks, ChannelStates
    <3>5. CASE DeadlinePasses(c)
      BY <1>s, <3>5 DEF DeadlinePasses
    <3> QED BY <2>1, <3>1, <3>4, <3>5
  <2>2. CASE Allocates(c) \/ AllocationFails(c) \/ Answers(c) \/ Ends(c)
    <3>2. /\ Happens("channel", c) \in Event /\ Happens("answered", c) \in Event
          /\ Fact("originationFailed", c, "Connection failed") \in Event
          /\ Fact("ended", c, "Connection failed") \in Event
      BY <2>e DEF Facts, Happenings
    <3>3. CASE Allocates(c)
      BY <1>b, <1>t, <3>2, <3>3 DEF Allocates, Moves, ChannelStates
    <3>4. CASE AllocationFails(c)
      BY <1>b, <1>t, <3>2, <3>4 DEF AllocationFails, Moves, ChannelStates
    <3>5. CASE Answers(c)
      BY <1>b, <1>t, <3>2, <3>5 DEF Answers, Moves, ChannelStates
    <3>6. CASE Ends(c)
      BY <1>b, <1>t, <3>2, <3>6 DEF Ends, Moves, ChannelStates
    <3> QED BY <2>2, <3>3, <3>4, <3>5, <3>6
  <2>3. CASE DialFails(c)
    <3>1. PICK why \in DialFailures :
            \/ Send(<<Fact("dialend", c, why),
                      Fact("originationFailed", c, "Connection failed"),
                      Fact("ended", c, "Connection failed")>>)
            \/ Send(<<Fact("ended", c, "Connection failed"), Fact("dialend", c, why)>>)
      BY <2>3 DEF DialFails
    <3>2. /\ Fact("dialend", c, why) \in Event /\ Fact("ended", c, "Connection failed") \in Event
          /\ Fact("originationFailed", c, "Connection failed") \in Event
      BY <2>e DEF Facts
    <3>3. /\ events' \in Seq(Event) /\ Len(events') <= QueueCapacity
          /\ Len(events) <= Len(events') /\ Len(events') \in Nat
          /\ missed' \in {"none", "before", "since"}
      BY <1>b, <1>t, <3>1, <3>2
    <3> QED BY <2>3, <3>3 DEF DialFails, Moves, ChannelStates
  <2>4. CASE Joins(c) \/ Leaves(c)
    <3>1. /\ Happens("start", c) \in Event /\ Happens("join", c) \in Event
          /\ Happens("leave", c) \in Event /\ Happens("end", c) \in Event
      BY <2>e DEF Happenings
    <3>2. /\ events' \in Seq(Event) /\ Len(events') <= QueueCapacity
          /\ Len(events) <= Len(events') /\ Len(events') \in Nat
          /\ missed' \in {"none", "before", "since"}
      <4>1. PICK batch \in Seq(Event) : Send(batch)
        BY <2>4, <1>t, <3>1 DEF Joins, Leaves
      <4> QED BY <1>b, <4>1
    <3> QED BY <2>4, <3>2 DEF Joins, Leaves, Moves, ChannelStates
  <2>5. CASE AsteriskHangsUp(c)
    <3>1. /\ Fact("originationFailed", c, "Connection failed") \in Event
          /\ Fact("ended", c, "Connection failed") \in Event
      BY <2>e DEF Facts
    <3>2. /\ events' \in Seq(Event) /\ Len(events') <= QueueCapacity
          /\ Len(events) <= Len(events') /\ Len(events') \in Nat
          /\ missed' \in {"none", "before", "since"}
      <4>1. UNCHANGED <<events, missed>> \/ \E batch \in Seq(Event) : Send(batch)
        BY <2>5, <1>t, <3>1 DEF AsteriskHangsUp
      <4> QED BY <1>b, <1>s, <4>1
    <3> QED BY <2>5, <3>2 DEF AsteriskHangsUp, ChannelStates, Commands
  <2> QED
    BY <1>3, <2>1, <2>2, <2>3, <2>4, <2>5 DEF Proceeds, Departs, ObeysHangup, ObeysKick, Lateness
<1> QED
  BY <1>1, <1>2, <1>3 DEF Asterisk

\* applyCallLocked keeps attempts and list well-formed.
LEMMA CallApplied ==
  ASSUME Assumptions, ServiceTyped, NEW c \in Calls, NEW m \in CallRecord, ApplyCall(c, m)
  PROVE  attempt' \in [Calls -> CallRecord] /\ invites' \subseteq Calls
<1>1. Over \in CallRecord
  BY DEF Assumptions, CausesAssumption, Over, NewCall, CallRecord, Phases, StopReasons, Failures
<1> QED
  BY <1>1 DEF ApplyCall, ServiceTyped

\* notify delivers a well-formed snapshot.
LEMMA PublishedTyped ==
  ASSUME Assumptions, LinkTyped', ServiceTyped', Shown, Notify \/ UNCHANGED published
  PROVE  Shown'
<1>1. CASE UNCHANGED published
  BY <1>1 DEF Shown
<1>2. CASE Notify
  <2>1. \A c \in Calls, m \in CallRecord : Row(c, m) \in SnapshotRow
    BY DEF Row, RowState, RowReason, SnapshotRow, CallRecord, Failures, NoFailure
  <2>2. published' = Snapshot(link', roster', invites', attempt')
    BY <1>2 DEF Notify
  <2>3. Snapshot(link', roster', invites', attempt')
          \in [connected : BOOLEAN, participants : SUBSET Calls, rows : SUBSET SnapshotRow]
    <3>1. \A c \in invites' : c \in Calls /\ attempt'[c] \in CallRecord
      BY DEF ServiceTyped
    <3>2. {Row(c, attempt'[c]) : c \in {d \in invites' : attempt'[d].phase # "connected"
                                             \/ Stopping(attempt'[d])}} \subseteq SnapshotRow
      BY <2>1, <3>1
    <3>3. link' \in BOOLEAN /\ roster' \subseteq Calls
      BY DEF LinkTyped, ServiceTyped
    <3> QED BY <3>2, <3>3 DEF Snapshot
  <2> QED BY <2>2, <2>3 DEF Shown
<1> QED
  BY <1>1, <1>2

\* Everything but the snapshot.
Typed == LinkTyped /\ ServiceTyped /\ Queued

\* One command of one attempt.
Command(c) == \/ Invite(c) \/ InviteFinish(c) \/ CancelDismiss(c) \/ CancelStart(c)
              \/ HangupFinish(c) \/ RetryStart(c) \/ (\E old \in Calls : RetryInvites(old, c))
              \/ RetryRefused(c) \/ RetryFinish(c) \/ KickStart(c) \/ KickFinish(c)

\* Commands keep the types, and publish or leave the snapshot.
LEMMA CommandTyped ==
  ASSUME Assumptions, Typed, NEW c \in Calls, Command(c)
  PROVE  Typed' /\ (Notify \/ UNCHANGED published)
<1> USE DEF Typed
<1>t. CausesAssumption /\ NoCall \notin Calls
  BY DEF Assumptions, ServiceAssumption
<1>a. attempt[c] \in CallRecord
  BY DEF ServiceTyped
<1>m. \A m \in CallRecord : ApplyCall(c, m) =>
        attempt' \in [Calls -> CallRecord] /\ invites' \subseteq Calls
  BY CallApplied
<1>1. CASE \E old \in Calls \union {NoCall} : InviteStart(c, old)
  BY <1>1 DEF InviteStart, LinkTyped, ServiceTyped, Queued, ChannelStates, Commands, OpStates,
              listVars
<1>2. CASE InviteFinish(c)
  <2>1. attempt' \in [Calls -> CallRecord] /\ invites' \subseteq Calls
    BY <1>2, <1>t, <1>a, <1>m, CallTypes DEF InviteFinish, ServiceTyped
  <2> QED BY <1>2, <2>1 DEF InviteFinish, LinkTyped, ServiceTyped, Queued, Commands, OpStates,
                            listVars
<1>3. CASE CancelDismiss(c) \/ CancelStart(c)
  <2>1. attempt' \in [Calls -> CallRecord] /\ invites' \subseteq Calls
    BY <1>3, <1>t, <1>a, <1>m, CallTypes DEF CancelDismiss, CancelStart
  <2> QED BY <1>3, <2>1 DEF CancelDismiss, CancelStart, LinkTyped, ServiceTyped, Queued,
                            Commands, OpStates, listVars, linkVars
<1>4. CASE HangupFinish(c)
  <2>1. attempt' \in [Calls -> CallRecord] /\ invites' \subseteq Calls
    <3>1. overdue[c] \in BOOLEAN
      BY DEF LinkTyped
    <3> QED BY <1>4, <1>t, <1>a, <1>m, <3>1, CallTypes DEF HangupFinish, ServiceTyped
  <2> QED BY <1>4, <2>1 DEF HangupFinish, NotifyIf, LinkTyped, ServiceTyped, Queued, Commands,
                            OpStates, RunStates, listVars
<1>5. CASE RetryStart(c) \/ RetryRefused(c) \/ RetryFinish(c)
  BY <1>5, SMTT(30)
     DEF RetryStart, RetryRefused, RetryFinish, LinkTyped, ServiceTyped, Queued, OpStates,
         listVars, linkVars
<1>6. CASE KickStart(c) \/ KickFinish(c)
  BY <1>6 DEF KickStart, KickFinish, NotifyIf, LinkTyped, ServiceTyped, Queued, listVars,
              serviceVars
<1> QED
  BY <1>1, <1>2, <1>3, <1>4, <1>5, <1>6 DEF Command, Invite, RetryInvites

\* Taking the oldest element of a queue.
LEMMA Tails ==
  ASSUME NEW S, NEW q \in Seq(S), q # <<>>
  PROVE  /\ Head(q) \in S /\ Tail(q) \in Seq(S)
         /\ Len(Tail(q)) = Len(q) - 1 /\ Len(q) \in Nat \ {0}
  BY EmptySeq, HeadTailProperties, LenProperties

\* A List that begins, whoever asks for it, keeps the types.
LEMMA ListStarts ==
  ASSUME Assumptions, Typed, NEW by \in {"run", "http"}, ListStart(by),
         UNCHANGED pass, states' = states \/ (states # <<>> /\ states' = Tail(states)),
         run' \in RunStates
  PROVE  Typed'
<1> USE DEF Typed, ListStart
<1>1. LinkTyped'
  BY DEF LinkTyped, ListPlaces
<1>2. states' \in Seq(BOOLEAN) /\ Len(states') <= StateCapacity
  <2>1. Len(states) \in Nat /\ StateCapacity \in Nat
    BY LenProperties DEF ServiceTyped, Assumptions, ServiceAssumption
  <2> QED BY <2>1, Tails DEF ServiceTyped
<1>3. ServiceTyped'
  BY <1>2 DEF ServiceTyped
<1>4. Queued'
  <2>1. Len(events) \in Nat /\ list'.pc = "asked"
    BY LenProperties DEF LinkTyped
  <2> QED BY <2>1 DEF Queued
<1> QED
  BY <1>1, <1>3, <1>4

\* The sections of List keep the types, and publish or leave the snapshot.
LEMMA ListingTyped ==
  ASSUME Assumptions, Typed, Listing
  PROVE  Typed' /\ (Notify \/ UNCHANGED published)
<1> USE DEF Typed
<1>t. CausesAssumption
  BY DEF Assumptions
<1>n. Len(events) \in Nat
  BY LenProperties DEF LinkTyped
<1>p. NoPass \in [todo : SUBSET Calls, due : SUBSET Calls, absent : SUBSET Calls]
  BY DEF NoPass
<1>r. AfterList(TRUE) \in RunStates /\ AfterList(FALSE) \in RunStates
  BY DEF AfterList, RunStates, ServiceTyped
<1>1. CASE HttpList
  BY <1>1, ListStarts DEF HttpList, ServiceTyped
<1>2. CASE ListForget
  <2>1. attempt' \in [Calls -> CallRecord]
    <3>1. Over \in CallRecord
      BY <1>t DEF CausesAssumption, Over, NewCall, CallRecord, Phases, StopReasons, Failures
    <3> QED BY <1>2, <3>1 DEF ListForget, ServiceTyped
  <2>2. LinkTyped'
    BY <1>2 DEF ListForget, LinkTyped, ListPlaces
  <2>3. Queued'
    BY <1>2, <1>n DEF ListForget, SequenceBeforeRoster, Queued
  <2> QED BY <1>2, <2>1, <2>2, <2>3 DEF ListForget, ServiceTyped
<1>3. CASE ListReplace
  BY <1>3 DEF ListReplace, LinkTyped, ServiceTyped, Queued, ListPlaces
<1>4. CASE ListFinish
  <2>1. attempt' \in [Calls -> CallRecord]
    <3>1. \A d \in Calls : attempt[d] \in CallRecord /\ Joined(attempt[d]) \in CallRecord
      BY <1>t, CallTypes DEF ServiceTyped
    <3> QED BY <1>4, <3>1 DEF ListFinish, ReconcileJoined
  <2>2. pass' \in [todo : SUBSET Calls, due : SUBSET Calls, absent : SUBSET Calls]
    BY <1>4 DEF ListFinish, ServiceTyped
  <2> QED BY <1>4, <1>r, <2>1, <2>2 DEF ListFinish, NotifyIf, LinkTyped, ServiceTyped, Queued,
                                  ListPlaces
<1>5. CASE ListFailed
  <2>1. LinkTyped'
    BY <1>5 DEF ListFailed, LinkTyped, ListPlaces
  <2>2. Queued'
    BY <1>5, <1>n DEF ListFailed, Queued
  <2> QED BY <1>5, <1>p, <1>r, <2>1, <2>2 DEF ListFailed, NotifyIf, ServiceTyped
<1> QED
  BY <1>1, <1>2, <1>3, <1>4, <1>5 DEF Listing

\* handleEvent keeps the types, and publishes or leaves the snapshot.
LEMMA EventsTyped ==
  ASSUME Assumptions, Typed, HandleEvent
  PROVE  Typed' /\ (Notify \/ UNCHANGED published)
<1> USE DEF Typed
<1>t. CausesAssumption /\ DialFailures \union {Unknown} = Causes
  BY DEF Assumptions, ServiceAssumption
<1>h. Takes
  BY DEF HandleEvent, HandleFact, HandleOutdated, HandleJoin, HandleLeave, HandleClear
<1> DEFINE e == Head(events)
<1>e. /\ e \in Event /\ events' \in Seq(Event) /\ Len(events') = Len(events) - 1
      /\ Len(events) \in Nat \ {0} /\ Len(events') \in Nat
  BY <1>h, Tails DEF Takes, LinkTyped
<1>q. LinkTyped' /\ Queued'
  BY <1>h, <1>e DEF Takes, LinkTyped, Queued, listVars, Assumptions, LinkAssumption
<1>c. e.call \in Calls /\ e.cause \in Causes \union {NoFailure}
  BY <1>e, <1>t DEF Event, NoFailure, Unknown
<1>m. \A m \in CallRecord : ApplyCall(e.call, m) =>
        attempt' \in [Calls -> CallRecord] /\ invites' \subseteq Calls
  BY <1>c, CallApplied
<1>a. attempt[e.call] \in CallRecord
  BY <1>c DEF ServiceTyped
<1> HIDE DEF e
<1>1. attempt' \in [Calls -> CallRecord] /\ invites' \subseteq Calls
  <2>1. CASE HandleFact
    <3>1. CASE e.call \in invites
      <4>1. ApplyFact(attempt[e.call], e.kind, e.cause) \in CallRecord
        BY <2>1, <1>a, <1>c, <1>t, CallTypes DEF HandleFact, e
      <4> QED BY <2>1, <3>1, <4>1, <1>m DEF HandleFact, e
    <3>2. CASE e.call \notin invites
      BY <2>1, <3>2 DEF HandleFact, e, ServiceTyped
    <3> QED BY <3>1, <3>2
  <2>2. CASE HandleJoin
    <3>1. Joined(attempt[e.call]) \in CallRecord
      BY <1>a, <1>t, CallTypes
    <3> QED BY <2>2, <3>1, <1>m DEF HandleJoin, e, ServiceTyped
  <2>3. CASE HandleOutdated \/ HandleLeave \/ HandleClear
    BY <2>3 DEF HandleOutdated, HandleLeave, HandleClear, ServiceTyped
  <2> QED BY <2>1, <2>2, <2>3 DEF HandleEvent
<1>2. roster' \subseteq Calls /\ (Notify \/ UNCHANGED published)
  BY <1>c DEF HandleEvent, HandleFact, HandleOutdated, HandleJoin, HandleLeave, HandleClear, e,
              NotifyIf, ServiceTyped
<1> QED
  BY <1>h, <1>q, <1>1, <1>2 DEF Takes, ServiceTyped, listVars

\* The rest of Run's loop keeps the types, and publishes or leaves the snapshot.
LEMMA RunTyped ==
  ASSUME Assumptions, Typed, Running, ~HandleEvent
  PROVE  Typed' /\ (Notify \/ UNCHANGED published)
<1> USE DEF Typed
<1>t. CausesAssumption
  BY DEF Assumptions
<1>n. Len(events) \in Nat
  BY LenProperties DEF LinkTyped
<1>p. NoPass \in [todo : SUBSET Calls, due : SUBSET Calls, absent : SUBSET Calls]
  BY DEF NoPass
<1>s. states # <<>> => Tail(states) \in Seq(BOOLEAN) /\ Len(Tail(states)) <= StateCapacity
  <2>1. Len(states) \in Nat /\ StateCapacity \in Nat
    BY LenProperties DEF ServiceTyped, Assumptions, ServiceAssumption
  <2> QED BY <2>1, Tails DEF ServiceTyped
<1>1. CASE HandleUp \/ Resync \/ MaintainCheck
  BY <1>1, ListStarts DEF HandleUp, Resync, MaintainCheck, RunStates
<1>2. CASE HandleDown
  BY <1>2, <1>s DEF HandleDown, LinkTyped, ServiceTyped, Queued, listVars, linkVars
<1>3. CASE MaintainStart
  BY <1>3 DEF MaintainStart, LinkTyped, ServiceTyped, Queued, RunStates, listVars, linkVars
<1>4. CASE MaintainUnavailable \/ SweepEnd
  BY <1>4, <1>p DEF MaintainUnavailable, SweepEnd, LinkTyped, ServiceTyped, Queued, RunStates,
                    listVars, linkVars
<1>5. ASSUME NEW c \in Calls, SweepSkip(c)
      PROVE  Typed' /\ (Notify \/ UNCHANGED published)
  BY <1>5 DEF SweepSkip, LinkTyped, ServiceTyped, Queued, listVars, linkVars
<1>6. ASSUME NEW c \in Calls, Sweep(c)
      PROVE  Typed' /\ (Notify \/ UNCHANGED published)
  <2>1. attempt[c] \in CallRecord /\ Due(c) \in BOOLEAN
    BY DEF ServiceTyped, Due
  <2>2. attempt' \in [Calls -> CallRecord] /\ invites' \subseteq Calls
    BY <1>6, <1>t, <2>1, CallTypes, CallApplied DEF Sweep
  <2> QED BY <1>6, <2>2 DEF Sweep, LinkTyped, ServiceTyped, Queued, listVars, OpStates, RunStates,
                            Commands
<1> QED
  BY <1>1, <1>2, <1>3, <1>4, <1>5, <1>6 DEF Running

\* Connection changes keep the types and publish nothing.
LEMMA ConnectionTyped ==
  ASSUME Assumptions, Typed, ConnectionLost \/ ConnectionRestored
  PROVE  Typed' /\ UNCHANGED published
<1> USE DEF Typed
<1>1. LinkTyped' /\ Queued'
  <2>1. CASE ConnectionLost
    <3>1. /\ channel' \in [Calls -> ChannelStates] /\ command' \in [Calls -> Commands]
          /\ kick' \in [Calls -> {"none", "sent", "ok", "broken"}]
      BY <2>1 DEF ConnectionLost, LinkLost, LinkTyped, Commands, ChannelStates
    <3>2. list' \in [pc : ListPlaces, found : SUBSET Calls] /\ faults' \in 0..MaxFaults
      BY <2>1 DEF ConnectionLost, LinkLost, LinkTyped, ListPlaces, Assumptions, LinkAssumption
    <3>3. LinkTyped'
      BY <2>1, <3>1, <3>2 DEF ConnectionLost, LinkLost, LinkTyped
    <3>4. Queued'
      BY <2>1 DEF ConnectionLost, LinkLost, LinkTyped, Queued, listVars
    <3> QED BY <3>3, <3>4
  <2>2. CASE ConnectionRestored
    BY <2>2 DEF ConnectionRestored, LinkRestored, LinkTyped, Queued, listVars
  <2> QED BY <2>1, <2>2
<1>2. states' \in Seq(BOOLEAN) /\ Len(states') <= StateCapacity
  <2>1. PICK up \in BOOLEAN : Signals(up)
    BY DEF ConnectionLost, ConnectionRestored
  <2>2. /\ Len(states) \in Nat /\ StateCapacity \in Nat
        /\ Append(states, up) \in Seq(BOOLEAN) /\ Len(Append(states, up)) = Len(states) + 1
    BY LenProperties, AppendProperties DEF ServiceTyped, Assumptions, ServiceAssumption
  <2>3. CASE Len(states) < StateCapacity
    <3>1. states' = Append(states, up)
      BY <2>1, <2>3 DEF Signals
    <3> QED BY <2>2, <2>3, <3>1
  <2>4. CASE ~(Len(states) < StateCapacity)
    <3>1. states' = states
      BY <2>1, <2>4 DEF Signals
    <3> QED BY <3>1 DEF ServiceTyped
  <2> QED BY <2>3, <2>4
<1> QED
  BY <1>1, <1>2 DEF ConnectionLost, ConnectionRestored, ServiceTyped, listVars

\* The initial state is well-formed.
LEMMA InitTyped == ASSUME Assumptions, Init PROVE Typed /\ Shown
<1>1. NewCall \in CallRecord
  BY DEF Assumptions, CausesAssumption, NewCall, CallRecord, Phases, StopReasons, Failures
<1>2. LinkTyped
  BY DEF Init, LinkInit, LinkTyped, ChannelStates, Commands, ListPlaces, Assumptions, LinkAssumption
<1>3. ServiceTyped
  <2>1. states \in Seq(BOOLEAN) /\ Len(states) <= StateCapacity
    BY DEF Init, Assumptions, ServiceAssumption
  <2> QED BY <1>1, <2>1 DEF Init, ServiceTyped, OpStates, RunStates
<1>4. Queued
  BY DEF Init, LinkInit, Queued
<1>5. Shown
  BY DEF Init, Shown, Snapshot
<1> QED
  BY <1>2, <1>3, <1>4, <1>5 DEF Typed

\* Every step keeps the types.
LEMMA NextTyped ==
  ASSUME Assumptions, Typed, Shown, [Next]_vars
  PROVE  Typed' /\ Shown'
<1>1. SUFFICES Typed' /\ (Notify \/ UNCHANGED published)
  BY PublishedTyped DEF Typed
<1>2. CASE UNCHANGED vars
  BY <1>2 DEF vars, linkVars, serviceVars, Typed, LinkTyped, ServiceTyped, Queued
<1>3. CASE Asterisk
  BY <1>3, EnvironmentTyped DEF Typed, serviceVars, ServiceTyped
<1>4. CASE Commanding
  BY <1>4, CommandTyped DEF Commanding, Command
<1>5. CASE Running
  BY <1>5, EventsTyped, RunTyped
<1>6. CASE Listing
  BY <1>6, ListingTyped
<1>7. CASE ConnectionLost \/ ConnectionRestored
  BY <1>7, ConnectionTyped
<1> QED
  BY <1>2, <1>3, <1>4, <1>5, <1>6, <1>7 DEF Next

\* Every variable of the service and of its link keeps its type, the event queue
\* and the buffer of connection changes keep their capacity, and the positions that
\* List remembers stay inside the queue, for any number of calls.
THEOREM TypeCorrect == Spec => []TypeOK
<1> USE CausesAssumption, LinkAssumption, ServiceAssumption DEF Assumptions
<1>1. Init => Typed /\ Shown
  BY InitTyped
<1>2. Typed /\ Shown /\ [Next]_vars => Typed' /\ Shown'
  BY NextTyped
<1>3. Typed /\ Shown => TypeOK
  BY DEF Typed, LinkTyped, ServiceTyped, Queued, Shown, TypeOK
<1> QED
  BY <1>1, <1>2, <1>3, PTL DEF Spec

------------------------------------------------------------------------------
(* The attempts.  The rows keep the promise of CallBoard, and nobody retries *)
(* what was replaced, for any number of calls, users and faults.            *)
(*                                                                          *)
(* Sane says what holds of one attempt by itself: a listed attempt is not   *)
(* ended, a failed one is not being hung up, one that is being retried has  *)
(* settled.  Replacement says who replaces whom: an attempt that was        *)
(* replaced is held by the retry until the retry has taken it off the list. *)
(* Every input of callModel advances the stage of a sane attempt along      *)
(* Moves, so every step of the service does.                                *)

\* An attempt held by RetryCall.
Retrying == {"retry", "retrying", "retried"}

\* What holds of one attempt by itself.
Sound(m) == m.phase # "ended" /\ (m.phase = "failed" => m.stop = "none")

\* What RetryCall may replace: nothing is under way for it any more, though it
\* may still join late or leave.
Settled(m) == m.phase \in {"failed", "connected", "ended"} /\ m.stop = "none"

Sane(c) ==
  /\ c \in invites => Sound(attempt[c]) /\ channel[c] # "none"
  /\ channel[c] = "none" => attempt[c] = NewCall /\ op[c] = "free"
  /\ op[c] = "invite" => attempt[c].stop = "none" /\ (c \in invites \/ attempt[c] = Over)
  /\ op[c] \in Retrying => Settled(attempt[c])

\* Who replaces whom.
Replaced(p) == op[p] \in {"retrying", "retried"} \/ (op[p] = "free" /\ p \notin invites)

Replacement(d) ==
  parent[d] \in Calls =>
    /\ channel[parent[d]] # "none" /\ Replaced(parent[d])
    /\ op[d] = "invite" => op[parent[d]] = "retrying"
    /\ \A c \in Calls : parent[c] = parent[d] => c = d

AttemptInvariant == \A c \in Calls : Sane(c) /\ Replacement(c)

\* The stage of a listed attempt.
Shows(m) == IF m.stop = "user" THEN "cancelling"
            ELSE IF m.stop = "timeout" THEN "expiring"
            ELSE IF Pending(m) THEN "dialing" ELSE m.phase

\* An attempt that becomes n moves along the board.
Advances(m, n) ==
  IF n.phase = "ended" THEN <<Shows(m), "over">> \in Board!Moves
  ELSE Sound(n) /\ (Shows(n) = Shows(m) \/ <<Shows(m), Shows(n)>> \in Board!Moves)

\* Every input of callModel advances a sane attempt along the board.
LEMMA CallAdvances ==
  ASSUME NEW m \in CallRecord, Sound(m)
  PROVE  /\ Advances(m, AcknowledgementUnknown(m)) /\ Advances(m, Cancel(m))
         /\ m.stop = "none" => Advances(m, Rejected(m))
         /\ Advances(m, Joined(m)) /\ Advances(m, AbsentFromConference(m))
         /\ \A late \in BOOLEAN : /\ Advances(m, Maintenance(m, late))
                                  /\ Advances(m, ChannelMissing(m, late))
         /\ \A kind \in Facts, why \in Causes \union {NoFailure} :
              Advances(m, ApplyFact(m, kind, why))
<1> USE DEF CallRecord, Phases, StopReasons, Advances, Shows, Sound, Pending, Stopping, Unless,
            Board!Moves
<1>1. Advances(m, AcknowledgementUnknown(m)) /\ Advances(m, Cancel(m))
  BY DEF AcknowledgementUnknown, Cancel
<1>2. m.stop = "none" => Advances(m, Rejected(m))
  BY DEF Rejected
<1>3. Advances(m, Joined(m)) /\ Advances(m, AbsentFromConference(m))
  BY DEF Joined, AbsentFromConference
<1>4. ASSUME NEW late \in BOOLEAN
      PROVE  Advances(m, Maintenance(m, late)) /\ Advances(m, ChannelMissing(m, late))
  BY DEF Maintenance, NeedsReconcile, ChannelMissing, FinishStop
<1>5. ASSUME NEW kind \in Facts, NEW why \in Causes \union {NoFailure}
      PROVE  Advances(m, ApplyFact(m, kind, why))
  <2>1. Advances(m, ChannelObserved(m)) /\ Advances(m, FailureObserved(m, why))
    BY DEF ChannelObserved, FailureObserved
  <2>2. Advances(m, Answered(m))
    BY DEF Answered
  <2>3. ~Stopping(m) /\ m.phase # "connected" => Advances(m, Fail(m, why))
    BY DEF Fail
  <2>4. Stopping(m) => Advances(m, FinishStop(m))
    BY DEF FinishStop
  <2>5. Advances(m, OriginationFailed(m, why)) /\ Advances(m, ChannelEnded(m, why))
    BY <2>3, <2>4 DEF OriginationFailed, ChannelEnded
  <2> QED
    BY <2>1, <2>2, <2>5 DEF ApplyFact, Facts
<1> QED
  BY <1>1, <1>2, <1>3, <1>4, <1>5

\* Events and rosters never stop an attempt, and a settled one stays settled.
LEMMA OthersLeaveStop ==
  ASSUME NEW m \in CallRecord, m.stop = "none",
         NEW n, \/ n = Joined(m) \/ n = AbsentFromConference(m)
                \/ \E kind \in Facts, why \in Causes \union {NoFailure} :
                     n = ApplyFact(m, kind, why)
  PROVE  n.stop = "none" /\ (Settled(m) => Settled(n))
<1> USE DEF CallRecord, Phases, StopReasons, Settled, Pending, Stopping, Unless
<1>1. CASE n = Joined(m) \/ n = AbsentFromConference(m)
  BY <1>1 DEF Joined, AbsentFromConference
<1>2. ASSUME NEW kind \in Facts, NEW why \in Causes \union {NoFailure},
             n = ApplyFact(m, kind, why)
      PROVE  n.stop = "none" /\ (Settled(m) => Settled(n))
  <2>1. CASE n \in {ChannelObserved(m), FailureObserved(m, why), Answered(m)}
    BY <2>1 DEF ChannelObserved, FailureObserved, Answered
  <2>2. CASE n \in {OriginationFailed(m, why), ChannelEnded(m, why)}
    BY <2>2 DEF OriginationFailed, ChannelEnded, Fail
  <2> QED BY <1>2, <2>1, <2>2 DEF ApplyFact, Facts
<1> QED
  BY <1>1, <1>2

\* One call takes one step on the board, or none.
Steps(d) == Stage(d)' = Stage(d) \/ <<Stage(d), Stage(d)'>> \in Board!Moves

\* Stage in terms of Shows.
LEMMA StageShows ==
  ASSUME ServiceTyped, NEW c \in Calls, c \in invites => attempt[c].phase # "ended"
  PROVE  Stage(c) = IF c \in invites THEN Shows(attempt[c])
                    ELSE IF channel[c] = "none" THEN "none" ELSE "over"
<1>1. attempt[c].stop \in {"none", "user", "timeout"}
  BY DEF ServiceTyped, CallRecord, StopReasons
<1> QED
  BY <1>1 DEF Stage, Shows, Stopping

\* The same in the next state.
LEMMA StageShowsNext ==
  ASSUME ServiceTyped', NEW c \in Calls, c \in invites' => attempt'[c].phase # "ended"
  PROVE  Stage(c)' = IF c \in invites' THEN Shows(attempt'[c])
                     ELSE IF channel'[c] = "none" THEN "none" ELSE "over"
<1>1. attempt'[c].stop \in {"none", "user", "timeout"}
  BY DEF ServiceTyped, CallRecord, StopReasons
<1> QED
  BY <1>1 DEF Stage, Shows, Stopping

\* A call whose attempt and listing stay keeps its stage.
LEMMA Unmoved ==
  ASSUME ServiceTyped, ServiceTyped', NEW c \in Calls, Sane(c),
         attempt'[c] = attempt[c], c \in invites' <=> c \in invites,
         channel'[c] = "none" <=> channel[c] = "none"
  PROVE  Steps(c)
  BY StageShows, StageShowsNext DEF Steps, Sane, Sound

\* What applyCallLocked makes of one attempt.
Becomes(c, n) == /\ attempt'[c] = IF n.phase = "ended" THEN Over ELSE n
                 /\ c \in invites' <=> n.phase # "ended"

\* A listed call whose attempt advances takes a step, and stays sane.
LEMMA Advanced ==
  ASSUME ServiceTyped, ServiceTyped', NEW c \in Calls, Sane(c), c \in invites,
         NEW n, Advances(attempt[c], n), channel'[c] # "none", Becomes(c, n)
  PROVE  /\ Steps(c)
         /\ c \in invites' => Sound(attempt'[c])
         /\ c \notin invites' => attempt'[c] = Over
  BY StageShows, StageShowsNext DEF Becomes, Steps, Sane, Sound, Advances

\* No channel comes to be, or ceases to be, but by an Originate.
LEMMA ChannelsStay ==
  ASSUME LinkTyped, Asterisk \/ ConnectionLost \/ ConnectionRestored
  PROVE  \A d \in Calls : channel'[d] = "none" <=> channel[d] = "none"
<1> USE DEF LinkTyped
<1>1. CASE ConnectionLost
  BY <1>1 DEF ConnectionLost, LinkLost
<1>2. CASE ConnectionRestored \/ RepliesList \/ ReplyLost
  BY <1>2 DEF ConnectionRestored, LinkRestored, RepliesList, AsteriskLists, ReplyLost, ReplyTimesOut
<1>3. ASSUME NEW c \in Calls, Proceeds(c) \/ Departs(c)
      PROVE  \A d \in Calls : channel'[d] = "none" <=> channel[d] = "none"
  BY <1>3 DEF Proceeds, Departs, AsteriskAccepts, AsteriskRejects, Allocates, AllocationFails,
              DialFails, Answers, Joins, Ends, Leaves, Moves
<1>4. ASSUME NEW c \in Calls, ObeysHangup(c) \/ ObeysKick(c) \/ Lateness(c)
      PROVE  \A d \in Calls : channel'[d] = "none" <=> channel[d] = "none"
  BY <1>4 DEF ObeysHangup, AsteriskHangsUp, ObeysKick, AsteriskKicks, Lateness, DeadlinePasses
<1> QED
  BY <1>1, <1>2, <1>3, <1>4 DEF Asterisk

\* A step that touches no attempt and no list.
LEMMA UntouchedAttempts ==
  ASSUME ServiceTyped, ServiceTyped', AttemptInvariant,
         UNCHANGED <<attempt, invites, op, parent>>,
         \A d \in Calls : channel'[d] = "none" <=> channel[d] = "none"
  PROVE  (\A d \in Calls : Steps(d)) /\ AttemptInvariant'
<1>1. ASSUME NEW d \in Calls PROVE Steps(d) /\ Sane(d)'
  BY Unmoved DEF AttemptInvariant, Sane
<1>2. ASSUME NEW d \in Calls PROVE Replacement(d)'
  BY DEF AttemptInvariant, Replacement, Replaced
<1> QED
  BY <1>1, <1>2 DEF AttemptInvariant

\* An attempt that is made goes from nothing to dialing; the one it replaces is
\* held, and had no replacement.
LEMMA InviteStep ==
  ASSUME Assumptions, Typed, ServiceTyped', AttemptInvariant, NEW c \in Calls,
         NEW old, \/ old = NoCall
                  \/ old \in Calls /\ op[old] = "retry",
         InviteStart(c, old)
  PROVE  (\A d \in Calls : Steps(d)) /\ AttemptInvariant'
<1> USE DEF Typed, LinkTyped, ServiceTyped
<1>0. /\ channel[c] = "none" /\ c \notin invites /\ op[c] = "free" /\ attempt[c] = NewCall
      /\ NoCall \notin Calls
  BY DEF InviteStart, AttemptInvariant, Sane, Assumptions, ServiceAssumption
<1>1. ASSUME NEW d \in Calls PROVE Steps(d) /\ Sane(d)'
  <2>1. CASE d = c
    <3>1. channel'[c] = "wire" /\ attempt'[c] = NewCall /\ c \in invites' /\ op'[c] = "invite"
      BY <1>0 DEF InviteStart
    <3>2. Steps(c)
      BY <1>0, <3>1, StageShows, StageShowsNext DEF Steps, Shows, NewCall, Pending, Board!Moves
    <3> QED BY <2>1, <3>1, <3>2 DEF Sane, Sound, NewCall, Retrying
  <2>2. CASE d # c
    <3>1. /\ channel'[d] = channel[d] /\ attempt'[d] = attempt[d]
          /\ d \in invites' <=> d \in invites
          /\ op'[d] = IF d = old THEN "retrying" ELSE op[d]
      BY <2>2 DEF InviteStart
    <3>2. Sane(d)
      BY DEF AttemptInvariant
    <3>3. Steps(d)
      BY <3>1, <3>2, Unmoved
    <3>4. d = old => op[d] = "retry"
      BY <1>0
    <3> QED BY <3>1, <3>2, <3>3, <3>4 DEF Sane, Sound, Settled, Retrying
  <2> QED BY <2>1, <2>2
<1>2. ASSUME NEW d \in Calls PROVE Replacement(d)'
  <2> DEFINE p == parent[d]
  <2>0. \A q \in Calls : channel'[q] = "none" => channel[q] = "none"
    BY DEF InviteStart
  <2>1. CASE d = c
    <3>1. parent'[c] = old
      BY DEF InviteStart
    <3>2. CASE old \in Calls
      <4>1. \A e \in Calls : parent[e] # old
        BY <3>2, <1>0 DEF AttemptInvariant, Replacement, Replaced
      <4>2. op'[old] = "retrying" /\ channel[old] # "none"
        BY <3>2, <1>0 DEF InviteStart, AttemptInvariant, Sane
      <4>3. \A e \in Calls : e # c => parent'[e] = parent[e]
        BY DEF InviteStart
      <4> QED BY <2>0, <2>1, <3>1, <4>1, <4>2, <4>3 DEF Replacement, Replaced
    <3> QED BY <1>0, <2>1, <3>1, <3>2 DEF Replacement
  <2>2. CASE d # c
    <3>1. parent'[d] = p /\ op'[d] = (IF d = old THEN "retrying" ELSE op[d])
      BY <2>2 DEF InviteStart
    <3>2. CASE p \in Calls
      <4>1. Replacement(d)
        BY DEF AttemptInvariant
      <4>2. p # c /\ p # old /\ channel[p] # "none"
        BY <1>0, <3>2, <4>1 DEF Replacement, Replaced
      <4>3. op'[p] = op[p] /\ (p \in invites' <=> p \in invites)
        BY <3>2, <4>2 DEF InviteStart
      <4>4. \A e \in Calls : parent'[e] = p => parent[e] = p
        BY <4>2 DEF InviteStart
      <4> QED BY <2>0, <3>1, <3>2, <4>1, <4>2, <4>3, <4>4 DEF Replacement, Replaced
    <3> QED BY <3>1, <3>2 DEF Replacement
  <2> QED BY <2>1, <2>2
<1> QED
  BY <1>1, <1>2 DEF AttemptInvariant

\* A step that applies one input to one listed attempt, and moves only its op.
LEMMA OneAttempt ==
  ASSUME ServiceTyped, ServiceTyped', AttemptInvariant, NEW c \in Calls, c \in invites,
         NEW n \in CallRecord, Advances(attempt[c], n), ApplyCall(c, n),
         UNCHANGED parent, \A d \in Calls : channel'[d] = "none" <=> channel[d] = "none",
         NEW x \in {op[c], "free", "cancel", "maintain"}, op' = [op EXCEPT ![c] = x],
         x = op[c] \/ op[c] \in {"free", "cancel", "maintain"},
         x = op[c] /\ attempt[c].stop = "none" /\ op[c] \in Retrying \union {"invite"} =>
           n.stop = "none" /\ (Settled(attempt[c]) => Settled(n))
  PROVE  (\A d \in Calls : Steps(d)) /\ AttemptInvariant'
<1> USE DEF ServiceTyped
<1>0. /\ op'[c] = x /\ \A d \in Calls : d # c => op'[d] = op[d]
      /\ attempt'[c] = IF n.phase = "ended" THEN Over ELSE n
      /\ \A d \in Calls : d # c => attempt'[d] = attempt[d] /\ (d \in invites' <=> d \in invites)
      /\ c \in invites' => n.phase # "ended"
  BY DEF ApplyCall
<1>s. Sane(c) /\ channel'[c] # "none"
  BY DEF AttemptInvariant, Sane
<1>1. ASSUME NEW d \in Calls PROVE Steps(d) /\ Sane(d)'
  <2>1. CASE d = c
    <3>1. Steps(c) /\ (c \in invites' => Sound(attempt'[c])) /\ (c \notin invites' => attempt'[c] = Over)
      BY <1>0, <1>s, Advanced DEF Becomes, ApplyCall
    <3>2. op'[c] = "invite" => attempt'[c].stop = "none"
      BY <1>0, <1>s DEF Sane, Over, NewCall
    <3>3. op'[c] \in Retrying => Settled(attempt'[c])
      <4>1. CASE op'[c] \in Retrying
        <5>1. op[c] = x /\ Settled(attempt[c]) /\ attempt[c].stop = "none"
          BY <1>0, <1>s, <4>1 DEF Sane, Retrying, Settled
        <5>2. Settled(n)
          BY <1>0, <4>1, <5>1
        <5> QED BY <1>0, <5>2 DEF Settled, Over, NewCall
      <4> QED BY <4>1
    <3> QED BY <1>s, <2>1, <3>1, <3>2, <3>3 DEF Sane, Sound, Settled
  <2>2. CASE d # c
    <3>1. Sane(d)
      BY DEF AttemptInvariant
    <3>2. Steps(d)
      BY <1>0, <2>2, <3>1, Unmoved
    <3> QED BY <1>0, <2>2, <3>1, <3>2 DEF Sane, Sound, Settled
  <2> QED BY <2>1, <2>2
<1>2. ASSUME NEW d \in Calls PROVE Replacement(d)'
  <2>1. CASE parent[d] \in Calls
    <3>1. Replacement(d)
      BY DEF AttemptInvariant
    <3>2. Replaced(parent[d])' /\ (op'[d] = "invite" => op'[parent[d]] = "retrying")
      BY <1>0, <2>1, <3>1 DEF Replacement, Replaced
    <3> QED BY <2>1, <3>1, <3>2 DEF Replacement, Replaced
  <2> QED BY <2>1 DEF Replacement
<1> QED
  BY <1>1, <1>2 DEF AttemptInvariant

\* The reply to an Originate: a rejection fails the attempt, which may be gone from
\* the list already, and frees the one it replaces.
LEMMA InviteFinishStep ==
  ASSUME Assumptions, Typed, ServiceTyped', AttemptInvariant, NEW c \in Calls, InviteFinish(c)
  PROVE  (\A d \in Calls : Steps(d)) /\ AttemptInvariant'
<1> USE DEF Typed, LinkTyped, ServiceTyped
<1>a. /\ attempt[c] \in CallRecord /\ op[c] = "invite" /\ attempt[c].stop = "none"
      /\ Sane(c) /\ Replacement(c)
  BY DEF InviteFinish, AttemptInvariant, Sane
<1>c. UNCHANGED <<channel, parent>>
  BY DEF InviteFinish
<1>p. parent[c] \in Calls => parent[c] # c /\ op[parent[c]] = "retrying"
  BY <1>a DEF Replacement
<1>o. \A d \in Calls : op'[d] = IF d = c THEN "free" ELSE IF d = parent[c] THEN "retried" ELSE op[d]
  BY <1>p DEF InviteFinish
<1>1. ASSUME NEW d \in Calls, d # c PROVE Steps(d) /\ Sane(d)'
  <2>1. attempt'[d] = attempt[d] /\ (d \in invites' <=> d \in invites)
    BY <1>1 DEF InviteFinish, ApplyCall
  <2>2. Sane(d) /\ Steps(d)
    BY <2>1, <1>c, Unmoved DEF AttemptInvariant
  <2>3. op'[d] = op[d] \/ (op[d] = "retrying" /\ op'[d] = "retried")
    BY <1>1, <1>o, <1>p
  <2>4. Sane(d)'
    BY <1>c, <2>1, <2>2, <2>3 DEF Sane, Sound, Settled, Retrying
  <2> QED BY <2>2, <2>4
<1>2. Steps(c) /\ Sane(c)'
  <2>1. CASE c \in invites
    <3>1. PICK n \in CallRecord : /\ Advances(attempt[c], n)
                                  /\ ApplyCall(c, n) \/ UNCHANGED <<attempt, invites>>
      BY <1>a, <2>1, CallAdvances, CallTypes DEF InviteFinish, Assumptions, Sane
    <3>2. CASE ApplyCall(c, n)
      <4>1. channel'[c] # "none"
        BY <1>a, <1>c, <2>1 DEF Sane
      <4>2. /\ Steps(c) /\ (c \in invites' => Sound(attempt'[c]))
            /\ c \notin invites' => attempt'[c] = Over
        <5>1. Becomes(c, n)
          BY <2>1, <3>2 DEF Becomes, ApplyCall
        <5> QED BY <1>a, <2>1, <3>1, <4>1, <5>1, Advanced
      <4> QED BY <1>o, <4>1, <4>2 DEF Sane, Sound, Retrying
    <3>3. CASE UNCHANGED <<attempt, invites>>
      <4>1. Steps(c)
        BY <1>a, <1>c, <3>3, Unmoved
      <4> QED BY <1>a, <1>c, <1>o, <3>3, <4>1 DEF Sane, Sound, Retrying
    <3> QED BY <3>1, <3>2, <3>3
  <2>2. CASE c \notin invites
    <3>1. attempt[c] = Over /\ attempt'[c] = Over /\ c \notin invites'
      BY <1>a, <2>2 DEF InviteFinish, ApplyCall, Sane, Over, NewCall, Rejected,
                        AcknowledgementUnknown, Unless
    <3>2. Steps(c)
      BY <1>a, <1>c, <2>2, <3>1, Unmoved
    <3> QED BY <1>a, <1>c, <1>o, <2>2, <3>1, <3>2 DEF Sane, Sound, Retrying
  <2> QED BY <2>1, <2>2
<1>3. ASSUME NEW d \in Calls PROVE Replacement(d)'
  <2>1. CASE parent[d] \in Calls
    <3>1. Replacement(d) /\ parent[d] # c
      BY <1>a, <2>1 DEF AttemptInvariant, Replacement, Replaced
    <3>2. parent[d] \in invites' => parent[d] \in invites
      BY DEF InviteFinish, ApplyCall
    <3>3. op'[d] = "invite" => op[d] = "invite" /\ d # c /\ parent[d] # parent[c]
      BY <1>a, <1>o, <2>1 DEF Replacement
    <3> QED BY <1>c, <1>o, <1>p, <2>1, <3>1, <3>2, <3>3 DEF Replacement, Replaced
  <2> QED BY <1>c, <2>1 DEF Replacement
<1> QED
  BY <1>1, <1>2, <1>3 DEF AttemptInvariant

\* Cancel, Hangup, Retry and the sweep.
LEMMA OperationStep ==
  ASSUME Assumptions, Typed, ServiceTyped', AttemptInvariant, NEW c \in Calls,
         \/ CancelDismiss(c) \/ CancelStart(c) \/ HangupFinish(c)
         \/ RetryStart(c) \/ RetryRefused(c) \/ RetryFinish(c) \/ Sweep(c)
  PROVE  (\A d \in Calls : Steps(d)) /\ AttemptInvariant'
<1> USE DEF Typed, LinkTyped, ServiceTyped
<1>a. attempt[c] \in CallRecord /\ Sane(c) /\ CausesAssumption
  BY DEF AttemptInvariant, Assumptions
<1>c. UNCHANGED <<channel, parent>>
  BY DEF CancelDismiss, CancelStart, HangupFinish, RetryStart, RetryRefused, RetryFinish, Sweep,
         linkVars
<1>1. CASE CancelDismiss(c)
  <2>1. op' = [op EXCEPT ![c] = op[c]] /\ c \in invites /\ op[c] = "free"
    BY <1>1 DEF CancelDismiss
  <2>2. Cancel(attempt[c]) \in CallRecord /\ Advances(attempt[c], Cancel(attempt[c]))
    BY <1>a, <2>1, CallTypes, CallAdvances DEF Sane
  <2> QED BY <1>1, <1>c, <2>1, <2>2, OneAttempt DEF CancelDismiss, Retrying
<1>2. CASE CancelStart(c)
  <2>1. op' = [op EXCEPT ![c] = "cancel"] /\ c \in invites /\ op[c] = "free"
    BY <1>2 DEF CancelStart
  <2>2. Cancel(attempt[c]) \in CallRecord /\ Advances(attempt[c], Cancel(attempt[c]))
    BY <1>a, <2>1, CallTypes, CallAdvances DEF Sane
  <2> QED BY <1>2, <1>c, <2>1, <2>2, OneAttempt DEF CancelStart
<1>3. CASE Sweep(c)
  <2> DEFINE n == Maintenance(attempt[c], Due(c))
  <2>1. /\ c \in invites /\ op[c] = "free"
        /\ op' = [op EXCEPT ![c] = op[c]] \/ op' = [op EXCEPT ![c] = "maintain"]
    BY <1>3 DEF Sweep
  <2>2. n \in CallRecord /\ Advances(attempt[c], n)
    <3>1. Due(c) \in BOOLEAN
      BY DEF Due
    <3>2. \A late \in BOOLEAN : /\ Maintenance(attempt[c], late) \in CallRecord
                              /\ Advances(attempt[c], Maintenance(attempt[c], late))
      BY <1>a, <2>1, CallTypes, CallAdvances DEF Sane
    <3> QED BY <3>1, <3>2
  <2>3. ApplyCall(c, n)
    BY <1>3 DEF Sweep
  <2> HIDE DEF n
  <2> QED BY <1>c, <2>1, <2>2, <2>3, OneAttempt DEF Retrying
<1>4. CASE HangupFinish(c)
  <2>1. op' = [op EXCEPT ![c] = "free"] /\ op[c] \in {"cancel", "maintain"}
    BY <1>4 DEF HangupFinish
  <2>2. CASE command[c] = "missing" /\ c \in invites
    <3> DEFINE n == ChannelMissing(attempt[c], overdue[c])
    <3>1. n \in CallRecord /\ Advances(attempt[c], n)
      BY <1>a, <2>2, CallTypes, CallAdvances DEF Sane
    <3>2. ApplyCall(c, n)
      BY <1>4, <2>2 DEF HangupFinish
    <3> HIDE DEF n
    <3> QED BY <1>c, <2>1, <2>2, <3>1, <3>2, OneAttempt
  <2>3. CASE ~(command[c] = "missing" /\ c \in invites)
    <3>1. UNCHANGED <<attempt, invites>>
      BY <1>4, <2>3 DEF HangupFinish
    <3>2. ASSUME NEW d \in Calls PROVE Steps(d) /\ Sane(d)'
      <4>1. Sane(d) /\ Steps(d)
        BY <1>c, <3>1, Unmoved DEF AttemptInvariant
      <4> QED BY <1>c, <2>1, <3>1, <4>1 DEF Sane, Sound, Settled, Retrying
    <3>3. ASSUME NEW d \in Calls PROVE Replacement(d)'
      BY <1>c, <2>1, <3>1 DEF AttemptInvariant, Replacement, Replaced
    <3> QED BY <3>2, <3>3 DEF AttemptInvariant
  <2> QED BY <2>2, <2>3
<1>5. CASE RetryStart(c) \/ RetryRefused(c)
  <2>1. UNCHANGED <<attempt, invites>>
    BY <1>5 DEF RetryStart, RetryRefused
  <2>2. \/ op' = [op EXCEPT ![c] = "retry"] /\ op[c] = "free" /\ c \in invites /\ attempt[c].phase = "failed"
        \/ op' = [op EXCEPT ![c] = "free"] /\ op[c] = "retry"
    BY <1>5 DEF RetryStart, RetryRefused
  <2>3. ASSUME NEW d \in Calls PROVE Steps(d) /\ Sane(d)'
    <3>1. Sane(d) /\ Steps(d)
      BY <1>c, <2>1, Unmoved DEF AttemptInvariant
    <3> QED BY <1>c, <2>1, <2>2, <3>1 DEF Sane, Sound, Settled, Retrying
  <2>4. ASSUME NEW d \in Calls PROVE Replacement(d)'
    BY <1>c, <2>1, <2>2 DEF AttemptInvariant, Replacement, Replaced
  <2> QED BY <2>3, <2>4 DEF AttemptInvariant
<1>6. CASE RetryFinish(c)
  <2>1. /\ UNCHANGED attempt /\ invites' = invites \ {c}
        /\ op' = [op EXCEPT ![c] = "free"] /\ op[c] = "retried" /\ Settled(attempt[c])
    BY <1>6, <1>a DEF RetryFinish, Sane, Retrying
  <2>2. ASSUME NEW d \in Calls PROVE Steps(d) /\ Sane(d)'
    <3>1. Sane(d)
      BY DEF AttemptInvariant
    <3>2. CASE d # c \/ c \notin invites
      <4>1. Steps(d)
        BY <1>c, <2>1, <3>1, <3>2, Unmoved
      <4> QED BY <1>c, <2>1, <3>1, <3>2, <4>1 DEF Sane, Sound, Settled, Retrying
    <3>3. CASE d = c /\ c \in invites
      <4>1. Shows(attempt[c]) \in {"failed", "connected"} /\ channel'[c] # "none"
        BY <1>a, <1>c, <2>1, <3>3 DEF Shows, Settled, Sane, Sound, Pending
      <4>2. Stage(c)' = "over" /\ Stage(c) = Shows(attempt[c])
        BY <1>a, <2>1, <3>3, <4>1, StageShows, StageShowsNext DEF Sane, Sound
      <4>3. Steps(c)
        BY <4>1, <4>2 DEF Steps, Board!Moves
      <4> QED BY <1>a, <1>c, <2>1, <3>3, <4>3 DEF Sane, Retrying
    <3> QED BY <3>2, <3>3
  <2>3. ASSUME NEW d \in Calls PROVE Replacement(d)'
    BY <1>c, <2>1 DEF AttemptInvariant, Replacement, Replaced
  <2> QED BY <2>2, <2>3 DEF AttemptInvariant
<1> QED
  BY <1>1, <1>2, <1>3, <1>4, <1>5, <1>6

\* Events about a call: facts and joins.
LEMMA EventStep ==
  ASSUME Assumptions, Typed, ServiceTyped', AttemptInvariant, HandleEvent
  PROVE  (\A d \in Calls : Steps(d)) /\ AttemptInvariant'
<1> USE DEF Typed, LinkTyped
<1>t. CausesAssumption /\ DialFailures \union {Unknown} = Causes
  BY DEF Assumptions, ServiceAssumption
<1>h. Takes
  BY DEF HandleEvent, HandleFact, HandleOutdated, HandleJoin, HandleLeave, HandleClear
<1>u. UNCHANGED <<channel, op, parent>>
  BY <1>h DEF Takes
<1> DEFINE e == Head(events)
<1>e. e.call \in Calls /\ e.cause \in Causes \union {NoFailure}
  <2>1. e \in Event
    BY <1>h, Tails DEF Takes
  <2> QED BY <1>t, <2>1 DEF Event, NoFailure, Unknown
<1> HIDE DEF e
<1>a. attempt[e.call] \in CallRecord /\ Sane(e.call) /\ op[e.call] \in OpStates
  BY <1>e DEF ServiceTyped, AttemptInvariant
<1>o. op' = [op EXCEPT ![e.call] = op[e.call]]
  BY <1>e, <1>u DEF ServiceTyped
<1>1. ASSUME e.call \in invites,
             NEW n \in CallRecord, Advances(attempt[e.call], n), ApplyCall(e.call, n),
             attempt[e.call].stop = "none" =>
               n.stop = "none" /\ (Settled(attempt[e.call]) => Settled(n))
      PROVE  (\A d \in Calls : Steps(d)) /\ AttemptInvariant'
  BY <1>a, <1>e, <1>o, <1>u, <1>1, OneAttempt
<1>2. ASSUME UNCHANGED <<attempt, invites>>
      PROVE  (\A d \in Calls : Steps(d)) /\ AttemptInvariant'
  BY <1>2, <1>u, UntouchedAttempts
<1>3. CASE HandleFact
  <2>1. CASE e.call \in invites
    <3> DEFINE n == ApplyFact(attempt[e.call], e.kind, e.cause)
    <3>1. e.kind \in Facts /\ ApplyCall(e.call, n)
      BY <1>3, <2>1 DEF HandleFact, e
    <3>2. n \in CallRecord /\ Advances(attempt[e.call], n)
      BY <1>a, <1>e, <1>t, <2>1, <3>1, CallTypes, CallAdvances DEF Sane
    <3>3. attempt[e.call].stop = "none" => n.stop = "none" /\ (Settled(attempt[e.call]) => Settled(n))
      BY <1>a, <1>e, <3>1, OthersLeaveStop
    <3> HIDE DEF n
    <3> QED BY <1>1, <2>1, <3>1, <3>2, <3>3
  <2>2. CASE e.call \notin invites
    BY <1>2, <1>3, <2>2 DEF HandleFact, e
  <2> QED BY <2>1, <2>2
<1>4. CASE HandleJoin
  <2>1. CASE e.call \in invites
    <3> DEFINE n == Joined(attempt[e.call])
    <3>1. ApplyCall(e.call, n)
      BY <1>4, <2>1 DEF HandleJoin, e
    <3>2. n \in CallRecord /\ Advances(attempt[e.call], n)
      BY <1>a, <1>t, <2>1, CallTypes, CallAdvances DEF Sane
    <3>3. attempt[e.call].stop = "none" => n.stop = "none" /\ (Settled(attempt[e.call]) => Settled(n))
      BY <1>a, OthersLeaveStop
    <3> HIDE DEF n
    <3> QED BY <1>1, <2>1, <3>1, <3>2, <3>3
  <2>2. CASE e.call \notin invites
    BY <1>2, <1>4, <2>2 DEF HandleJoin, e
  <2> QED BY <2>1, <2>2
<1>5. CASE HandleOutdated \/ HandleLeave \/ HandleClear
  BY <1>2, <1>5 DEF HandleOutdated, HandleLeave, HandleClear
<1> QED
  BY <1>3, <1>4, <1>5 DEF HandleEvent

\* The sections of List, which settle several calls at once.
LEMMA ListStep ==
  ASSUME Assumptions, Typed, ServiceTyped', AttemptInvariant, Listing
  PROVE  (\A d \in Calls : Steps(d)) /\ AttemptInvariant'
<1> USE DEF Typed, LinkTyped
<1>t. CausesAssumption
  BY DEF Assumptions
<1>u. UNCHANGED <<channel, op, parent>>
  BY DEF Listing, HttpList, ListStart, ListForget, ListReplace, ListFinish, ListFailed
<1>1. CASE HttpList \/ ListReplace \/ ListFailed
  <2>1. UNCHANGED <<attempt, invites>>
    BY <1>1 DEF HttpList, ListStart, ListReplace, ListFailed
  <2> QED BY <1>u, <2>1, UntouchedAttempts
<1>2. CASE ListForget \/ ListFinish
  <2>1. ASSUME NEW d \in Calls
        PROVE  \/ attempt'[d] = attempt[d] /\ (d \in invites' <=> d \in invites)
               \/ \E n \in CallRecord :
                    /\ d \in invites /\ Advances(attempt[d], n) /\ Becomes(d, n)
                    /\ attempt[d].stop = "none" =>
                         n.stop = "none" /\ (Settled(attempt[d]) => Settled(n))
    <3>a. attempt[d] \in CallRecord /\ Sane(d)
      BY DEF ServiceTyped, AttemptInvariant
    <3>1. CASE ListForget
      <4>1. CASE d \in Forgotten(list.found)
        <5> DEFINE n == AbsentFromConference(attempt[d])
        <5>1. d \in invites /\ n.phase = "ended"
          BY <4>1 DEF Forgotten
        <5>2. n \in CallRecord /\ Advances(attempt[d], n)
          BY <1>t, <3>a, <5>1, CallTypes, CallAdvances DEF Sane
        <5>3. attempt[d].stop = "none" => n.stop = "none" /\ (Settled(attempt[d]) => Settled(n))
          BY <3>a, OthersLeaveStop
        <5>4. Becomes(d, n)
          BY <3>1, <4>1, <5>1 DEF ListForget, Becomes
        <5> QED BY <5>1, <5>2, <5>3, <5>4
      <4> QED BY <3>1, <4>1 DEF ListForget
    <3>2. CASE ListFinish
      <4>1. CASE d \in invites \intersect list.found
        <5> DEFINE n == Joined(attempt[d])
        <5>1. n.phase # "ended" /\ attempt'[d] = n /\ invites' = invites
          BY <3>2, <3>a, <4>1 DEF ListFinish, ReconcileJoined, Joined, Unless, Sane, Sound, CallRecord
        <5>2. n \in CallRecord /\ Advances(attempt[d], n)
          BY <1>t, <3>a, <4>1, CallTypes, CallAdvances DEF Sane
        <5>3. attempt[d].stop = "none" => n.stop = "none" /\ (Settled(attempt[d]) => Settled(n))
          BY <3>a, OthersLeaveStop
        <5> QED BY <4>1, <5>1, <5>2, <5>3 DEF Becomes
      <4> QED BY <3>2, <4>1 DEF ListFinish, ReconcileJoined
    <3> QED BY <1>2, <3>1, <3>2
  <2>2. ASSUME NEW d \in Calls PROVE Steps(d) /\ Sane(d)'
    <3>a. Sane(d)
      BY DEF AttemptInvariant
    <3>1. CASE attempt'[d] = attempt[d] /\ (d \in invites' <=> d \in invites)
      <4>1. Steps(d)
        BY <1>u, <3>a, <3>1, Unmoved
      <4> QED BY <1>u, <3>a, <3>1, <4>1 DEF Sane, Sound, Settled
    <3>2. CASE ~(attempt'[d] = attempt[d] /\ (d \in invites' <=> d \in invites))
      <4>1. PICK n \in CallRecord :
              /\ d \in invites /\ Advances(attempt[d], n) /\ Becomes(d, n)
              /\ attempt[d].stop = "none" =>
                   n.stop = "none" /\ (Settled(attempt[d]) => Settled(n))
        BY <2>1, <3>2
      <4>2. channel'[d] # "none"
        BY <1>u, <3>a, <4>1 DEF Sane
      <4>3. /\ Steps(d) /\ (d \in invites' => Sound(attempt'[d]))
            /\ d \notin invites' => attempt'[d] = Over
        BY <3>a, <4>1, <4>2, Advanced
      <4>4. op[d] \in Retrying => Settled(attempt[d]) /\ attempt[d].stop = "none"
        BY <3>a DEF Sane, Settled
      <4>5. /\ op'[d] = "invite" => attempt'[d].stop = "none"
            /\ op'[d] \in Retrying => Settled(attempt'[d])
        BY <1>u, <3>a, <4>1, <4>4 DEF Sane, Becomes, Over, NewCall, Settled
      <4> QED BY <4>2, <4>3, <4>5 DEF Sane, Sound, Settled
    <3> QED BY <3>1, <3>2
  <2>3. ASSUME NEW d \in Calls PROVE Replacement(d)'
    <3>1. \A q \in invites' : q \in invites
      BY <1>2 DEF ListForget, ListFinish
    <3> QED BY <1>u, <3>1 DEF AttemptInvariant, Replacement, Replaced
  <2> QED BY <2>2, <2>3 DEF AttemptInvariant
<1> QED
  BY <1>1, <1>2 DEF Listing

\* Every step of the service is a step of the board and keeps the invariant.
LEMMA AttemptStep ==
  ASSUME Assumptions, Typed, Typed', AttemptInvariant, [Next]_vars
  PROVE  (\A d \in Calls : Steps(d)) /\ AttemptInvariant'
<1> USE DEF Typed
<1>1. ASSUME UNCHANGED <<attempt, invites, op, parent>>,
             \A d \in Calls : channel'[d] = "none" <=> channel[d] = "none"
      PROVE  (\A d \in Calls : Steps(d)) /\ AttemptInvariant'
  BY <1>1, UntouchedAttempts
<1>2. CASE UNCHANGED vars
  BY <1>1, <1>2 DEF vars, linkVars, serviceVars
<1>3. CASE Asterisk \/ ConnectionLost \/ ConnectionRestored
  <2>1. UNCHANGED <<attempt, invites, op, parent>>
    BY <1>3, EnvironmentTyped DEF serviceVars, ConnectionLost, ConnectionRestored
  <2> QED BY <1>1, <1>3, <2>1, ChannelsStay
<1>4. CASE Commanding
  <2>1. PICK c \in Calls : Command(c)
    BY <1>4 DEF Commanding, Command
  <2>2. CASE Invite(c) \/ \E old \in Calls : RetryInvites(old, c)
    BY <2>2, InviteStep DEF Invite, RetryInvites
  <2>3. CASE InviteFinish(c)
    BY <2>3, InviteFinishStep
  <2>4. CASE \/ CancelDismiss(c) \/ CancelStart(c) \/ HangupFinish(c)
             \/ RetryStart(c) \/ RetryRefused(c) \/ RetryFinish(c)
    BY <2>4, OperationStep
  <2>5. CASE KickStart(c) \/ KickFinish(c)
    BY <1>1, <2>5 DEF KickStart, KickFinish, serviceVars
  <2> QED BY <2>1, <2>2, <2>3, <2>4, <2>5 DEF Command
<1>5. CASE Running
  <2>1. CASE HandleEvent
    BY <2>1, EventStep
  <2>2. CASE \E c \in Calls : Sweep(c)
    BY <2>2, OperationStep
  <2>3. CASE \/ HandleUp \/ HandleDown \/ Resync \/ MaintainStart \/ MaintainCheck
             \/ MaintainUnavailable \/ (\E c \in Calls : SweepSkip(c)) \/ SweepEnd
    BY <1>1, <2>3 DEF HandleUp, HandleDown, Resync, MaintainStart, MaintainCheck, ListStart,
                      MaintainUnavailable, SweepSkip, SweepEnd, linkVars
  <2> QED BY <1>5, <2>1, <2>2, <2>3 DEF Running
<1>6. CASE Listing
  BY <1>6, ListStep
<1> QED
  BY <1>2, <1>3, <1>4, <1>5, <1>6 DEF Next

\* Nothing is listed at the start.
LEMMA AttemptInit == ASSUME Assumptions, Init PROVE AttemptInvariant
<1>1. ASSUME NEW c \in Calls PROVE Sane(c) /\ Replacement(c)
  <2>1. /\ c \notin invites /\ op[c] = "free" /\ attempt[c] = NewCall
        /\ parent[c] = NoCall /\ NoCall \notin Calls
    BY DEF Init, Assumptions, ServiceAssumption
  <2> QED BY <2>1 DEF Sane, Replacement, Retrying
<1> QED
  BY <1>1 DEF AttemptInvariant

\* The invariant of attempts: a listed attempt is never ended, a failed one is
\* never being hung up, one held by a retry has settled, and an attempt that was
\* replaced stays held until it is off the list.
THEOREM AttemptsAreSane == Spec => [](Typed /\ AttemptInvariant)
<1> USE CausesAssumption, LinkAssumption, ServiceAssumption DEF Assumptions
<1>1. Init => Typed /\ Shown /\ AttemptInvariant
  BY InitTyped, AttemptInit
<1>2. Typed /\ Shown /\ AttemptInvariant /\ [Next]_vars => (Typed /\ Shown /\ AttemptInvariant)'
  BY NextTyped, AttemptStep
<1> QED
  BY <1>1, <1>2, PTL DEF Spec

\* An attempt that has a replacement is never retried again, for any number of
\* users clicking at any time (attempt.op and the second lookup in RetryCall).
THEOREM NobodyRetriesTheReplaced == Spec => []NoRetryOfReplaced
<1>1. Typed /\ AttemptInvariant => NoRetryOfReplaced
  BY DEF AttemptInvariant, Replacement, Replaced, NoRetryOfReplaced
<1> QED
  BY <1>1, AttemptsAreSane, PTL

\* The service implements CallBoard: no dialing row vanishes, no cancelled row comes
\* back and an expired one is shown as failed, for any calls, commands and faults.
THEOREM RowsKeepTheirPromise == Spec => ImplementsCallBoard
<1> USE CausesAssumption, LinkAssumption, ServiceAssumption DEF Assumptions
<1>1. Init => Board!Init
  <2>1. ASSUME Init, NEW c \in Calls PROVE Stage(c) \in {"none", "over"}
    BY <2>1 DEF Init, Stage
  <2> QED BY <2>1 DEF Board!Init
<1>2. ASSUME Typed, Typed', AttemptInvariant, [Next]_vars
      PROVE  [Board!Next]_[c \in Calls |-> Stage(c)]
  <2>1. (\A d \in Calls : Steps(d)) /\ AttemptInvariant'
    BY <1>2, AttemptStep
  <2>2. ASSUME NEW d \in Calls PROVE Stage(d)' \in Board!Stages
    <3>1. d \in invites' => attempt'[d].phase # "ended"
      BY <2>1 DEF AttemptInvariant, Sane, Sound
    <3>2. attempt'[d] \in CallRecord /\ ServiceTyped'
      BY <1>2 DEF Typed, ServiceTyped
    <3>3. d \in invites' => Shows(attempt'[d]) \in {"cancelling", "expiring", "dialing", "connected", "failed"}
      BY <3>1, <3>2 DEF Shows, Pending, CallRecord, Phases
    <3> QED BY <3>1, <3>2, <3>3, StageShowsNext DEF Board!Stages
  <2> QED BY <2>1, <2>2 DEF Board!Next, Steps
<1>3. Typed /\ Typed' /\ AttemptInvariant /\ [Next]_vars
        => [Board!Next]_[c \in Calls |-> Stage(c)]
  BY <1>2
<1> QED
  BY <1>1, <1>3, AttemptsAreSane, PTL DEF Spec, ImplementsCallBoard, Board!Spec

----------------------------------------------------------------------------
(* The verdicts.                                                           *)

\* Channels that have been in the conference, or are gone.
Reached == {"joined", "leaving", "left", "gone"}

\* Channels that have left.
Departed == {"left", "gone"}

\* The events that are true of the channels ch: what a packet says of a channel
\* stays true.
Told(ch) ==
  {e \in Event : /\ e.kind \in {"ended", "originationFailed"} => ch[e.call] = "gone"
                 /\ e.kind \in {"channel", "answered"} => ch[e.call] \notin Unallocated
                 /\ e.kind = "join" => ch[e.call] \in Reached}

EventsAreTrue == events \in Seq(Told(channel))

\* What the attempt, the reply and the roster in flight say of the channel is true.
Founded(c) ==
  /\ attempt[c].phase \in {"failed", "ended"} /\ c \notin stale => channel[c] \in Departed
  /\ attempt[c].phase = "connected" => channel[c] \in Reached
  /\ attempt[c].seen \/ overdue[c] => channel[c] \notin Unallocated
  /\ command[c] = "rejected" => channel[c] = "gone"
  /\ command[c] \in {"hangup", "missing"} => channel[c] # "none"
  /\ command[c] = "missing" /\ c \notin stale => channel[c] \in {"queued", "gone"}
  /\ c \in list.found => channel[c] \in Reached
  /\ list.pc = "answered" /\ attempt[c].phase = "connected" /\ c \notin list.found
       => channel[c] \in Departed

VerdictInvariant == EventsAreTrue /\ \A c \in Calls : Founded(c)

\* Channels only move on.
Onward(old, new) ==
  \A c \in Calls : /\ old[c] \notin Unallocated => new[c] \notin Unallocated
                   /\ old[c] \in Reached => new[c] \in Reached
                   /\ old[c] \in Departed => new[c] \in Departed
                   /\ old[c] = "gone" => new[c] = "gone"
                   /\ old[c] # "none" => new[c] # "none"

\* An event that was true of the channels is true of them later.
LEMMA ToldStaysTold ==
  ASSUME NEW old, NEW new, Onward(old, new)
  PROVE  Told(old) \subseteq Told(new)
  BY DEF Onward, Told, Event

\* Sequences over a larger set.
LEMMA LargerSeq ==
  ASSUME NEW A, NEW B, A \subseteq B, NEW q \in Seq(A)
  PROVE  q \in Seq(B)
  OBVIOUS

\* Reading true packets keeps the queue true.
LEMMA ToldSent ==
  ASSUME LinkAssumption, LinkTyped, EventsAreTrue, Onward(channel, channel'),
         NEW batch \in Seq(Told(channel')), Send(batch)
  PROVE  EventsAreTrue'
<1>1. Told(channel) \subseteq Told(channel')
  BY ToldStaysTold
<1>2. events \in Seq(Told(channel'))
  BY <1>1, LargerSeq DEF EventsAreTrue
<1>3. Len(events) <= QueueCapacity
  BY DEF LinkTyped
<1>4. events' \in Seq(Told(channel'))
  BY <1>2, <1>3, SendGrows
<1> QED
  BY <1>4 DEF EventsAreTrue

\* Channels that move on keep the queue true.
LEMMA NothingSent ==
  ASSUME LinkTyped, EventsAreTrue, Onward(channel, channel'), UNCHANGED events
  PROVE  EventsAreTrue'
<1>1. Told(channel) \subseteq Told(channel')
  BY ToldStaysTold
<1> QED
  BY <1>1, LargerSeq DEF EventsAreTrue

\* Nobody's attempt, reply or list is involved: only channels move on.
LEMMA FoundedStays ==
  ASSUME LinkTyped, NEW c \in Calls, Founded(c), Onward(channel, channel'),
         attempt'[c] = attempt[c], overdue'[c] = overdue[c], command'[c] = command[c],
         list' = list, stale \subseteq stale',
         command[c] = "missing" /\ channel[c] = "queued" /\ c \notin stale' =>
           channel'[c] \in {"queued", "gone"}
  PROVE  Founded(c)'
  BY DEF Founded, Onward

\* A channel that moves sends packets that are true of where it has moved.
LEMMA ChannelMoves ==
  ASSUME LinkAssumption, LinkTyped, VerdictInvariant, NEW c \in Calls, UNCHANGED attempt,
         \/ Allocates(c) \/ AllocationFails(c) \/ DialFails(c) \/ Answers(c)
         \/ Joins(c) \/ Ends(c) \/ Leaves(c)
  PROVE  VerdictInvariant'
<1> USE DEF LinkTyped
<1>o. Onward(channel, channel')
  BY DEF Allocates, AllocationFails, DialFails, Answers, Joins, Ends, Leaves, Moves, Onward,
         Unallocated, Reached, Departed, ChannelStates
<1>t. \A kind \in Facts \union Happenings :
        /\ Happens(kind, c) \in Event
        /\ \A cause \in DialFailures \union {"Connection failed"} :
             Fact(kind, c, cause) \in Event
  BY EventTyped DEF Happens
<1>s. \A S : \A d, e, f \in S :
        <<d>> \in Seq(S) /\ <<d, e>> \in Seq(S) /\ <<d, e, f>> \in Seq(S)
  OBVIOUS
<1> DEFINE T == Told(channel')
<1>1. EventsAreTrue'
  <2>1. \E batch \in Seq(T) : Send(batch)
    <3>1. CASE Allocates(c) \/ Answers(c)
      <4>1. Happens("channel", c) \in Event /\ Happens("answered", c) \in Event
        BY <1>t DEF Facts
      <4>2. channel'[c] \notin Unallocated
        BY <3>1 DEF Allocates, Answers, Moves, Unallocated
      <4>3. Happens("channel", c) \in T /\ Happens("answered", c) \in T
        BY <4>1, <4>2 DEF Told, Happens, Fact
      <4> QED BY <1>s, <3>1, <4>3 DEF Allocates, Answers
    <3>2. CASE AllocationFails(c) \/ Ends(c)
      <4>1. /\ Fact("originationFailed", c, "Connection failed") \in Event
            /\ Fact("ended", c, "Connection failed") \in Event
        BY <1>t DEF Facts
      <4>2. channel'[c] = "gone"
        BY <3>2 DEF AllocationFails, Ends, Moves
      <4>3. /\ Fact("originationFailed", c, "Connection failed") \in T
            /\ Fact("ended", c, "Connection failed") \in T
        BY <4>1, <4>2 DEF Told, Fact
      <4> QED BY <1>s, <3>2, <4>3 DEF AllocationFails, Ends
    <3>3. CASE DialFails(c)
      <4>1. PICK why \in DialFailures :
              \/ Send(<<Fact("dialend", c, why),
                        Fact("originationFailed", c, "Connection failed"),
                        Fact("ended", c, "Connection failed")>>)
              \/ Send(<<Fact("ended", c, "Connection failed"), Fact("dialend", c, why)>>)
        BY <3>3 DEF DialFails
      <4>2. /\ Fact("originationFailed", c, "Connection failed") \in Event
            /\ Fact("ended", c, "Connection failed") \in Event
            /\ Fact("dialend", c, why) \in Event
        BY <1>t DEF Facts
      <4>3. channel'[c] = "gone"
        BY <3>3 DEF DialFails, Moves
      <4>4. /\ Fact("originationFailed", c, "Connection failed") \in T
            /\ Fact("ended", c, "Connection failed") \in T
            /\ Fact("dialend", c, why) \in T
        BY <4>2, <4>3 DEF Told, Fact
      <4> QED BY <1>s, <4>1, <4>4
    <3>4. CASE Joins(c) \/ Leaves(c)
      <4>1. /\ Happens("start", c) \in Event /\ Happens("join", c) \in Event
            /\ Happens("leave", c) \in Event /\ Happens("end", c) \in Event
        BY <1>t DEF Happenings
      <4>2. channel'[c] \in Reached
        BY <3>4 DEF Joins, Leaves, Moves, Reached
      <4>3. /\ Happens("start", c) \in T /\ Happens("join", c) \in T
            /\ Happens("leave", c) \in T /\ Happens("end", c) \in T
        BY <4>1, <4>2 DEF Told, Happens, Fact
      <4> HIDE DEF T
      <4> QED BY <1>s, <3>4, <4>3 DEF Joins, Leaves
    <3> QED BY <3>1, <3>2, <3>3, <3>4
  <2> QED BY <1>o, <2>1, ToldSent DEF VerdictInvariant
<1>2. ASSUME NEW d \in Calls PROVE Founded(d)'
  <2>1. /\ overdue' = overdue /\ command' = command /\ list' = list /\ stale \subseteq stale'
        /\ command[d] = "missing" /\ channel[d] = "queued" /\ d \notin stale'
             => channel'[d] \in {"queued", "gone"}
    BY DEF Allocates, AllocationFails, DialFails, Answers, Joins, Ends, Leaves, Moves
  <2> QED BY <1>o, <2>1, FoundedStays DEF VerdictInvariant
<1> QED
  BY <1>1, <1>2 DEF VerdictInvariant

\* What Asterisk replies is true of the channel when it replies, and what becomes
\* of a queued channel afterwards is in stale.
LEMMA AsteriskReplies ==
  ASSUME LinkAssumption, LinkTyped, VerdictInvariant, NEW c \in Calls, UNCHANGED attempt,
         \/ AsteriskAccepts(c) \/ AsteriskRejects(c) \/ AsteriskHangsUp(c) \/ AsteriskKicks(c)
         \/ DeadlinePasses(c)
  PROVE  VerdictInvariant'
<1> USE DEF LinkTyped, VerdictInvariant
<1>1. CASE AsteriskAccepts(c) \/ AsteriskRejects(c)
  <2>1. Onward(channel, channel') /\ UNCHANGED <<events, overdue, list, stale>>
    BY <1>1 DEF AsteriskAccepts, AsteriskRejects, Moves, Onward, Unallocated, Reached, Departed
  <2>2. ASSUME NEW d \in Calls PROVE Founded(d)'
    <3>1. CASE d # c
      <4>1. channel'[d] = channel[d] /\ command'[d] = command[d]
        BY <1>1, <3>1 DEF AsteriskAccepts, AsteriskRejects, Moves
      <4> QED BY <2>1, <4>1, FoundedStays
    <3>2. CASE d = c
      <4>1. /\ channel[c] = "wire"
            /\ \/ channel'[c] = "queued" /\ command'[c] \in {command[c], "accepted"}
               \/ channel'[c] = "gone" /\ command'[c] \in {command[c], "rejected"}
        BY <1>1 DEF AsteriskAccepts, AsteriskRejects, Moves
      <4> QED BY <2>1, <3>2, <4>1 DEF Founded, Onward
    <3> QED BY <3>1, <3>2
  <2> QED BY <2>1, <2>2, NothingSent
<1>2. CASE AsteriskHangsUp(c)
  <2>1. Onward(channel, channel') /\ UNCHANGED <<overdue, list, stale>>
    BY <1>2 DEF AsteriskHangsUp, Onward, Unallocated, Reached, Departed
  <2>2. EventsAreTrue'
    <3> DEFINE T == Told(channel')
    <3>1. CASE channel[c] \in {"ringing", "answered", "left"}
      <4>1. channel'[c] = "gone"
        BY <1>2, <3>1 DEF AsteriskHangsUp
      <4>2. /\ Fact("originationFailed", c, "Connection failed") \in Event
            /\ Fact("ended", c, "Connection failed") \in Event
        BY EventTyped DEF Facts
      <4>3. /\ Fact("originationFailed", c, "Connection failed") \in T
            /\ Fact("ended", c, "Connection failed") \in T
        BY <4>1, <4>2 DEF Told, Fact
      <4>4. \A S : \A d, e \in S : <<d>> \in Seq(S) /\ <<d, e>> \in Seq(S)
        OBVIOUS
      <4> HIDE DEF T
      <4>5. \E batch \in Seq(T) : Send(batch)
        BY <1>2, <3>1, <4>3, <4>4 DEF AsteriskHangsUp
      <4> QED BY <2>1, <4>5, ToldSent DEF T
    <3>2. CASE channel[c] \notin {"ringing", "answered", "left"}
      <4>1. UNCHANGED events
        BY <1>2, <3>2 DEF AsteriskHangsUp
      <4> QED BY <2>1, <4>1, NothingSent
    <3> QED BY <3>1, <3>2
  <2>3. ASSUME NEW d \in Calls PROVE Founded(d)'
    <3>1. CASE d # c
      <4>1. channel'[d] = channel[d] /\ command'[d] = command[d]
        BY <1>2, <3>1 DEF AsteriskHangsUp
      <4> QED BY <2>1, <4>1, FoundedStays
    <3>2. CASE d = c
      <4>1. /\ command[c] = "hangup" /\ channel[c] # "none"
            /\ \/ command'[c] = "hung"
               \/ command'[c] = "missing" /\ channel'[c] \in {"queued", "gone"}
        BY <1>2 DEF AsteriskHangsUp, Founded, ChannelStates
      <4> QED BY <2>1, <3>2, <4>1 DEF Founded, Onward
    <3> QED BY <3>1, <3>2
  <2> QED BY <2>2, <2>3
<1>3. CASE AsteriskKicks(c)
  <2>1. /\ Onward(channel, channel') /\ UNCHANGED <<events, overdue, list, stale, command>>
        /\ \A d \in Calls : channel[d] = "queued" => channel'[d] = "queued"
    BY <1>3 DEF AsteriskKicks, Onward, Unallocated, Reached, Departed
  <2>2. \A d \in Calls : Founded(d)'
    BY <2>1, FoundedStays
  <2> QED BY <2>1, <2>2, NothingSent
<1>4. CASE DeadlinePasses(c)
  <2>1. UNCHANGED <<channel, command, list, events, stale>> /\ channel[c] \notin Unallocated
        /\ \A d \in Calls : d # c => overdue'[d] = overdue[d]
    BY <1>4 DEF DeadlinePasses
  <2>2. Onward(channel, channel')
    BY <2>1 DEF Onward
  <2>3. \A d \in Calls : Founded(d)'
    BY <2>1 DEF Founded
  <2> QED BY <2>1, <2>2, <2>3, NothingSent
<1> QED
  BY <1>1, <1>2, <1>3, <1>4

\* Rosters, lost replies and connections: what is lost founds nothing.
LEMMA LinkSteps ==
  ASSUME LinkAssumption, LinkTyped, VerdictInvariant, UNCHANGED attempt,
         AsteriskLists \/ ReplyTimesOut \/ LinkLost \/ LinkRestored
  PROVE  VerdictInvariant'
<1> USE DEF LinkTyped, VerdictInvariant
<1>1. /\ Onward(channel, channel') /\ UNCHANGED <<events, overdue, stale>>
      /\ \A d \in Calls : channel[d] # "wire" => channel'[d] = channel[d]
  BY DEF AsteriskLists, ReplyTimesOut, LinkLost, LinkRestored, Onward, Unallocated, Reached,
         Departed
<1>2. \A d \in Calls : command'[d] \in {command[d], "broken"}
  BY DEF AsteriskLists, ReplyTimesOut, LinkLost, LinkRestored
<1>3. \/ list'.found = list.found /\ (list'.pc = "answered" => list.pc = "answered")
      \/ list'.found = Members /\ channel' = channel
  BY DEF AsteriskLists, ReplyTimesOut, LinkLost, LinkRestored
<1>4. ASSUME NEW d \in Calls PROVE Founded(d)'
  <2>1. CASE list'.found = list.found /\ (list'.pc = "answered" => list.pc = "answered")
    BY <1>1, <1>2, <2>1 DEF Founded, Onward
  <2>2. CASE list'.found = Members /\ channel' = channel
    BY <1>1, <1>2, <2>2 DEF Founded, Members, Reached, Departed
  <2> QED BY <1>3, <2>1, <2>2
<1> QED
  BY <1>1, <1>4, NothingSent

\* The channels and what is queued stay.
Same == UNCHANGED <<channel, events, overdue, stale>>

\* One call is judged again, the others keep their verdict.
LEMMA JudgedAgain ==
  ASSUME LinkTyped, ServiceTyped, EventsAreTrue, Same, NEW c \in Calls,
         \A d \in Calls : Founded(d), list' = list,
         \A d \in Calls : d # c => command'[d] = command[d] /\ attempt'[d] = attempt[d],
         Founded(c)'
  PROVE  VerdictInvariant'
<1>1. Onward(channel, channel')
  BY DEF Same, Onward
<1>2. EventsAreTrue'
  BY <1>1, NothingSent DEF Same
<1>3. \A d \in Calls : Founded(d)'
  BY DEF Same, Founded
<1> QED
  BY <1>2, <1>3 DEF VerdictInvariant

\* What an attempt says of its channel ch; exempt: the channel is in stale.
Stands(m, ch, exempt) ==
  /\ m.phase \in {"failed", "ended"} /\ ~exempt => ch \in Departed
  /\ m.phase = "connected" => ch \in Reached
  /\ m.seen => ch \notin Unallocated

\* A fact that is true of the channel leaves an attempt that stands.
LEMMA FactStands ==
  ASSUME NEW m \in CallRecord, NEW ch, NEW exempt \in BOOLEAN, Stands(m, ch, exempt),
         NEW kind \in Facts, NEW why \in Causes \union {NoFailure},
         kind \in {"ended", "originationFailed"} => ch = "gone",
         kind \in {"channel", "answered"} => ch \notin Unallocated
  PROVE  Stands(ApplyFact(m, kind, why), ch, exempt)
<1> USE DEF CallRecord, Stands, Pending, Stopping, Unless, Departed
<1>1. CASE kind = "channel"
  BY <1>1 DEF ApplyFact, ChannelObserved
<1>2. CASE kind = "dialend"
  BY <1>2 DEF ApplyFact, FailureObserved
<1>3. CASE kind = "answered"
  BY <1>3 DEF ApplyFact, Answered
<1>4. CASE kind \in {"originationFailed", "ended"}
  <2>1. ch \in Departed /\ ch \in Reached /\ ch \notin Unallocated
    BY <1>4 DEF Reached, Unallocated
  <2> QED BY <2>1
<1> QED
  BY <1>1, <1>2, <1>3, <1>4 DEF Facts

\* An ended attempt that leaves the list stands if it did.
LEMMA OverStands ==
  ASSUME NEW m \in CallRecord, NEW ch, NEW exempt \in BOOLEAN, Stands(m, ch, exempt),
         m.phase = "ended"
  PROVE  Stands(Over, ch, exempt)
  BY DEF Stands, Over, NewCall

\* A verdict on a call in one step: its attempt becomes n, which stands.
LEMMA Judged ==
  ASSUME LinkTyped, ServiceTyped, VerdictInvariant, Same, NEW c \in Calls, list' = list,
         list.pc # "answered" \/ (attempt'[c].phase = "connected" => attempt[c].phase = "connected"),
         NEW n \in CallRecord, ApplyCall(c, n), Stands(n, channel[c], c \in stale),
         \A d \in Calls : d # c => command'[d] = command[d],
         command'[c] \in {"none", command[c]} \/ (command'[c] = "hangup" /\ channel[c] # "none")
  PROVE  VerdictInvariant'
<1>1. \A d \in Calls : d # c => attempt'[d] = attempt[d]
  BY DEF ApplyCall, ServiceTyped
<1>2. Stands(attempt'[c], channel[c], c \in stale)
  <2>1. (c \in stale) \in BOOLEAN
    OBVIOUS
  <2>2. n.phase = "ended" => Stands(Over, channel[c], c \in stale)
    BY <2>1, OverStands
  <2> QED BY <2>2 DEF ApplyCall, ServiceTyped
<1>3. Founded(c)'
  BY <1>2 DEF VerdictInvariant, Founded, Stands, Same
<1> QED
  BY <1>1, <1>3, JudgedAgain DEF VerdictInvariant

\* A founded attempt stands.
LEMMA CallStands ==
  ASSUME NEW c \in Calls, Founded(c)
  PROVE  Stands(attempt[c], channel[c], c \in stale)
  BY DEF Founded, Stands

\* Replies to commands: a rejection is final, an unknown outcome is no verdict, and
\* "no such channel" is one only of a channel that was seen or is overdue.
LEMMA CommandVerdicts ==
  ASSUME Assumptions, Typed, AttemptInvariant, VerdictInvariant, NEW c \in Calls, Command(c)
  PROVE  VerdictInvariant'
<1> USE DEF Typed
<1>m. /\ attempt[c] \in CallRecord /\ Stands(attempt[c], channel[c], c \in stale) /\ Sane(c)
      /\ Founded(c) /\ CausesAssumption
  BY CallStands DEF ServiceTyped, VerdictInvariant, AttemptInvariant, Assumptions
<1>0. ASSUME Same, list' = list, UNCHANGED attempt, \A d \in Calls : d # c => command'[d] = command[d],
             command'[c] \in {"none", command[c]}
      PROVE  VerdictInvariant'
  <2>1. Founded(c)'
    BY <1>0, <1>m DEF Founded, Same
  <2> QED BY <1>0, <2>1, JudgedAgain DEF VerdictInvariant
<1>1. ASSUME NEW old, InviteStart(c, old) PROVE VerdictInvariant'
  <2>1. /\ channel[c] = "none" /\ channel' = [channel EXCEPT ![c] = "wire"]
        /\ command' = [command EXCEPT ![c] = "originate"]
        /\ UNCHANGED <<attempt, events, overdue, stale, list>>
    BY <1>1 DEF InviteStart
  <2>2. Onward(channel, channel')
    BY <2>1 DEF Onward, LinkTyped, Unallocated, Reached, Departed
  <2>3. ASSUME NEW d \in Calls PROVE Founded(d)'
    <3>1. CASE d # c
      <4>1. channel'[d] = channel[d] /\ command'[d] = command[d]
        BY <2>1, <3>1 DEF LinkTyped
      <4> QED BY <2>1, <2>2, <4>1, FoundedStays DEF VerdictInvariant
    <3>2. CASE d = c
      <4>1. attempt[c] = NewCall /\ command'[c] = "originate" /\ c \notin list.found /\ ~overdue[c]
        BY <1>m, <2>1 DEF Sane, LinkTyped, Founded, Reached, Unallocated
      <4> QED BY <2>1, <3>2, <4>1 DEF Founded, NewCall
    <3> QED BY <3>1, <3>2
  <2> QED BY <2>1, <2>2, <2>3, NothingSent DEF VerdictInvariant
<1>2. CASE InviteFinish(c)
  <2>0. /\ Same /\ list' = list /\ command' = [command EXCEPT ![c] = "none"]
    BY <1>2 DEF InviteFinish, Same
  <2>c. command'[c] = "none" /\ \A d \in Calls : d # c => command'[d] = command[d]
    BY <2>0 DEF LinkTyped
  <2>1. CASE command[c] = "accepted"
    BY <1>0, <1>2, <2>0, <2>1, <2>c DEF InviteFinish
  <2>2. CASE command[c] # "accepted"
    <3>1. PICK n \in CallRecord :
            ApplyCall(c, n) /\ Stands(n, channel[c], c \in stale)
            /\ (n.phase = "connected" => attempt[c].phase = "connected")
      <4>1. CASE command[c] = "rejected"
        <5>1. Stands(Rejected(attempt[c]), channel[c], c \in stale)
              /\ (Rejected(attempt[c]).phase = "connected" => attempt[c].phase = "connected")
          <6>1. channel[c] = "gone"
            BY <1>m, <4>1 DEF Founded
          <6> QED BY <1>m, <6>1 DEF Stands, Rejected, Unless, Pending, CallRecord, Departed
        <5> QED BY <1>2, <1>m, <4>1, <5>1, CallTypes DEF InviteFinish
      <4>2. CASE command[c] = "broken"
        <5>1. Stands(AcknowledgementUnknown(attempt[c]), channel[c], c \in stale)
              /\ (AcknowledgementUnknown(attempt[c]).phase = "connected" => attempt[c].phase = "connected")
          BY <1>m DEF Stands, AcknowledgementUnknown, Unless, Pending, CallRecord
        <5> QED BY <1>2, <1>m, <4>2, <5>1, CallTypes DEF InviteFinish
      <4> QED BY <1>2, <2>2, <4>1, <4>2 DEF InviteFinish
    <3>2. attempt'[c].phase = "connected" => attempt[c].phase = "connected"
      BY <3>1 DEF ApplyCall, ServiceTyped, Over, NewCall
    <3> QED BY <2>0, <2>c, <3>1, <3>2, Judged
  <2> QED BY <2>1, <2>2
<1>3. CASE CancelDismiss(c) \/ CancelStart(c)
  <2> DEFINE n == Cancel(attempt[c])
  <2>1. /\ Same /\ list' = list /\ ApplyCall(c, n) /\ c \in invites
        /\ command' = command \/ command' = [command EXCEPT ![c] = "hangup"]
    BY <1>3 DEF CancelDismiss, CancelStart, Same, linkVars
  <2>2. n \in CallRecord /\ Stands(n, channel[c], c \in stale)
        /\ (n.phase = "connected" => attempt[c].phase = "connected")
    BY <1>m, CallTypes DEF Stands, Cancel, Unless, CallRecord
  <2>3. channel[c] # "none" /\ (command'[c] = command[c] \/ command'[c] = "hangup")
        /\ \A d \in Calls : d # c => command'[d] = command[d]
    BY <1>m, <2>1 DEF Sane, LinkTyped
  <2> HIDE DEF n
  <2>4. attempt'[c].phase = "connected" => attempt[c].phase = "connected"
    BY <2>1, <2>2 DEF ApplyCall, ServiceTyped, Over, NewCall
  <2> QED BY <2>1, <2>2, <2>3, <2>4, Judged
<1>4. CASE HangupFinish(c)
  <2>1. Same /\ list' = list /\ command' = [command EXCEPT ![c] = "none"]
    BY <1>4 DEF HangupFinish, Same
  <2>2. command'[c] = "none" /\ \A d \in Calls : d # c => command'[d] = command[d]
    BY <2>1 DEF LinkTyped
  <2>3. CASE command[c] = "missing" /\ c \in invites
    <3> DEFINE n == ChannelMissing(attempt[c], overdue[c])
    <3>1. ApplyCall(c, n) /\ n \in CallRecord
      BY <1>4, <1>m, <2>3, CallTypes DEF HangupFinish, LinkTyped
    <3>2. c \notin stale /\ (attempt[c].seen \/ overdue[c]) => channel[c] = "gone"
      BY <1>m, <2>3 DEF Founded, Unallocated
    <3>3. Stands(n, channel[c], c \in stale)
          /\ (n.phase = "connected" => attempt[c].phase = "connected")
      BY <1>m, <3>2 DEF Stands, ChannelMissing, FinishStop, Unless, Stopping, CallRecord, Departed
    <3> HIDE DEF n
    <3>4. attempt'[c].phase = "connected" => attempt[c].phase = "connected"
      BY <3>1, <3>3 DEF ApplyCall, ServiceTyped, Over, NewCall
    <3> QED BY <2>1, <2>2, <3>1, <3>3, <3>4, Judged
  <2>4. CASE ~(command[c] = "missing" /\ c \in invites)
    BY <1>0, <1>4, <2>1, <2>2, <2>4 DEF HangupFinish
  <2> QED BY <2>3, <2>4
<1>5. CASE RetryStart(c) \/ RetryRefused(c) \/ RetryFinish(c) \/ KickStart(c) \/ KickFinish(c)
  BY <1>0, <1>5 DEF RetryStart, RetryRefused, RetryFinish, KickStart, KickFinish, Same, linkVars,
                    serviceVars
<1> QED
  BY <1>1, <1>2, <1>3, <1>4, <1>5 DEF Command, Invite, RetryInvites

\* Events about a call: only the end of its channel ends a call.
LEMMA EventVerdicts ==
  ASSUME Assumptions, Typed, VerdictInvariant, HandleEvent
  PROVE  VerdictInvariant'
<1> USE DEF Typed
<1>h. Takes
  BY DEF HandleEvent, HandleFact, HandleOutdated, HandleJoin, HandleLeave, HandleClear
<1> DEFINE e == Head(events)
<1>e. e \in Told(channel) /\ EventsAreTrue'
  <2>1. events \in Seq(Told(channel)) /\ events # <<>> /\ events' = Tail(events)
        /\ channel' = channel
    BY <1>h DEF VerdictInvariant, EventsAreTrue, Takes
  <2> QED BY <2>1, Tails DEF EventsAreTrue
<1>c. e.call \in Calls /\ e.cause \in Causes \union {NoFailure} /\ CausesAssumption
  BY <1>e DEF Told, Event, NoFailure, Unknown, Assumptions, ServiceAssumption, CausesAssumption
<1>m. /\ attempt[e.call] \in CallRecord
      /\ Stands(attempt[e.call], channel[e.call], e.call \in stale)
  BY <1>c, CallStands DEF ServiceTyped, VerdictInvariant
<1>u. UNCHANGED <<channel, command, overdue, stale, list>> /\ list.pc = "idle"
  BY <1>h DEF Takes
<1> HIDE DEF e
<1>0. ASSUME UNCHANGED attempt PROVE VerdictInvariant'
  BY <1>0, <1>e, <1>u DEF VerdictInvariant, Founded
<1>1. ASSUME NEW n \in CallRecord, ApplyCall(e.call, n),
             Stands(n, channel[e.call], e.call \in stale)
      PROVE  VerdictInvariant'
  <2>1. \A d \in Calls : d # e.call => attempt'[d] = attempt[d]
    BY <1>1 DEF ApplyCall, ServiceTyped
  <2>2. Stands(attempt'[e.call], channel[e.call], e.call \in stale)
    <3>1. (e.call \in stale) \in BOOLEAN
      OBVIOUS
    <3>2. n.phase = "ended" => Stands(Over, channel[e.call], e.call \in stale)
      BY <1>1, <3>1, OverStands
    <3> QED BY <1>1, <1>c, <3>2 DEF ApplyCall, ServiceTyped
  <2>3. \A d \in Calls : Founded(d)'
    BY <1>u, <2>1, <2>2 DEF VerdictInvariant, Founded, Stands
  <2> QED BY <1>e, <2>3 DEF VerdictInvariant
<1>2. CASE HandleFact
  <2>1. CASE e.call \in invites
    <3> DEFINE n == ApplyFact(attempt[e.call], e.kind, e.cause)
    <3>1. e.kind \in Facts /\ ApplyCall(e.call, n)
      BY <1>2, <2>1 DEF HandleFact, e
    <3>2. /\ e.kind \in {"ended", "originationFailed"} => channel[e.call] = "gone"
          /\ e.kind \in {"channel", "answered"} => channel[e.call] \notin Unallocated
          /\ (e.call \in stale) \in BOOLEAN
      BY <1>e DEF Told
    <3>3. n \in CallRecord /\ Stands(n, channel[e.call], e.call \in stale)
      BY <1>c, <1>m, <3>1, <3>2, CallTypes, FactStands
    <3> HIDE DEF n
    <3> QED BY <1>1, <3>1, <3>3
  <2>2. CASE e.call \notin invites
    BY <1>0, <1>2, <2>2 DEF HandleFact, e
  <2> QED BY <2>1, <2>2
<1>3. CASE HandleJoin
  <2>1. CASE e.call \in invites
    <3> DEFINE n == Joined(attempt[e.call])
    <3>1. ApplyCall(e.call, n) /\ n \in CallRecord
      BY <1>3, <1>c, <1>m, <2>1, CallTypes DEF HandleJoin, e
    <3>2. channel[e.call] \in Reached
      BY <1>3, <1>e DEF HandleJoin, Told, e
    <3>3. Stands(n, channel[e.call], e.call \in stale)
      BY <1>m, <3>2 DEF Stands, Joined, Unless, CallRecord
    <3> HIDE DEF n
    <3> QED BY <1>1, <3>1, <3>3
  <2>2. CASE e.call \notin invites
    BY <1>0, <1>3, <2>2 DEF HandleJoin, e
  <2> QED BY <2>1, <2>2
<1>4. CASE HandleOutdated \/ HandleLeave \/ HandleClear
  BY <1>0, <1>4 DEF HandleOutdated, HandleLeave, HandleClear
<1> QED
  BY <1>2, <1>3, <1>4 DEF HandleEvent

\* A roster ends only the connected calls that have left it: no attempt is found
\* connected between the roster and the section that forgets.
LEMMA ListVerdicts ==
  ASSUME Assumptions, Typed, AttemptInvariant, VerdictInvariant, Listing
  PROVE  VerdictInvariant'
<1> USE DEF Typed
<1>u. Same /\ UNCHANGED command
  BY DEF Listing, HttpList, ListStart, ListForget, ListReplace, ListFinish, ListFailed, Same
<1>e. EventsAreTrue'
  BY <1>u, NothingSent DEF VerdictInvariant, Same, Onward
<1>1. ASSUME NEW d \in Calls PROVE Founded(d)'
  <2>m. attempt[d] \in CallRecord /\ Founded(d)
    BY DEF ServiceTyped, VerdictInvariant
  <2>1. CASE HttpList \/ ListReplace
    <3>1. /\ UNCHANGED attempt /\ list'.found = list.found /\ list'.pc # "answered"
      BY <2>1 DEF HttpList, ListStart, ListReplace, LinkTyped
    <3> QED BY <1>u, <2>m, <3>1 DEF Founded, Same
  <2>2. CASE ListFailed
    <3>1. UNCHANGED attempt /\ list'.found = {} /\ list'.pc # "answered"
      BY <2>2 DEF ListFailed
    <3> QED BY <1>u, <2>m, <3>1 DEF Founded, Same
  <2>3. CASE ListForget
    <3>1. list'.found = list.found /\ list'.pc # "answered" /\ list.pc = "answered"
      BY <2>3 DEF ListForget, LinkTyped
    <3>2. CASE d \in Forgotten(list.found)
      <4>1. /\ attempt'[d] = Over /\ d \notin list.found /\ d \in invites
            /\ AbsentFromConference(attempt[d]).phase = "ended"
        BY <2>3, <3>2 DEF ListForget, Forgotten
      <4>2. attempt[d].phase = "connected"
        BY <2>m, <4>1 DEF AbsentFromConference, Unless, CallRecord, AttemptInvariant, Sane, Sound
      <4>3. channel[d] \in Departed
        BY <2>m, <3>1, <4>1, <4>2 DEF Founded
      <4> QED BY <1>u, <2>m, <3>1, <4>1, <4>3 DEF Founded, Same, Over, NewCall
    <3>3. CASE d \notin Forgotten(list.found)
      <4>1. attempt'[d] = attempt[d]
        BY <2>3, <3>3 DEF ListForget
      <4> QED BY <1>u, <2>m, <3>1, <4>1 DEF Founded, Same
    <3> QED BY <3>2, <3>3
  <2>4. CASE ListFinish
    <3>1. /\ list'.found = {} /\ list'.pc # "answered"
          /\ attempt'[d] = IF d \in invites \intersect list.found THEN Joined(attempt[d]) ELSE attempt[d]
      BY <2>4 DEF ListFinish, ReconcileJoined
    <3>2. CASE d \in invites \intersect list.found
      <4>1. channel[d] \in Reached
        BY <2>m, <3>2 DEF Founded
      <4>2. Stands(Joined(attempt[d]), channel[d], d \in stale)
        BY <2>m, <4>1, CallStands DEF Stands, Joined, Unless, CallRecord
      <4> QED BY <1>u, <2>m, <3>1, <3>2, <4>2 DEF Founded, Stands, Same
    <3>3. CASE d \notin invites \intersect list.found
      BY <1>u, <2>m, <3>1, <3>3 DEF Founded, Same
    <3> QED BY <3>2, <3>3
  <2> QED BY <2>1, <2>2, <2>3, <2>4 DEF Listing
<1> QED
  BY <1>1, <1>e DEF VerdictInvariant

\* Maintenance stops attempts and ends none.
LEMMA RunVerdicts ==
  ASSUME Assumptions, Typed, AttemptInvariant, VerdictInvariant, Running, ~HandleEvent
  PROVE  VerdictInvariant'
<1> USE DEF Typed
<1>1. ASSUME NEW c \in Calls, Sweep(c) PROVE VerdictInvariant'
  <2> DEFINE m == attempt[c]
             n == Maintenance(m, Due(c))
  <2>1. /\ m \in CallRecord /\ Stands(m, channel[c], c \in stale) /\ channel[c] # "none"
    BY <1>1, CallStands DEF Sweep, ServiceTyped, VerdictInvariant, AttemptInvariant, Sane
  <2>2. /\ Same /\ list' = list /\ ApplyCall(c, n)
        /\ command' = command \/ command' = [command EXCEPT ![c] = "hangup"]
    BY <1>1 DEF Sweep, Same
  <2>3. /\ command'[c] = command[c] \/ command'[c] = "hangup"
        /\ \A d \in Calls : d # c => command'[d] = command[d]
    BY <2>2 DEF LinkTyped
  <2>4. /\ n \in CallRecord /\ Stands(n, channel[c], c \in stale)
        /\ n.phase = "connected" => m.phase = "connected"
    <3>1. n = m \/ n = [m EXCEPT !.stop = "timeout"]
      BY DEF Maintenance, Unless
    <3> QED BY <2>1, <3>1 DEF CallRecord, StopReasons, Stands
  <2> HIDE DEF n
  <2>5. attempt'[c].phase = "connected" => attempt[c].phase = "connected"
    BY <2>2, <2>4 DEF ApplyCall, ServiceTyped, Over, NewCall
  <2> QED BY <2>1, <2>2, <2>3, <2>4, <2>5, Judged
<1>2. CASE ~\E c \in Calls : Sweep(c)
  <2>1. /\ Same /\ UNCHANGED <<command, attempt>>
        /\ list'.found = list.found /\ list'.pc \in {"asked", list.pc}
    BY <1>2 DEF Running, HandleUp, HandleDown, Resync, MaintainStart, MaintainCheck, ListStart,
                MaintainUnavailable, SweepSkip, SweepEnd, linkVars, Same, LinkTyped
  <2>2. EventsAreTrue'
    BY <2>1, NothingSent DEF VerdictInvariant, Same, Onward
  <2>3. \A d \in Calls : Founded(d)'
    BY <2>1 DEF VerdictInvariant, Founded, Same
  <2> QED BY <2>2, <2>3 DEF VerdictInvariant
<1> QED
  BY <1>1, <1>2

\* Every step keeps every verdict founded.
LEMMA VerdictStep ==
  ASSUME Assumptions, Typed, AttemptInvariant, VerdictInvariant, [Next]_vars
  PROVE  VerdictInvariant'
<1> USE DEF Typed
<1>a. LinkAssumption
  BY DEF Assumptions
<1>1. CASE UNCHANGED vars
  BY <1>1 DEF vars, linkVars, serviceVars, VerdictInvariant, EventsAreTrue, Founded
<1>2. CASE Asterisk \/ ConnectionLost \/ ConnectionRestored
  <2>1. UNCHANGED attempt
    BY <1>2, EnvironmentTyped DEF serviceVars, ConnectionLost, ConnectionRestored
  <2>2. CASE RepliesList \/ ReplyLost \/ ConnectionLost \/ ConnectionRestored
    BY <1>a, <2>1, <2>2, LinkSteps DEF RepliesList, ReplyLost, ConnectionLost, ConnectionRestored
  <2>3. ASSUME NEW c \in Calls,
               Proceeds(c) \/ Departs(c) \/ ObeysHangup(c) \/ ObeysKick(c) \/ Lateness(c)
        PROVE  VerdictInvariant'
    BY <1>a, <2>1, <2>3, ChannelMoves, AsteriskReplies
       DEF Proceeds, Departs, ObeysHangup, ObeysKick, Lateness
  <2> QED BY <1>2, <2>2, <2>3 DEF Asterisk
<1>3. CASE Commanding
  BY <1>3, CommandVerdicts DEF Commanding, Command
<1>4. CASE Running
  BY <1>4, EventVerdicts, RunVerdicts
<1>5. CASE Listing
  BY <1>5, ListVerdicts
<1> QED
  BY <1>1, <1>2, <1>3, <1>4, <1>5 DEF Next

\* At the start nothing is claimed of any channel.
LEMMA VerdictInit == ASSUME Init PROVE VerdictInvariant
  BY DEF Init, LinkInit, VerdictInvariant, EventsAreTrue, Founded, NewCall

\* A call is declared failed or over only when its channel has left or is gone: no
\* lost, late or dropped packet, reply or connection invents the end of a call,
\* but for the channels in stale, for any number of calls, queue and faults.
THEOREM VerdictsAreFounded == Spec => []NoVerdictOnLiveCall
<1> USE CausesAssumption, LinkAssumption, ServiceAssumption DEF Assumptions
<1>1. Init => VerdictInvariant
  BY VerdictInit
<1>2. Typed /\ AttemptInvariant /\ VerdictInvariant /\ [Next]_vars => VerdictInvariant'
  BY VerdictStep
<1>3. VerdictInvariant => NoVerdictOnLiveCall
  BY DEF VerdictInvariant, Founded, NoVerdictOnLiveCall, Departed
<1> QED
  BY <1>1, <1>2, <1>3, AttemptsAreSane, PTL DEF Spec
=============================================================================
