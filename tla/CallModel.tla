------------------------------ MODULE CallModel ------------------------------
(***************************************************************************)
(* One outgoing call attempt as a value, and the inputs that change it:    *)
(* callModel and transitionCall of internal/conference.  The module has no *)
(* state of its own.  ConferenceService applies these operators to the     *)
(* attempts it tracks.                                                     *)
(*                                                                         *)
(* The caller's name and number are data no rule reads, and are left out.  *)
(* The clock is left out too: an input that carries Now and Timeout        *)
(* carries here the outcome of overdue(), the Boolean "late".              *)
(***************************************************************************)

CONSTANT Causes        \* the telephony.Failure values an event can report

NoFailure  == ""
Unknown    == "Connection failed"
NoAnswer   == "No answer"
Refused    == "Asterisk rejected the call"

ASSUME CausesAssumption == Unknown \in Causes /\ NoFailure \notin Causes

Phases      == {"dialing", "joining", "connected", "failed", "ended"}
StopReasons == {"none", "user", "timeout"}
Failures    == Causes \cup {NoFailure, NoAnswer, Refused}

CallRecord == [phase    : Phases,
               stop     : StopReasons,
               seen     : BOOLEAN,       \* ChannelSeen
               failure  : Failures,
               dial     : Causes \cup {NoFailure},   \* DialFailure
               checking : BOOLEAN]

NewCall == [phase |-> "dialing", stop |-> "none", seen |-> FALSE,
            failure |-> NoFailure, dial |-> NoFailure, checking |-> FALSE]

Pending(m)  == m.phase \in {"dialing", "joining"}
Stopping(m) == m.stop # "none"
NeedsReconcile(m, late) == Pending(m) /\ ~Stopping(m) /\ late

------------------------------------------------------------------------------
(* What the inputs share.                                                   *)

FinishStop(m) ==
  IF m.stop = "timeout"
  THEN [m EXCEPT !.phase = "failed", !.failure = NoAnswer, !.stop = "none"]
  ELSE [m EXCEPT !.phase = "ended"]

\* A dial failure seen earlier wins, and the generic reason never replaces a
\* specific one already shown.
Fail(m, reason) ==
  LET why  == IF m.dial # NoFailure THEN m.dial ELSE reason
      take == m.phase # "failed" \/ why # Unknown \/ m.failure = NoFailure
  IN  [m EXCEPT !.phase = "failed", !.failure = IF take THEN why ELSE @]

\* Ended is absorbing: transitionCall returns at once.
Unless(m, next) == IF m.phase = "ended" THEN m ELSE next

------------------------------------------------------------------------------
(* Inputs from commands.                                                    *)

\* Plausible slip: an unknown outcome is taken for a failure.
UnknownIsFailure(m) ==
  Unless(m, IF Pending(m) THEN [m EXCEPT !.phase = "failed", !.failure = Unknown] ELSE m)

AcknowledgementUnknown(m) ==
  Unless(m, IF Pending(m) THEN [m EXCEPT !.checking = TRUE] ELSE m)

Rejected(m) ==
  Unless(m, IF Pending(m) THEN [m EXCEPT !.phase = "failed", !.failure = Refused] ELSE m)

Cancel(m) ==
  Unless(m, IF m.phase = "failed" THEN [m EXCEPT !.phase = "ended"]
            ELSE IF m.stop = "none" THEN [m EXCEPT !.stop = "user"]
            ELSE m)

CancelHangsUp(m) == m.phase \notin {"ended", "failed"}

------------------------------------------------------------------------------
(* Inputs from roster snapshots and from maintenance.                       *)

\* Plausible slip: a join is taken as the end of every doubt, the stop included.
JoinUndoesStop(m) ==
  Unless(m, [m EXCEPT !.phase = "connected", !.stop = "none",
                      !.failure = NoFailure, !.checking = FALSE])

Joined(m) ==
  Unless(m, [m EXCEPT !.phase = "connected", !.failure = NoFailure, !.checking = FALSE])

AbsentFromConference(m) ==
  Unless(m, IF m.phase = "connected" /\ ~Stopping(m) THEN [m EXCEPT !.phase = "ended"] ELSE m)

\* Plausible slip: a deadline that passes is never acted on.
MaintenanceForgets(m, late) == m

Maintenance(m, late) ==
  Unless(m, IF NeedsReconcile(m, late) THEN [m EXCEPT !.stop = "timeout"] ELSE m)

\* Plausible slip: a user's cancellation is sent once and not again.
HangsUpOverdueOnly(m) == m.phase # "ended" /\ m.stop = "timeout"

MaintenanceHangsUp(m) == m.phase # "ended" /\ Stopping(m)

\* "No such channel" ends the call only if a channel was seen, the call had
\* failed, or the deadline passed; otherwise it may not be allocated yet.
ChannelMissing(m, late) ==
  Unless(m, IF Stopping(m) /\ (m.seen \/ m.phase = "failed" \/ late) THEN FinishStop(m) ELSE m)

------------------------------------------------------------------------------
(* Inputs from events (callTransportEvent).                                 *)

ChannelObserved(m) == Unless(m, [m EXCEPT !.seen = TRUE])

FailureObserved(m, why) ==
  Unless(m, [m EXCEPT !.dial = why, !.failure = IF m.phase = "failed" THEN why ELSE @])

Answered(m) ==
  Unless(m, IF Pending(m)
            THEN [m EXCEPT !.seen = TRUE, !.phase = "joining", !.checking = FALSE]
            ELSE [m EXCEPT !.seen = TRUE])

OriginationFailed(m, why) ==
  Unless(m, IF m.phase = "connected" THEN m
            ELSE IF Stopping(m) THEN FinishStop(m)
            ELSE Fail(m, why))

ChannelEnded(m, why) ==
  Unless(m, IF Stopping(m) THEN FinishStop(m)
            ELSE IF m.phase = "connected" THEN [m EXCEPT !.phase = "ended"]
            ELSE IF m.phase # "failed" THEN Fail(m, why)
            ELSE m)

TransportKinds == {"channel", "dialend", "answered", "originationFailed", "ended"}

\* The fact an event states about the attempt it names.
ApplyFact(m, kind, why) ==
  CASE kind = "channel"           -> ChannelObserved(m)
    [] kind = "dialend"           -> FailureObserved(m, why)
    [] kind = "answered"          -> Answered(m)
    [] kind = "originationFailed" -> OriginationFailed(m, why)
    [] kind = "ended"             -> ChannelEnded(m, why)

------------------------------------------------------------------------------
(* The row a browser shows for an attempt: view().                          *)

RowState(m) ==
  IF Stopping(m) THEN "dialing"
  ELSE CASE m.phase = "connected" -> "connected"
         [] m.phase = "failed"    -> "failed"
         [] OTHER                 -> "dialing"

RowReason(m) ==
  IF Stopping(m) THEN "Cancelling"
  ELSE IF Pending(m) /\ m.checking THEN "Checking call status"
  ELSE CASE m.phase = "joining" -> "Answered; joining conference"
         [] m.phase = "failed"  -> m.failure
         [] OTHER               -> NoFailure

Row(c, m) == [call |-> c, state |-> RowState(m), reason |-> RowReason(m)]
=============================================================================
