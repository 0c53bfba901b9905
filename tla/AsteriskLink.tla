----------------------------- MODULE AsteriskLink -----------------------------
(***************************************************************************)
(* What a conference service can observe of Asterisk: the channels of its  *)
(* outgoing calls, the replies to the actions it sends, and the stream of  *)
(* events.  Asterisk is not part of the repository; its channels are       *)
(* modelled from what internal/ami and internal/conference rely on.  The   *)
(* event path is internal/ami/client.go and the room's own queue in        *)
(* internal/conference/manager.go.                                         *)
(*                                                                         *)
(* One TCP connection carries replies and events in order, so an event     *)
(* counts as read by the client when it is sent.  What it may overtake is  *)
(* the goroutine that waits for an earlier reply: a reply stays in         *)
(* "command" or "list" until that goroutine takes it.                      *)
(*                                                                         *)
(* Sequence numbers are not kept.  They are compared only to tell which    *)
(* queued events were read before a given moment, and the queue is in      *)
(* order: the number of queued events at that moment says the same.        *)
(***************************************************************************)
EXTENDS Integers, Sequences, FiniteSets

CONSTANTS
  Calls,            \* application identifiers of outgoing attempts
  Present,          \* participants from before the program started
  DialFailures,     \* specific reasons a dial leg reports
  QueueCapacity,    \* the room's event queue, 256 in the code
  MaxFaults         \* bound: disconnections and lost replies together

ASSUME LinkAssumption == /\ QueueCapacity \in Nat \ {0}
                         /\ MaxFaults \in Nat
                         /\ IsFiniteSet(Calls) /\ Present \subseteq Calls

VARIABLES
  link,       \* Client.Connected()
  channel,    \* the main leg of each call, as Asterisk sees it
  command,    \* the Originate or Hangup an operation waits for, and its reply
  kick,       \* the ConfbridgeKick sent for each call, and its reply
  list,       \* the ConfbridgeList in progress: [pc, found]
  events,     \* events read and not yet handled, oldest first
  overdue,    \* the deadline of the attempt (its timeout plus 10s) has passed
  faults,     \* disconnections and lost replies so far
  stale,      \* history: channels allocated while the reply "no such channel"
              \* to a Hangup waited to be taken
  missed      \* history: whether an event was lost since the last complete list
              \* began: "none"; "before" the list now in progress; "since"

linkVars == <<link, channel, command, kick, list, events, overdue,
              faults, stale, missed>>

(* "wire": the Originate is written but not read; "queued": accepted, no     *)
(* channel yet; "leaving": kicked but still counted in the conference;      *)
(* "left": out of the conference, not hung up yet.                          *)
ChannelStates == {"none", "wire", "queued", "ringing", "answered", "joined",
                  "leaving", "left", "gone"}
Commands == {"none", "originate", "accepted", "rejected",
             "hangup", "hung", "missing", "broken"}

Unallocated == {"none", "wire", "queued"}
Members     == {c \in Calls : channel[c] \in {"joined", "leaving"}}

Facts      == {"channel", "dialend", "answered", "originationFailed", "ended"}
Happenings == {"join", "leave", "start", "end"}
Event      == [kind  : Facts \cup Happenings, call : Calls,
               cause : DialFailures \cup {"", "Connection failed"}]

Fact(kind, c, cause) == [kind |-> kind, call |-> c, cause |-> cause]
Happens(kind, c)     == Fact(kind, c, "")

------------------------------------------------------------------------------
(* The event path.                                                          *)

\* route reads the packets and dispatch puts them in the room's queue, or drops
\* what does not fit.  With the link down nothing is read.
Send(batch) ==
  IF link
  THEN LET room == QueueCapacity - Len(events)
           kept == IF Len(batch) <= room THEN Len(batch) ELSE room
       IN  /\ events' = events \o SubSeq(batch, 1, kept)
           /\ missed' = IF kept < Len(batch) THEN "since" ELSE missed
  ELSE missed' = "since" /\ UNCHANGED events

------------------------------------------------------------------------------
(* Channels.                                                                *)

LinkInit ==
  /\ link = TRUE
  /\ channel = [c \in Calls |-> IF c \in Present THEN "joined" ELSE "none"]
  /\ command = [c \in Calls |-> "none"]
  /\ kick = [c \in Calls |-> "none"]
  /\ list = [pc |-> "idle", found |-> {}]
  /\ events = <<>>
  /\ overdue = [c \in Calls |-> FALSE]
  /\ faults = 0
  /\ stale = {}
  /\ missed = "since"

Moves(c, from, to) == channel[c] \in from /\ channel' = [channel EXCEPT ![c] = to]

AsteriskAccepts(c) ==
  /\ Moves(c, {"wire"}, "queued")
  /\ command' = [command EXCEPT ![c] = IF @ = "originate" THEN "accepted" ELSE @]
  /\ UNCHANGED <<link, kick, list, events, overdue, faults, stale, missed>>

AsteriskRejects(c) ==
  /\ Moves(c, {"wire"}, "gone")
  /\ command' = [command EXCEPT ![c] = IF @ = "originate" THEN "rejected" ELSE @]
  /\ UNCHANGED <<link, kick, list, events, overdue, faults, stale, missed>>

Allocates(c) ==
  /\ Moves(c, {"queued"}, "ringing")
  /\ stale' = IF command[c] = "missing" THEN stale \cup {c} ELSE stale
  /\ Send(<<Happens("channel", c)>>)
  /\ UNCHANGED <<link, command, kick, list, overdue, faults>>

AllocationFails(c) ==
  /\ Moves(c, {"queued"}, "gone")
  /\ Send(<<Fact("originationFailed", c, "Connection failed")>>)
  /\ UNCHANGED <<link, command, kick, list, overdue, faults, stale>>

\* The dial leg, the main leg and the originate thread report in either order.
DialFails(c) ==
  /\ Moves(c, {"ringing"}, "gone")
  /\ \E why \in DialFailures :
       \/ Send(<<Fact("dialend", c, why),
                 Fact("originationFailed", c, "Connection failed"),
                 Fact("ended", c, "Connection failed")>>)
       \/ Send(<<Fact("ended", c, "Connection failed"),
                 Fact("dialend", c, why)>>)
  /\ UNCHANGED <<link, command, kick, list, overdue, faults, stale>>

Answers(c) ==
  /\ Moves(c, {"ringing"}, "answered")
  /\ Send(<<Happens("answered", c)>>)
  /\ UNCHANGED <<link, command, kick, list, overdue, faults, stale>>

Joins(c) ==
  /\ Moves(c, {"answered"}, "joined")
  /\ Send(IF Members = {} THEN <<Happens("start", c), Happens("join", c)>>
          ELSE <<Happens("join", c)>>)
  /\ UNCHANGED <<link, command, kick, list, overdue, faults, stale>>

Leaves(c) ==
  /\ Moves(c, {"joined", "leaving"}, "left")
  /\ Send(IF Members = {c} THEN <<Happens("leave", c), Happens("end", c)>>
          ELSE <<Happens("leave", c)>>)
  /\ UNCHANGED <<link, command, kick, list, overdue, faults, stale>>

Ends(c) ==
  /\ Moves(c, {"answered", "left"}, "gone")
  /\ Send(<<Fact("ended", c, "Connection failed")>>)
  /\ UNCHANGED <<link, command, kick, list, overdue, faults, stale>>

------------------------------------------------------------------------------
(* Replies.                                                                 *)

\* A Hangup reaches Asterisk after every earlier action of the connection.
AsteriskHangsUp(c) ==
  /\ command[c] = "hangup" /\ channel[c] # "wire"
  /\ IF channel[c] \in {"ringing", "answered", "joined", "leaving", "left"}
     THEN /\ command' = [command EXCEPT ![c] = "hung"]
          /\ channel' = [channel EXCEPT ![c] =
                           IF @ \in {"joined", "leaving"} THEN "leaving" ELSE "gone"]
          /\ IF channel[c] \in {"joined", "leaving"}
             THEN UNCHANGED <<events, missed>>
             ELSE Send(IF channel[c] = "ringing"
                       THEN <<Fact("ended", c, "Connection failed"),
                              Fact("originationFailed", c, "Connection failed")>>
                       ELSE <<Fact("ended", c, "Connection failed")>>)
     ELSE /\ command' = [command EXCEPT ![c] = "missing"]
          /\ UNCHANGED <<channel, events, missed>>
  /\ UNCHANGED <<link, kick, list, overdue, faults, stale>>

AsteriskKicks(c) ==
  /\ kick[c] = "sent"
  /\ IF channel[c] \in {"joined", "leaving"}
     THEN /\ kick' = [kick EXCEPT ![c] = "ok"]
          /\ channel' = [channel EXCEPT ![c] = "leaving"]
     ELSE kick' = [kick EXCEPT ![c] = "broken"] /\ UNCHANGED channel
  /\ UNCHANGED <<link, command, list, events, overdue, faults, stale, missed>>

\* The reply names who is in the conference when Asterisk reads the action.
AsteriskLists ==
  /\ list.pc = "asked"
  /\ list' = [pc |-> "answered", found |-> Members]
  /\ UNCHANGED <<link, channel, command, kick, events, overdue, faults,
                 stale, missed>>

\* The operation gives up on a reply: do() returns its context's error.
ReplyTimesOut ==
  /\ faults < MaxFaults /\ faults' = faults + 1
  /\ \/ /\ \E c \in Calls : command[c] \in {"originate", "hangup"}
                            /\ command' = [command EXCEPT ![c] = "broken"]
        /\ UNCHANGED <<kick, list>>
     \/ /\ \E c \in Calls : kick[c] = "sent" /\ kick' = [kick EXCEPT ![c] = "broken"]
        /\ UNCHANGED <<command, list>>
     \/ /\ list.pc = "asked" /\ list' = [list EXCEPT !.pc = "broken"]
        /\ UNCHANGED <<command, kick>>
  /\ UNCHANGED <<link, channel, events, overdue, stale, missed>>

\* The connection is lost: every waiting action fails, and an Originate still
\* on the wire was either read by Asterisk or never will be.
LinkLost ==
  /\ link /\ faults < MaxFaults
  /\ link' = FALSE /\ faults' = faults + 1
  /\ \E read \in SUBSET {c \in Calls : channel[c] = "wire"} :
       channel' = [c \in Calls |-> IF channel[c] # "wire" THEN channel[c]
                                   ELSE IF c \in read THEN "queued" ELSE "gone"]
  /\ command' = [c \in Calls |-> IF command[c] \in {"originate", "hangup"}
                                 THEN "broken" ELSE command[c]]
  /\ kick' = [c \in Calls |-> IF kick[c] = "sent" THEN "broken" ELSE kick[c]]
  /\ list' = [list EXCEPT !.pc = IF @ = "asked" THEN "broken" ELSE @]
  /\ UNCHANGED <<events, overdue, stale, missed>>

LinkRestored ==
  /\ ~link /\ link' = TRUE
  /\ UNCHANGED <<channel, command, kick, list, events, overdue, faults,
                 stale, missed>>
=============================================================================
