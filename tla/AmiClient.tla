------------------------------- MODULE AmiClient -------------------------------
(***************************************************************************)
(* internal/ami/client.go: one TCP connection to the Asterisk manager      *)
(* interface, shared by every goroutine that sends an action.  A reader    *)
(* hands each packet to the action that waits for it or to the event       *)
(* stream; a gate lets one writer at a time use the socket; the end of     *)
(* the connection releases whoever waits.                                  *)
(*                                                                         *)
(* Each caller performs one Action or ActionList; its name stands for its  *)
(* ActionID.  Sessions are numbered in the order they are opened, and only *)
(* the last has a reader.  Asterisk is external: it answers an action it   *)
(* received whole, in order, mixing the answers to different actions.      *)
(***************************************************************************)
EXTENDS Integers, Sequences, FiniteSets

CONSTANTS
  Callers,        \* goroutines in Client.do
  Lists,          \* those in ActionList
  Originates,     \* those whose outcome Asterisk also reports in an event
  Items,          \* bound: payload events in the answer to a list
  ReplyCapacity,  \* pending.ch, 32 in the code
  EventCapacity,  \* Client.events
  MaxSessions     \* bound: connections opened

ASSUME ClientAssumption ==
  /\ Lists \subseteq Callers /\ Originates \subseteq Callers \ Lists
  /\ Items \in Nat /\ MaxSessions \in Nat
  /\ ReplyCapacity \in Nat \ {0} /\ EventCapacity \in Nat \ {0}

VARIABLES
  run,      \* where Client.Run is
  live,     \* the session runOnce owns, or owned last; 0 before the first
  current,  \* Client.sess; 0 is nil
  closed,   \* sessions closed by session.close
  broken,   \* sessions whose connection has failed
  wire,     \* packets on their way from Asterisk to the reader
  hand,     \* the packet route has decoded and must deliver
  socket,   \* packets written on the live session: [from, whole]
  events,   \* Client.events
  pc,       \* where each caller is
  sess,     \* the session each caller took
  expired,  \* callers whose context has ended
  pending,  \* callers registered with their session
  inbox,    \* pending.ch of each caller
  got,      \* packets each caller has consumed
  result,   \* what each caller returns
  reply,    \* Asterisk's whole answer to each caller
  sent,     \* how much of it has been sent
  heard,    \* history: Originates whose outcome was taken from Client.events
  dropped   \* history: Originates whose outcome found Client.events full

vars == <<run, live, current, closed, broken, wire, hand, socket, events, pc,
          sess, expired, pending, inbox, got, result, reply, sent, heard,
          dropped>>
readerVars == <<run, live, current, wire, hand, events, dropped>>

SessionIds == 1..MaxSessions
Packets == [from : Callers, kind : {"success", "error", "item", "complete",
                                    "outcome"}, n : 0..Items]
Results == {"none", "ok", "rejected", "expired", "disconnected",
            "notConnected", "failed"}

IsEvent(p) == p.kind \in {"item", "complete", "outcome"}

----------------------------------------------------------------------------
(* The reader.                                                             *)

\* runOnce up to setSession.  An attempt that fails before changes nothing.
Connect ==
  /\ run = "dial" /\ live < MaxSessions
  /\ run' = "read" /\ live' = live + 1 /\ current' = live + 1
  /\ wire' = <<>> /\ socket' = <<>>
  /\ UNCHANGED <<closed, broken, hand, events, pc, sess, expired, pending,
                 inbox, got, result, reply, sent, heard, dropped>>

\* ErrLoginFailed instead: Run returns.
GiveUp ==
  /\ run = "dial" /\ live < MaxSessions
  /\ run' = "stopped"
  /\ UNCHANGED <<live, current, closed, broken, wire, hand, socket, events, pc,
                 sess, expired, pending, inbox, got, result, reply, sent,
                 heard, dropped>>

WantedByAnyone(p) == p.from \in pending
\* Only a list action consumes events.
Wanted(p) == p.from \in pending /\ (~IsEvent(p) \/ p.from \in Lists)

\* Decode and the lookup of route; an event nobody waits for goes to
\* Client.events, or is dropped when that is full.
Read ==
  LET p == Head(wire) IN
  /\ run = "read" /\ wire # <<>>
  /\ wire' = Tail(wire)
  /\ IF Wanted(p)
     THEN run' = "deliver" /\ hand' = <<p>> /\ UNCHANGED <<events, dropped>>
     ELSE /\ UNCHANGED <<run, hand>>
          /\ IF IsEvent(p) /\ Len(events) < EventCapacity
             THEN events' = Append(events, p) /\ UNCHANGED dropped
             ELSE /\ dropped' = dropped \union
                                  {a \in {p.from} : p.kind = "outcome"}
                  /\ UNCHANGED events
  /\ UNCHANGED <<live, current, closed, broken, socket, pc, sess, expired,
                 pending, inbox, got, result, reply, sent, heard>>

Deliver ==
  /\ run = "deliver" /\ hand[1].from \in pending /\ Len(inbox[hand[1].from]) < ReplyCapacity
  /\ inbox' = [inbox EXCEPT ![hand[1].from] = Append(@, hand[1])]
  /\ run' = "read" /\ hand' = <<>>
  /\ UNCHANGED <<live, current, closed, broken, wire, socket, events, pc, sess,
                 expired, pending, got, result, reply, sent, heard, dropped>>

NeverAbandoned(a) == FALSE
\* pending.done: the caller has walked away.
Abandoned(a) == a \notin pending

Discard ==
  /\ run = "deliver" /\ (Abandoned(hand[1].from) \/ live \in closed)
  /\ run' = "read" /\ hand' = <<>>
  /\ UNCHANGED <<live, current, closed, broken, wire, socket, events, pc, sess,
                 expired, pending, inbox, got, result, reply, sent, heard,
                 dropped>>

\* Decode returns an error; what was still on the way is lost.
ReadFails ==
  /\ run = "read" /\ live \in closed \union broken
  /\ run' = "clear" /\ wire' = <<>>
  /\ UNCHANGED <<live, current, closed, broken, hand, socket, events, pc, sess,
                 expired, pending, inbox, got, result, reply, sent, heard,
                 dropped>>

\* clearSession, first under the lock, then session.close.
ClearSession ==
  /\ run = "clear"
  /\ run' = "close" /\ current' = IF current = live THEN 0 ELSE current
  /\ UNCHANGED <<live, closed, broken, wire, hand, socket, events, pc, sess,
                 expired, pending, inbox, got, result, reply, sent, heard,
                 dropped>>

LeaveOpen == closed' = closed
Shut == closed' = closed \union {live}

CloseSession ==
  /\ run = "close"
  /\ Shut
  /\ run' = "dial"
  /\ UNCHANGED <<live, current, broken, wire, hand, socket, events, pc, sess,
                 expired, pending, inbox, got, result, reply, sent, heard,
                 dropped>>

----------------------------------------------------------------------------
(* A caller.                                                               *)

callerFrame == <<run, live, current, broken, wire, hand, events, reply, sent,
                 heard, dropped>>

\* Client.do reads the session it will use.
Begin(a) ==
  /\ pc[a] = "start"
  /\ sess' = [sess EXCEPT ![a] = current]
  /\ pc' = [pc EXCEPT ![a] = IF current = 0 THEN "done" ELSE "captured"]
  /\ result' = [result EXCEPT ![a] = IF current = 0 THEN "notConnected" ELSE @]
  /\ UNCHANGED callerFrame
  /\ UNCHANGED <<closed, socket, expired, pending, inbox, got>>

\* The session may have been closed since.
Register(a) ==
  /\ pc[a] = "captured"
  /\ IF sess[a] \in closed
     THEN /\ pc' = [pc EXCEPT ![a] = "done"]
          /\ result' = [result EXCEPT ![a] = "disconnected"]
          /\ UNCHANGED pending
     ELSE /\ pc' = [pc EXCEPT ![a] = "registered"]
          /\ pending' = pending \union {a}
          /\ UNCHANGED result
  /\ UNCHANGED callerFrame
  /\ UNCHANGED <<closed, socket, sess, expired, inbox, got>>

\* What do returns; unregister is deferred.
Leave(a, r) ==
  /\ pc' = [pc EXCEPT ![a] = "leaving"]
  /\ result' = [result EXCEPT ![a] = r]

\* The context or the session ends while the caller waits at the gate; an
\* ended context is noticed again once the gate is passed.
RefusedAtGate(a) ==
  /\ pc[a] = "registered"
  /\ \/ a \in expired /\ Leave(a, "expired")
     \/ sess[a] \in closed /\ Leave(a, "disconnected")
  /\ UNCHANGED callerFrame
  /\ UNCHANGED <<closed, socket, sess, expired, pending, inbox, got>>

AnyTime(a) == TRUE
\* writeGate: one writer per session.
GateFree(a) ==
  \A b \in Callers : pc[b] \in {"writing", "written"} => sess[b] # sess[a]

Usable(s) == s = live /\ s \notin closed \union broken

\* A field of the action cannot be encoded: found before anything is written.
CannotEncode(a) ==
  /\ pc[a] = "registered" /\ GateFree(a) /\ a \notin expired
  /\ Leave(a, "failed")
  /\ UNCHANGED callerFrame
  /\ UNCHANGED <<closed, socket, sess, expired, pending, inbox, got>>

\* The gate is passed, WriteTo starts, and part of the packet is on the socket.
StartWrite(a) ==
  /\ pc[a] = "registered" /\ GateFree(a) /\ a \notin expired
  /\ pc' = [pc EXCEPT ![a] = "writing"]
  /\ socket' = IF Usable(sess[a])
               THEN Append(socket, [from |-> a, whole |-> FALSE])
               ELSE socket
  /\ UNCHANGED callerFrame
  /\ UNCHANGED <<closed, sess, expired, pending, inbox, got, result>>

Packet(a, k, n) == [from |-> a, kind |-> k, n |-> n]
ListItems(a, n) == [i \in 1..n |-> Packet(a, "item", i)]
\* Everything Asterisk will send with this ActionID, if the connection lasts.
Answers(a) ==
  {<<Packet(a, "error", 0)>>} \union
  (IF a \in Lists
   THEN {<<Packet(a, "success", 0)>> \o ListItems(a, n) \o
         <<Packet(a, "complete", 0)>> : n \in 0..Items}
   ELSE {<<Packet(a, "success", 0)>> \o
         (IF a \in Originates THEN <<Packet(a, "outcome", 0)>> ELSE <<>>)})

\* The packet is whole, and Asterisk acts on it.
EndWrite(a) ==
  /\ pc[a] = "writing" /\ Usable(sess[a])
  /\ socket # <<>> /\ socket[Len(socket)].from = a
  /\ socket' = [socket EXCEPT ![Len(socket)].whole = TRUE]
  /\ \E r \in Answers(a) : reply' = [reply EXCEPT ![a] = r]
  /\ pc' = [pc EXCEPT ![a] = "written"]
  /\ UNCHANGED readerVars
  /\ UNCHANGED <<closed, broken, sess, expired, pending, inbox, got, result, sent,
                 heard>>

\* WriteTo fails: nothing more can be framed on this connection.
WriteFails(a) ==
  /\ pc[a] = "writing" /\ ~Usable(sess[a])
  /\ closed' = closed \union {sess[a]}
  /\ Leave(a, IF a \in expired THEN "expired" ELSE "failed")
  /\ UNCHANGED callerFrame
  /\ UNCHANGED <<socket, sess, expired, pending, inbox, got>>

\* write returns and gives up the gate.
WriteReturns(a) ==
  /\ pc[a] = "written"
  /\ IF a \in expired
     THEN Leave(a, "expired")
     ELSE pc' = [pc EXCEPT ![a] = "waiting"] /\ UNCHANGED result
  /\ UNCHANGED callerFrame
  /\ UNCHANGED <<closed, socket, sess, expired, pending, inbox, got>>

----------------------------------------------------------------------------
(* Waiting for the answer.                                                 *)

CompleteOnResponse(a, p) == p.kind \in {"success", "error", "complete"}
\* consume: the response to a list is only an acknowledgement.
Complete(a, p) ==
  \/ p.kind \in {"error", "complete"}
  \/ p.kind = "success" /\ a \notin Lists

Take(a) ==
  LET p == Head(inbox[a]) IN
  /\ pc[a] \in {"waiting", "draining"} /\ inbox[a] # <<>>
  /\ inbox' = [inbox EXCEPT ![a] = Tail(@)]
  /\ got' = [got EXCEPT ![a] = Append(@, p)]
  /\ IF Complete(a, p)
     THEN Leave(a, IF p.kind = "error" THEN "rejected" ELSE "ok")
     ELSE UNCHANGED <<pc, result>>
  /\ UNCHANGED callerFrame
  /\ UNCHANGED <<closed, socket, sess, expired, pending>>

TimesOut(a) ==
  /\ pc[a] = "waiting" /\ a \in expired
  /\ Leave(a, "expired")
  /\ UNCHANGED callerFrame
  /\ UNCHANGED <<closed, socket, sess, expired, pending, inbox, got>>

GivesUpAtOnce(a) ==
  /\ pc[a] = "waiting" /\ sess[a] \in closed
  /\ Leave(a, "disconnected")
  /\ UNCHANGED callerFrame
  /\ UNCHANGED <<closed, socket, sess, expired, pending, inbox, got>>

\* session.done: what was already delivered is still taken.
SeesClosed(a) ==
  /\ pc[a] = "waiting" /\ sess[a] \in closed
  /\ pc' = [pc EXCEPT ![a] = "draining"]
  /\ UNCHANGED callerFrame
  /\ UNCHANGED <<closed, socket, sess, expired, pending, inbox, got, result>>

Drained(a) ==
  /\ pc[a] = "draining" /\ inbox[a] = <<>>
  /\ Leave(a, "disconnected")
  /\ UNCHANGED callerFrame
  /\ UNCHANGED <<closed, socket, sess, expired, pending, inbox, got>>

\* The deferred calls: the reader stops waiting for this caller, and its queue
\* and its context are garbage.
Unregister(a) ==
  /\ pc[a] = "leaving"
  /\ pending' = pending \ {a}
  /\ inbox' = [inbox EXCEPT ![a] = <<>>] /\ expired' = expired \ {a}
  /\ pc' = [pc EXCEPT ![a] = "done"]
  /\ UNCHANGED callerFrame
  /\ UNCHANGED <<closed, socket, sess, got, result>>

\* context.AfterFunc, armed while WriteTo runs, closes the session.
Interrupt(a) ==
  closed' = IF pc[a] \in {"writing", "written"} THEN closed \union {sess[a]}
            ELSE closed

\* The caller's context ends: its deadline, or the browser that asked is gone.
Expire(a) ==
  /\ pc[a] \notin {"start", "leaving", "done"} /\ a \notin expired
  /\ expired' = expired \union {a}
  /\ Interrupt(a)
  /\ UNCHANGED callerFrame
  /\ UNCHANGED <<socket, pc, sess, pending, inbox, got, result>>

Caller(a) ==
  \/ Begin(a) \/ Register(a) \/ RefusedAtGate(a)
  \/ CannotEncode(a) \/ StartWrite(a) \/ EndWrite(a) \/ WriteFails(a) \/ WriteReturns(a)
  \/ Take(a) \/ TimesOut(a) \/ SeesClosed(a) \/ Drained(a) \/ Unregister(a)

----------------------------------------------------------------------------
(* Asterisk, the connection and the consumer of Client.events.             *)

\* Nothing arrives on a closed connection; what arrived before is buffered, and
\* the reader still decodes it.
Send(a) ==
  /\ sent[a] < Len(reply[a]) /\ sess[a] = live
  /\ run \in {"read", "deliver"} /\ live \notin closed \union broken
  /\ sent' = [sent EXCEPT ![a] = @ + 1]
  /\ wire' = Append(wire, reply[a][sent[a] + 1])
  /\ UNCHANGED <<run, live, current, closed, broken, hand, socket, events, pc,
                 sess, expired, pending, inbox, got, result, reply, heard,
                 dropped>>

\* The peer, the network or the end of the program cuts the connection.
Break ==
  /\ run \in {"read", "deliver"} /\ live \notin broken
  /\ broken' = broken \union {live}
  /\ UNCHANGED readerVars
  /\ UNCHANGED <<closed, socket, pc, sess, expired, pending, inbox, got,
                 result, reply, sent, heard>>

\* Manager.Run takes an event.
Consume ==
  /\ events # <<>>
  /\ events' = Tail(events)
  /\ heard' = heard \union {a \in {Head(events).from} :
                              Head(events).kind = "outcome"}
  /\ UNCHANGED <<run, live, current, closed, broken, wire, hand, socket, pc,
                 sess, expired, pending, inbox, got, result, reply, sent,
                 dropped>>

----------------------------------------------------------------------------
Init ==
  /\ run = "dial" /\ live = 0 /\ current = 0
  /\ closed = {} /\ broken = {} /\ wire = <<>> /\ hand = <<>> /\ socket = <<>>
  /\ events = <<>>
  /\ pc = [a \in Callers |-> "start"] /\ sess = [a \in Callers |-> 0]
  /\ expired = {} /\ pending = {}
  /\ inbox = [a \in Callers |-> <<>>] /\ got = [a \in Callers |-> <<>>]
  /\ result = [a \in Callers |-> "none"]
  /\ reply = [a \in Callers |-> <<>>] /\ sent = [a \in Callers |-> 0]
  /\ heard = {} /\ dropped = {}

Reader == Read \/ Deliver \/ Discard \/ ReadFails \/ ClearSession \/ CloseSession

Next ==
  \/ Connect \/ GiveUp \/ Reader \/ Break \/ Consume
  \/ \E a \in Callers : Caller(a) \/ Expire(a) \/ Send(a)

Spec == Init /\ [][Next]_vars

\* What a goroutine in Client.do does by itself.  A write may stall for as long
\* as the connection lasts, and a context may last longer than that.
Runs(a) ==
  \/ Register(a) \/ RefusedAtGate(a) \/ StartWrite(a)
  \/ WriteFails(a) \/ WriteReturns(a) \/ Take(a) \/ TimesOut(a)
  \/ SeesClosed(a) \/ Drained(a) \/ Unregister(a)

FairSpec == Spec /\ WF_vars(Reader) /\ \A a \in Callers : WF_vars(Runs(a))

----------------------------------------------------------------------------
(* Properties.                                                             *)

\* The shape of the client's state, and its bounded queues.
TypeOK ==
  /\ run \in {"dial", "read", "deliver", "clear", "close", "stopped"}
  /\ live \in 0..MaxSessions /\ current \in {0, live}
  /\ closed \subseteq SessionIds /\ broken \subseteq SessionIds
  /\ wire \in Seq(Packets) /\ hand \in Seq(Packets)
  /\ Len(hand) = (IF run = "deliver" THEN 1 ELSE 0)
  /\ socket \in Seq([from : Callers, whole : BOOLEAN])
  /\ events \in Seq(Packets) /\ Len(events) <= EventCapacity
  /\ pc \in [Callers -> {"start", "captured", "registered", "writing", "written",
                         "waiting", "draining", "leaving", "done"}]
  /\ sess \in [Callers -> 0..MaxSessions]
  /\ expired \subseteq Callers
  /\ pending = {a \in Callers : pc[a] \notin {"start", "captured", "done"}}
  /\ inbox \in [Callers -> Seq(Packets)] /\ got \in [Callers -> Seq(Packets)]
  /\ reply \in [Callers -> Seq(Packets)] /\ sent \in [Callers -> Nat]
  /\ \A a \in Callers : Len(inbox[a]) <= ReplyCapacity /\ sent[a] <= Len(reply[a])
  /\ result \in [Callers -> Results]
  /\ heard \subseteq Originates /\ dropped \subseteq Originates

\* What of Asterisk's answer belongs to the caller: all but the later outcome.
Own(a) ==
  LET n == Len(reply[a]) IN
  SubSeq(reply[a], 1, IF n > 0 /\ reply[a][n].kind = "outcome" THEN n - 1 ELSE n)

\* While its session is open, an action that returns with an answer has
\* consumed exactly the packets Asterisk sent in answer to it, all of them and
\* in order, however other answers, late answers and events were mixed in
\* (route, lookup and consume).  One packet is a whole answer even afterwards.
AnsweredInFull ==
  \A a \in Callers :
    result[a] \in {"ok", "rejected"} /\ (a \notin Lists \/ sess[a] \notin closed)
      => got[a] = Own(a)

Payload(s) == SelectSeq(s, LAMBDA p : p.kind = "item")

\* What ActionList says it returns: the payload events accumulated until the
\* terminator arrives, so never a part of them without an error.
ListsAreComplete ==
  \A a \in Lists : result[a] = "ok" => Payload(got[a]) = Payload(reply[a])

\* Nothing is ever written behind a packet that was cut short: the gate keeps
\* writers apart, and a write that is interrupted or fails closes the session
\* before the gate is given up (session.write).
NoPacketAfterFragment ==
  \A i \in 1..Len(socket) : ~socket[i].whole => i = Len(socket)

Finished(a, s) == \E i \in 1..Len(s) : Complete(a, s[i])

\* A caller whose whole answer was already in its queue when the session closed
\* is not told that it was disconnected (the draining loop of Client.do).
DeliveredAnswerCounts ==
  [][\A a \in Callers :
       result[a] = "none" /\ result'[a] = "disconnected"
         => ~Finished(a, got[a] \o inbox[a])]_vars

\* The outcome of an Originate is never swallowed by the action that started
\* it: once sent it is on the wire, in the event stream, taken from it, or was
\* dropped because the stream was full (route: only list actions take events).
OutcomesAreEvents ==
  \A a \in Originates :
    reply[a] # <<>> /\ sent[a] = Len(reply[a]) /\ Len(reply[a]) = 2
      /\ sess[a] = live /\ run \in {"read", "deliver"}
    => \/ a \in heard \union dropped
       \/ \E i \in 1..Len(wire) : wire[i] = Packet(a, "outcome", 0)
       \/ \E i \in 1..Len(events) : events[i] = Packet(a, "outcome", 0)

\* The reader is never held for good by one action: it delivers, or the caller
\* walks away or the session closes (pending.done and session.done in route).
ReaderMovesOn == run = "deliver" ~> run # "deliver"

\* The end of a connection releases every caller that used it, without waiting
\* for its deadline (clearSession and session.close).
DisconnectReleases ==
  \A a \in Callers : (sess[a] \in broken) ~> pc[a] = "done"
=============================================================================
