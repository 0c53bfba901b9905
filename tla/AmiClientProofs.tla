---------------------------- MODULE AmiClientProofs ----------------------------
(***************************************************************************)
(* Proofs about the AMI client, for any number of callers, connections     *)
(* and queue sizes.                                                        *)
(*                                                                         *)
(* The socket: a packet that is not whole is the last, and either its      *)
(* writer still holds the gate or the session can no longer be used; so    *)
(* nobody who passes the gate finds it in front of him.                    *)
(*                                                                         *)
(* The answers: a packet of an answer is told by its kind and number, so   *)
(* it has one place.  What is under way to a caller is in the order of     *)
(* these places and beyond what the caller has; for a list on an open      *)
(* session nothing in between is missing; so what the caller has is the    *)
(* beginning of its answer, and the packet that ends it comes last.        *)
(***************************************************************************)
EXTENDS AmiClient, SequenceTheorems, TLAPS

Written == [from : Callers, whole : BOOLEAN]

\* The variables the argument is about.
SocketTypes ==
  /\ socket \in Seq(Written)
  /\ pc \in [Callers -> {"start", "captured", "registered", "writing",
                         "written", "waiting", "draining", "leaving", "done"}]
  /\ sess \in [Callers -> 0..MaxSessions]
  /\ live \in 0..MaxSessions /\ current \in {0, live}

\* A fragment's writer is still writing it, or the session is over.
FragmentHasWriter ==
  socket # <<>> /\ ~socket[Len(socket)].whole
    => \/ live \in closed \union broken
       \/ /\ pc[socket[Len(socket)].from] = "writing"
          /\ sess[socket[Len(socket)].from] = live

SocketInvariant == SocketTypes /\ NoPacketAfterFragment /\ FragmentHasWriter

\* Nothing has been written at the start.
LEMMA SocketInit == Init => SocketInvariant
  BY ClientAssumption
  DEF Init, SocketInvariant, SocketTypes, NoPacketAfterFragment, FragmentHasWriter,
      Written

\* The last packet on the socket is one.
LEMMA LastPacket ==
  ASSUME SocketTypes, socket # <<>>
  PROVE  /\ Len(socket) \in 1..Len(socket)
         /\ socket[Len(socket)] \in Written
         /\ socket[Len(socket)].from \in Callers
<1>1. socket \in Seq(Written)
  BY DEF SocketTypes
<1>2. Len(socket) \in 1..Len(socket)
  BY <1>1
<1>3. socket[Len(socket)] \in Written
  BY <1>1, <1>2
<1> QED
  BY <1>2, <1>3 DEF Written

\* Whoever passes the gate of a usable session finds only whole packets before
\* the one he starts.
LEMMA StartStep ==
  ASSUME SocketInvariant, NEW a \in Callers, StartWrite(a)
  PROVE  SocketInvariant'
<1>1. /\ pc' = [pc EXCEPT ![a] = "writing"] /\ sess' = sess /\ live' = live
      /\ closed' = closed /\ broken' = broken /\ current' = current
      /\ pc[a] = "registered" /\ GateFree(a)
  BY DEF StartWrite, callerFrame
<1>2. CASE ~Usable(sess[a])
  <2>1. socket' = socket
    BY <1>2 DEF StartWrite
  <2> QED
    BY <1>1, <2>1 DEF SocketInvariant, SocketTypes, NoPacketAfterFragment,
       FragmentHasWriter
<1>3. CASE Usable(sess[a])
  <2>1. socket' = Append(socket, [from |-> a, whole |-> FALSE])
    BY <1>3 DEF StartWrite
  <2>2. [from |-> a, whole |-> FALSE] \in Written
    BY DEF Written
  <2>3. \A i \in 1..Len(socket) : socket[i].whole
    <3>1. socket # <<>> => socket[Len(socket)].from \in Callers
      BY LastPacket DEF SocketInvariant
    <3>2. socket # <<>> => socket[Len(socket)].whole
      BY <1>1, <1>3, <3>1 DEF SocketInvariant, FragmentHasWriter, Usable, GateFree
    <3> QED
      BY <3>2 DEF SocketInvariant, SocketTypes, NoPacketAfterFragment
  <2>4. /\ Len(socket') = Len(socket) + 1
        /\ socket'[Len(socket) + 1] = [from |-> a, whole |-> FALSE]
        /\ \A i \in 1..Len(socket) : socket'[i] = socket[i]
    BY <2>1, <2>2 DEF SocketInvariant, SocketTypes
  <2>5. SocketTypes'
    BY <1>1, <2>1, <2>2 DEF SocketInvariant, SocketTypes
  <2>6. NoPacketAfterFragment'
    BY <2>3, <2>4 DEF SocketInvariant, SocketTypes, NoPacketAfterFragment
  <2>7. FragmentHasWriter'
    BY <1>1, <1>3, <2>4 DEF SocketInvariant, SocketTypes, FragmentHasWriter, Usable
  <2> QED
    BY <2>5, <2>6, <2>7 DEF SocketInvariant
<1> QED
  BY <1>2, <1>3

\* The end of a write makes its packet whole.
LEMMA EndStep ==
  ASSUME SocketInvariant, NEW a \in Callers, EndWrite(a)
  PROVE  SocketInvariant'
<1> DEFINE n == Len(socket)
<1>1. /\ socket # <<>> /\ socket[n].from = a
      /\ socket' = [socket EXCEPT ![n].whole = TRUE]
      /\ pc' = [pc EXCEPT ![a] = "written"] /\ sess' = sess /\ live' = live
      /\ current' = current
  BY DEF EndWrite, readerVars
<1>2. /\ socket \in Seq(Written) /\ n \in Nat /\ n \in 1..Len(socket)
  BY <1>1, LastPacket DEF SocketInvariant, SocketTypes
<1>3. socket[n] \in Written
  BY <1>1, LastPacket DEF SocketInvariant
<1> DEFINE r == [socket[n] EXCEPT !.whole = TRUE]
<1>8. r \in Written /\ r.whole
  BY <1>3 DEF Written
<1>9. socket' = [socket EXCEPT ![n] = r]
  BY <1>1
<1> HIDE DEF r
<1>4. /\ socket' \in Seq(Written) /\ Len(socket') = n /\ socket'[n].whole
      /\ \A i \in 1..n : i # n => socket'[i] = socket[i]
  BY <1>2, <1>8, <1>9
<1>5. SocketTypes'
  BY <1>1, <1>4 DEF SocketInvariant, SocketTypes
<1>6. NoPacketAfterFragment'
  BY <1>2, <1>4 DEF SocketInvariant, NoPacketAfterFragment
<1>7. FragmentHasWriter'
  BY <1>4 DEF FragmentHasWriter
<1> QED
  BY <1>5, <1>6, <1>7 DEF SocketInvariant

\* A writer that fails or is interrupted closes its session before it leaves
\* the gate; every other step of a caller leaves the writers where they are.
LEMMA CallerStep ==
  ASSUME SocketInvariant, NEW a \in Callers, Caller(a) \/ Expire(a) \/ Send(a)
  PROVE  SocketInvariant'
<1> USE DEF SocketInvariant, SocketTypes, NoPacketAfterFragment, FragmentHasWriter,
        callerFrame, Leave
<1>0. live \in 0..MaxSessions
     /\ (socket # <<>> => socket[Len(socket)].from \in Callers)
  BY LastPacket
<1>1. CASE Begin(a)
  <2>1. /\ pc[a] = "start" /\ sess' = [sess EXCEPT ![a] = current]
        /\ pc' = [pc EXCEPT ![a] = IF current = 0 THEN "done" ELSE "captured"]
        /\ UNCHANGED <<socket, live, current, closed, broken>>
    BY <1>1 DEF Begin
  <2>2. current \in 0..MaxSessions
    BY ClientAssumption, <1>0 DEF ClientAssumption
  <2> QED
    BY <1>0, <2>1, <2>2
<1>2. CASE Register(a)        BY <1>0, <1>2 DEF Register
<1>3. CASE RefusedAtGate(a)   BY <1>0, <1>3 DEF RefusedAtGate
<1>4. CASE CannotEncode(a)    BY <1>0, <1>4 DEF CannotEncode
<1>5. CASE StartWrite(a)      BY <1>5, StartStep
<1>6. CASE EndWrite(a)        BY <1>6, EndStep
<1>7. CASE WriteFails(a)
  BY <1>0, <1>7 DEF WriteFails, Usable
<1>8. CASE WriteReturns(a)    BY <1>0, <1>8 DEF WriteReturns
<1>9. CASE Take(a)            BY <1>0, <1>9 DEF Take
<1>10. CASE TimesOut(a)       BY <1>0, <1>10 DEF TimesOut
<1>11. CASE SeesClosed(a)     BY <1>0, <1>11 DEF SeesClosed
<1>12. CASE Drained(a)        BY <1>0, <1>12 DEF Drained
<1>13. CASE Unregister(a)     BY <1>0, <1>13 DEF Unregister
<1>14. CASE Expire(a)         BY <1>0, <1>14 DEF Expire, Interrupt
<1>15. CASE Send(a)           BY <1>0, <1>15 DEF Send
<1> QED
  BY <1>1, <1>2, <1>3, <1>4, <1>5, <1>6, <1>7, <1>8, <1>9, <1>10, <1>11, <1>12,
     <1>13, <1>14, <1>15 DEF Caller

\* A new connection starts with an empty socket; closed and broken sessions
\* stay so.
LEMMA ConnectionStep ==
  ASSUME ClientAssumption, SocketInvariant,
         Connect \/ GiveUp \/ Reader \/ Break \/ Consume \/ UNCHANGED vars
  PROVE  SocketInvariant'
<1> USE DEF SocketInvariant, SocketTypes, NoPacketAfterFragment, FragmentHasWriter
<1>1. CASE Connect            BY <1>1 DEF Connect, ClientAssumption, Written
<1>2. CASE GiveUp             BY <1>2 DEF GiveUp
<1>3. CASE Read               BY <1>3 DEF Read
<1>4. CASE Deliver            BY <1>4 DEF Deliver
<1>5. CASE Discard            BY <1>5 DEF Discard
<1>6. CASE ReadFails          BY <1>6 DEF ReadFails
<1>7. CASE ClearSession       BY <1>7 DEF ClearSession
<1>8. CASE CloseSession       BY <1>8 DEF CloseSession, Shut
<1>9. CASE Break              BY <1>9 DEF Break, readerVars
<1>10. CASE Consume           BY <1>10 DEF Consume
<1>11. CASE UNCHANGED vars    BY <1>11 DEF vars
<1> QED
  BY <1>1, <1>2, <1>3, <1>4, <1>5, <1>6, <1>7, <1>8, <1>9, <1>10, <1>11 DEF Reader

\* However many goroutines share the connection, and whenever their writes are
\* interrupted or fail, no packet is written behind a part of another one
\* (session.write: the gate, context.AfterFunc and session.close).
THEOREM FramingIsKept == Spec => []NoPacketAfterFragment
<1>1. SocketInvariant /\ [Next]_vars => SocketInvariant'
  BY ClientAssumption, CallerStep, ConnectionStep DEF Next
<1>2. SocketInvariant => NoPacketAfterFragment
  BY DEF SocketInvariant
<1> QED
  BY SocketInit, <1>1, <1>2, PTL DEF Spec

----------------------------------------------------------------------------
(* The answers.  First the shape of the state and of an answer.            *)

\* Where a packet stands in the answer it belongs to.
PlaceIn(r, p) == IF p.kind = "item" THEN p.n + 1
                 ELSE IF p.kind = "outcome" THEN 2
                 ELSE IF p.kind = "complete" THEN Len(r) ELSE 1

\* How much of an answer its caller consumes.
OwnLength(a, r) == IF a \in Lists THEN Len(r) ELSE 1

\* The shape of an answer: which packet stands where, which one ends it for its
\* caller, and that the outcome of an Originate is its second and last.
LEMMA AnswerPlaces ==
  ASSUME ClientAssumption, NEW a \in Callers, NEW r \in Answers(a)
  PROVE  /\ r \in Seq(Packets) /\ Len(r) \in Nat \ {0}
         /\ \A k \in 1..Len(r) :
              /\ r[k] \in Packets /\ r[k].from = a /\ PlaceIn(r, r[k]) = k
              /\ Complete(a, r[k]) <=> k = OwnLength(a, r)
              /\ r[k].kind = "outcome" <=> a \notin Lists /\ k = 2
              /\ r[k].kind = "outcome" => a \in Originates
                   /\ r[k] = Packet(a, "outcome", 0)
              /\ a \notin Lists => (IsEvent(r[k]) <=> k = 2)
         /\ a \notin Lists => Len(r) <= 2
<1>0. /\ \A k \in {"success", "error", "item", "complete", "outcome"},
         n \in 0..Items :
            Packet(a, k, n) \in Packets
      /\ 0 \in 0..Items
  BY DEF Packet, Packets, ClientAssumption
<1> USE DEF PlaceIn, OwnLength, Complete, IsEvent
<1>1. CASE r = <<Packet(a, "error", 0)>>
  BY <1>0, <1>1 DEF Packet
<1>2. CASE a \notin Lists /\ r = <<Packet(a, "success", 0)>> \o
            (IF a \in Originates THEN <<Packet(a, "outcome", 0)>> ELSE <<>>)
  <2>1. CASE a \in Originates
    <3> DEFINE x == <<Packet(a, "success", 0)>>  y == <<Packet(a, "outcome", 0)>>
    <3>1. /\ x \in Seq(Packets) /\ Len(x) = 1 /\ x[1] = Packet(a, "success", 0)
          /\ y \in Seq(Packets) /\ Len(y) = 1 /\ y[1] = Packet(a, "outcome", 0)
      BY <1>0
    <3>2. r = x \o y
      BY <1>2, <2>1
    <3> HIDE DEF x, y
    <3>3. /\ r \in Seq(Packets) /\ Len(r) = 2
          /\ r[1] = Packet(a, "success", 0) /\ r[2] = Packet(a, "outcome", 0)
      <4>1. /\ x \o y \in Seq(Packets) /\ Len(x \o y) = 2
            /\ (x \o y)[1] = x[1] /\ (x \o y)[2] = y[1]
        BY <3>1, ConcatProperties
      <4> QED BY <3>1, <3>2, <4>1
    <3> QED BY <1>0, <1>2, <2>1, <3>3 DEF Packet
  <2>2. CASE a \notin Originates
    <3>1. r = <<Packet(a, "success", 0)>>
      BY <1>2, <2>2
    <3> QED BY <1>0, <1>2, <2>2, <3>1 DEF Packet
  <2> QED BY <2>1, <2>2
<1>3. ASSUME a \in Lists, NEW n \in 0..Items,
             r = <<Packet(a, "success", 0)>> \o ListItems(a, n)
                  \o <<Packet(a, "complete", 0)>>
      PROVE  /\ r \in Seq(Packets) /\ Len(r) = n + 2
             /\ r[1] = Packet(a, "success", 0) /\ r[n + 2] = Packet(a, "complete", 0)
             /\ \A k \in 2..(n + 1) : r[k] = Packet(a, "item", k - 1)
  <2> DEFINE x == <<Packet(a, "success", 0)>>  y == ListItems(a, n)
             z == <<Packet(a, "complete", 0)>>
  <2>0. n \in Nat
    BY DEF ClientAssumption
  <2>1. x \in Seq(Packets) /\ z \in Seq(Packets) /\ Len(x) = 1 /\ Len(z) = 1
        /\ x[1] = Packet(a, "success", 0) /\ z[1] = Packet(a, "complete", 0)
    BY <1>0
  <2>2. y \in Seq(Packets) /\ Len(y) = n
       /\ \A i \in 1..n : y[i] = Packet(a, "item", i)
    <3>1. \A i \in 1..n : Packet(a, "item", i) \in Packets
      BY <1>0, <2>0 DEF ClientAssumption
    <3> QED BY <2>0, <3>1 DEF ListItems
  <2>3. r = (x \o y) \o z
    BY <1>3
  <2> HIDE DEF x, y, z
  <2>4. /\ x \o y \in Seq(Packets) /\ Len(x \o y) = n + 1 /\ (x \o y)[1] = x[1]
        /\ \A i \in 2..(n + 1) : (x \o y)[i] = y[i - 1]
    BY <2>0, <2>1, <2>2, ConcatProperties, SMTT(30)
  <2> DEFINE w == x \o y
  <2>5. w \in Seq(Packets) /\ Len(w) = n + 1 /\ r = w \o z
    BY <2>3, <2>4
  <2> HIDE DEF w
  <2>6. /\ r \in Seq(Packets) /\ Len(r) = n + 2
        /\ \A i \in 1..(n + 2) : r[i] = IF i <= n + 1 THEN w[i] ELSE z[i - (n + 1)]
    <3>1. /\ w \o z \in Seq(Packets) /\ Len(w \o z) = Len(w) + Len(z)
          /\ \A i \in 1..(Len(w) + Len(z)) :
               (w \o z)[i] = IF i <= Len(w) THEN w[i] ELSE z[i - Len(w)]
      BY <2>1, <2>5, ConcatProperties, ZenonT(60)
    <3> QED BY <2>0, <2>1, <2>5, <3>1
  <2>7. r[n + 2] = z[1] /\ \A i \in 1..(n + 1) : r[i] = w[i]
    BY <2>0, <2>6
  <2>8. w[1] = x[1] /\ \A i \in 2..(n + 1) : w[i] = y[i - 1]
    BY <2>4 DEF w
  <2> QED
    <3>1. \A k \in 2..(n + 1) : k - 1 \in 1..n /\ k \in 1..(n + 1)
      BY <2>0
    <3>2. 1 \in 1..(n + 1)
      BY <2>0
    <3> QED BY <2>1, <2>2, <2>6, <2>7, <2>8, <3>1, <3>2
<1>4. ASSUME a \in Lists, NEW n \in 0..Items,
             r = <<Packet(a, "success", 0)>> \o ListItems(a, n)
                  \o <<Packet(a, "complete", 0)>>
      PROVE  /\ r \in Seq(Packets) /\ Len(r) \in Nat \ {0}
             /\ \A k \in 1..Len(r) :
                  /\ r[k] \in Packets /\ r[k].from = a /\ PlaceIn(r, r[k]) = k
                  /\ Complete(a, r[k]) <=> k = Len(r)
                  /\ r[k].kind # "outcome"
  <2>0. n \in Nat
    BY DEF ClientAssumption
  <2>1. /\ r \in Seq(Packets) /\ Len(r) = n + 2
        /\ r[1] = Packet(a, "success", 0) /\ r[n + 2] = Packet(a, "complete", 0)
        /\ \A k \in 2..(n + 1) : r[k] = Packet(a, "item", k - 1)
    BY <1>3, <1>4
  <2>2. ASSUME NEW k \in 1..Len(r)
        PROVE  k = 1 \/ k = n + 2 \/ k \in 2..(n + 1)
    BY <2>0, <2>1
  <2>3. ASSUME NEW k \in 1..Len(r)
        PROVE  /\ r[k] \in Packets /\ r[k].from = a /\ PlaceIn(r, r[k]) = k
               /\ Complete(a, r[k]) <=> k = Len(r)
               /\ r[k].kind # "outcome"
    <3>1. r[k] \in Packets
      BY <2>1
    <3>2. CASE k = 1
      BY <1>4, <2>0, <2>1, <3>1, <3>2 DEF Packet
    <3>3. CASE k = n + 2
      BY <1>4, <2>0, <2>1, <3>1, <3>3 DEF Packet
    <3>4. CASE k \in 2..(n + 1)
      <4>1. r[k] = Packet(a, "item", k - 1) /\ k # n + 2 /\ k - 1 + 1 = k
        BY <2>0, <2>1, <3>4
      <4> QED
        BY <1>4, <2>0, <2>1, <3>1, <4>1 DEF Packet
    <3> QED BY <2>2, <3>2, <3>3, <3>4
  <2> QED BY <2>0, <2>1, <2>3
<1>5. \/ r = <<Packet(a, "error", 0)>>
      \/ a \notin Lists /\ r = <<Packet(a, "success", 0)>> \o
            (IF a \in Originates THEN <<Packet(a, "outcome", 0)>> ELSE <<>>)
      \/ a \in Lists /\ \E n \in 0..Items :
            r = <<Packet(a, "success", 0)>> \o ListItems(a, n)
                  \o <<Packet(a, "complete", 0)>>
  BY DEF Answers
<1>6. CASE a \in Lists /\ \E n \in 0..Items :
            r = <<Packet(a, "success", 0)>> \o ListItems(a, n)
                  \o <<Packet(a, "complete", 0)>>
  BY <1>4, <1>6
<1> QED BY <1>1, <1>2, <1>5, <1>6

\* Before its packet is whole a caller has been sent nothing.
Early == {"start", "captured", "registered", "writing"}

\* The types of the variables, in parts the steps disturb separately.
ConnectionShape ==
  /\ run \in {"dial", "read", "deliver", "clear", "close", "stopped"}
  /\ live \in 0..MaxSessions /\ current \in {0, live}
  /\ run \in {"read", "deliver", "clear", "close"} => live # 0
  /\ closed \subseteq SessionIds /\ broken \subseteq SessionIds

\* A packet is part of an answer, and an outcome that of an Originate.
Fits(p) == reply[p.from] # <<>> /\ (p.kind = "outcome" => p.from \in Originates)

StreamShape ==
  /\ wire \in Seq(Packets) /\ hand \in Seq(Packets)
  /\ Len(hand) = (IF run = "deliver" THEN 1 ELSE 0)
  /\ events \in Seq(Packets) /\ Len(events) <= EventCapacity
  /\ heard \subseteq Originates /\ dropped \subseteq Originates
  /\ \A i \in 1..Len(wire) : Fits(wire[i])
  /\ \A i \in 1..Len(hand) : Fits(hand[i])
  /\ \A i \in 1..Len(events) : Fits(events[i])

CallerShape ==
  /\ pc \in [Callers -> {"start", "captured", "registered", "writing", "written",
                         "waiting", "draining", "leaving", "done"}]
  /\ sess \in [Callers -> 0..MaxSessions]
  /\ expired \subseteq Callers
  /\ pending = {a \in Callers : pc[a] \notin {"start", "captured", "done"}}
  /\ result \in [Callers -> Results]
  /\ \A a \in Callers :
       /\ sess[a] <= live
       /\ pc[a] = "start" => sess[a] = 0
       /\ pc[a] \notin {"start", "done"} => sess[a] # 0
       /\ result[a] \in {"ok", "rejected"} => pc[a] \in {"leaving", "done"}

\* Only who asked has an answer.
Asked(a) ==
  /\ Len(inbox[a]) <= ReplyCapacity /\ sent[a] <= Len(reply[a])
  /\ reply[a] = <<>> \/ reply[a] \in Answers(a)
  /\ reply[a] = <<>> => inbox[a] = <<>> /\ got[a] = <<>>
  /\ pc[a] \in Early => reply[a] = <<>>
  /\ result[a] \in {"ok", "rejected"} => reply[a] # <<>>

\* Who still waits has not seen the end of its answer.
Unfinished(a) ==
  pc[a] \notin {"leaving", "done"}
       => \A i \in 1..Len(got[a]) : ~Complete(a, got[a][i])

AnswerShape ==
  /\ inbox \in [Callers -> Seq(Packets)] /\ got \in [Callers -> Seq(Packets)]
  /\ reply \in [Callers -> Seq(Packets)] /\ sent \in [Callers -> Nat]
  /\ \A a \in Callers : Asked(a) /\ Unfinished(a)

ClientInvariant == ConnectionShape /\ StreamShape /\ CallerShape /\ AnswerShape

\* Nothing has been asked at the start.
LEMMA ClientInit == ASSUME ClientAssumption, Init PROVE ClientInvariant
<1> USE DEF Init
<1>1. ConnectionShape
  BY DEF ConnectionShape, ClientAssumption
<1>2. StreamShape
  BY DEF StreamShape, ClientAssumption
<1>3. CallerShape
  BY DEF CallerShape, ClientAssumption, Results
<1>4. AnswerShape
  BY DEF AnswerShape, Asked, Unfinished, Early, ClientAssumption
<1> QED BY <1>1, <1>2, <1>3, <1>4 DEF ClientInvariant

\* The reader, the connection and the consumer of Client.events keep the shape.
LEMMA ConnectionKeepsShape ==
  ASSUME ClientAssumption, ClientInvariant,
         Connect \/ GiveUp \/ Reader \/ Break \/ Consume \/ UNCHANGED vars
  PROVE  ClientInvariant'
<1> USE DEF ClientInvariant, ConnectionShape, StreamShape, CallerShape, AnswerShape,
        ClientAssumption, Asked, Unfinished, SessionIds, Fits
<1>1. CASE Connect            BY <1>1 DEF Connect
<1>2. CASE GiveUp             BY <1>2 DEF GiveUp
<1>3. CASE Read
  <2> DEFINE p == Head(wire)
  <2>1. /\ run = "read" /\ wire # <<>> /\ wire' = Tail(wire)
        /\ UNCHANGED <<live, current, closed, broken, socket, pc, sess, expired,
                       pending, inbox, got, result, reply, sent, heard>>
    BY <1>3 DEF Read
  <2>2. /\ p \in Packets /\ p = wire[1] /\ Fits(p)
        /\ Tail(wire) \in Seq(Packets) /\ Len(Tail(wire)) = Len(wire) - 1
        /\ \A i \in 1..Len(Tail(wire)) : Tail(wire)[i] = wire[i + 1]
             /\ Fits(Tail(wire)[i])
    <3>1. wire \in Seq(Packets) /\ \A i \in 1..Len(wire) : Fits(wire[i])
      OBVIOUS
    <3> HIDE DEF ClientInvariant, StreamShape, Fits
    <3> QED BY <2>1, <3>1, HeadTailProperties
  <2>3. CASE Wanted(p)
    <3>1. run' = "deliver" /\ hand' = <<p>> /\ UNCHANGED <<events, dropped>>
      BY <1>3, <2>3 DEF Read
    <3> HIDE DEF p
    <3> QED BY <2>1, <2>2, <3>1
  <2>4. CASE ~Wanted(p)
    <3>1. UNCHANGED <<run, hand>>
      BY <1>3, <2>4 DEF Read
    <3>2. CASE IsEvent(p) /\ Len(events) < EventCapacity
      <4>1. events' = Append(events, p) /\ dropped' = dropped
        BY <1>3, <2>4, <3>2 DEF Read
      <4>2. /\ events' \in Seq(Packets) /\ Len(events') = Len(events) + 1
            /\ \A i \in 1..Len(events') : Fits(events'[i])
        <5>1. events \in Seq(Packets) /\ \A i \in 1..Len(events) : Fits(events[i])
          OBVIOUS
        <5> HIDE DEF ClientInvariant, StreamShape, Fits, p
        <5> QED BY <2>2, <4>1, <5>1, AppendProperties
      <4> HIDE DEF p
      <4>3. StreamShape'
        BY <2>1, <2>2, <3>1, <3>2, <4>1, <4>2
      <4> QED BY <2>1, <3>1, <4>1, <4>3
    <3>3. CASE ~(IsEvent(p) /\ Len(events) < EventCapacity)
      <4>1. events' = events
            /\ dropped' = dropped \union {a \in {p.from} : p.kind = "outcome"}
        BY <1>3, <2>4, <3>3 DEF Read
      <4> HIDE DEF p
      <4> QED BY <2>1, <2>2, <3>1, <3>3, <4>1
    <3> QED BY <3>2, <3>3
  <2> QED BY <2>3, <2>4
<1>4. CASE Deliver
  <2> DEFINE p == hand[1]  b == p.from
  <2>1. /\ run = "deliver" /\ b \in pending /\ Len(inbox[b]) < ReplyCapacity
        /\ inbox' = [inbox EXCEPT ![b] = Append(@, p)] /\ run' = "read"
             /\ hand' = <<>>
        /\ UNCHANGED <<live, current, closed, broken, wire, socket, events, pc, sess,
                       expired, pending, got, result, reply, sent, heard, dropped>>
    BY <1>4 DEF Deliver
  <2>2. p \in Packets /\ b \in Callers /\ reply[b] # <<>>
    <3>1. hand \in Seq(Packets) /\ Len(hand) = 1 /\ reply[hand[1].from] # <<>>
      BY <2>1
    <3> HIDE DEF ClientInvariant
    <3>2. hand[1] \in Packets
      BY <3>1, ElementOfSeq
    <3>3. hand[1].from \in Callers
      BY <3>2 DEF Packets
    <3> QED BY <3>1, <3>2, <3>3
  <2>3. inbox \in [Callers -> Seq(Packets)]
    OBVIOUS
  <2>4. Append(inbox[b], p) \in Seq(Packets)
       /\ Len(Append(inbox[b], p)) = Len(inbox[b]) + 1
        /\ Len(inbox[b]) \in Nat
    <3> HIDE DEF p, b, ClientInvariant
    <3> QED BY <2>2, <2>3, AppendProperties
  <2> HIDE DEF p, b
  <2>5. /\ inbox' \in [Callers -> Seq(Packets)] /\ Len(inbox'[b]) <= ReplyCapacity
        /\ \A c \in Callers : c # b => inbox'[c] = inbox[c]
    <3> HIDE DEF ClientInvariant
    <3> QED BY <2>1, <2>2, <2>3, <2>4
  <2>6. AnswerShape'
    <3>1. \A c \in Callers : Asked(c) /\ Unfinished(c)
      OBVIOUS
    <3> HIDE DEF ClientInvariant
    <3>2. \A c \in Callers : Asked(c)' /\ Unfinished(c)'
      BY <2>1, <2>2, <2>5, <3>1
    <3>3. reply \in [Callers -> Seq(Packets)] /\ got \in [Callers -> Seq(Packets)]
         /\ sent \in [Callers -> Nat]
      BY DEF ClientInvariant
    <3> QED BY <2>1, <2>5, <3>2, <3>3
  <2>7. ConnectionShape' /\ StreamShape'
    BY <2>1, SMTT(30)
  <2>8. CallerShape'
    BY <2>1
  <2> QED BY <2>6, <2>7, <2>8
<1>5. CASE Discard
  <2>1. /\ run = "deliver" /\ run' = "read" /\ hand' = <<>>
        /\ UNCHANGED <<live, current, closed, broken, wire, events, pc, sess, expired,
                       pending, inbox, got, result, reply, sent, heard, dropped>>
    BY <1>5 DEF Discard
  <2>2. ConnectionShape' /\ StreamShape'
    BY <2>1
  <2>3. CallerShape' /\ AnswerShape'
    BY <2>1
  <2> QED BY <2>2, <2>3
<1>6. CASE ReadFails
  <2>1. /\ run = "read" /\ run' = "clear" /\ wire' = <<>>
        /\ UNCHANGED <<live, current, closed, broken, hand, events, pc, sess, expired,
                       pending, inbox, got, result, reply, sent, heard, dropped>>
    BY <1>6 DEF ReadFails
  <2>2. ConnectionShape' /\ StreamShape'
    BY <2>1
  <2>3. CallerShape' /\ AnswerShape'
    BY <2>1
  <2> QED BY <2>2, <2>3
<1>7. CASE ClearSession       BY <1>7 DEF ClearSession
<1>8. CASE CloseSession       BY <1>8 DEF CloseSession, Shut
<1>9. CASE Break              BY <1>9 DEF Break, readerVars
<1>10. CASE Consume
  <2>1. /\ events # <<>> /\ events' = Tail(events)
        /\ heard' = heard \union
                      {a \in {Head(events).from} : Head(events).kind = "outcome"}
        /\ UNCHANGED <<run, live, current, closed, broken, wire, hand, socket, pc,
                       sess, expired, pending, inbox, got, result, reply, sent,
                            dropped>>
    BY <1>10 DEF Consume
  <2>2. /\ Fits(Head(events)) /\ Tail(events) \in Seq(Packets)
        /\ Len(Tail(events)) = Len(events) - 1
        /\ \A i \in 1..Len(Tail(events)) : Fits(Tail(events)[i])
    <3>1. events \in Seq(Packets) /\ \A i \in 1..Len(events) : Fits(events[i])
      OBVIOUS
    <3> HIDE DEF ClientInvariant, StreamShape, Fits
    <3> QED BY <2>1, <3>1, HeadTailProperties
  <2> QED BY <2>1, <2>2
<1>11. CASE UNCHANGED vars    BY <1>11 DEF vars
<1> QED
  BY <1>1, <1>2, <1>3, <1>4, <1>5, <1>6, <1>7, <1>8, <1>9, <1>10, <1>11 DEF Reader

\* The steps of a caller but a whole packet written, an answer taken.
Local(a) ==
  \/ Begin(a) \/ Register(a) \/ RefusedAtGate(a) \/ CannotEncode(a) \/ StartWrite(a)
  \/ WriteFails(a) \/ WriteReturns(a) \/ TimesOut(a) \/ SeesClosed(a) \/ Drained(a)
  \/ Unregister(a) \/ Expire(a)

\* So does a step of a caller that neither asks nor takes.
LEMMA LocalKeepsShape ==
  ASSUME ClientAssumption, ClientInvariant, NEW a \in Callers, Local(a)
  PROVE  ClientInvariant'
<1>1. UNCHANGED callerFrame /\ got' = got
  BY DEF Local, Begin, Register, RefusedAtGate, CannotEncode, StartWrite,
     WriteFails, WriteReturns, TimesOut, SeesClosed, Drained, Unregister, Expire
<1>2. ConnectionShape'
  <2>1. \/ closed' = closed
        \/ closed' = closed \union {sess[a]} /\ pc[a] \notin {"start", "done"}
    BY DEF Local, Begin, Register, RefusedAtGate, CannotEncode, StartWrite,
       WriteFails, WriteReturns, TimesOut, SeesClosed, Drained, Unregister, Expire,
       Interrupt
  <2>2. pc[a] \notin {"start", "done"} => sess[a] \in SessionIds
    BY DEF ClientInvariant, CallerShape, SessionIds, ClientAssumption
  <2> QED BY <1>1, <2>1, <2>2 DEF ClientInvariant, ConnectionShape, callerFrame
<1>3. StreamShape'
  BY <1>1 DEF ClientInvariant, StreamShape, callerFrame, Fits
<1>4. CallerShape'
  <2> USE DEF ClientInvariant, CallerShape, callerFrame, Leave
  <2>1. CASE Begin(a)
    <3>1. current \in 0..MaxSessions /\ current <= live
      BY DEF ConnectionShape, ClientAssumption
    <3>2. /\ pc[a] = "start" /\ sess' = [sess EXCEPT ![a] = current] /\ live' = live
          /\ pc' = [pc EXCEPT ![a] = IF current = 0 THEN "done" ELSE "captured"]
          /\ result' = [result EXCEPT ![a] = IF current = 0 THEN "notConnected" ELSE @]
          /\ UNCHANGED <<expired, pending>>
      BY <2>1 DEF Begin
    <3> QED BY <3>1, <3>2 DEF Results
  <2>2. CASE Register(a)
    BY <1>1, <2>2 DEF Register, Results
  <2>3. CASE RefusedAtGate(a)
    BY <1>1, <2>3 DEF RefusedAtGate, Results
  <2>4. CASE CannotEncode(a)
    BY <1>1, <2>4 DEF CannotEncode, Results
  <2>5. CASE StartWrite(a)
    BY <1>1, <2>5 DEF StartWrite, Results
  <2>6. CASE WriteFails(a)
    BY <1>1, <2>6 DEF WriteFails, Results
  <2>7. CASE WriteReturns(a)
    BY <1>1, <2>7 DEF WriteReturns, Results
  <2>8. CASE TimesOut(a)
    BY <1>1, <2>8 DEF TimesOut, Results
  <2>9. CASE SeesClosed(a)
    BY <1>1, <2>9 DEF SeesClosed, Results
  <2>10. CASE Drained(a)
    BY <1>1, <2>10 DEF Drained, Results
  <2>11. CASE Unregister(a)
    BY <1>1, <2>11 DEF Unregister, Results
  <2>12. CASE Expire(a)
    BY <1>1, <2>12 DEF Expire, Results
  <2> QED
    BY <2>1, <2>2, <2>3, <2>4, <2>5, <2>6, <2>7, <2>8, <2>9, <2>10, <2>11, <2>12
       DEF Local
<1>5. AnswerShape'
  <2>1. /\ UNCHANGED <<reply, sent, got>>
        /\ inbox' = inbox \/ inbox' = [inbox EXCEPT ![a] = <<>>]
    BY <1>1 DEF callerFrame, Local, Begin, Register, RefusedAtGate, CannotEncode,
       StartWrite, WriteFails, WriteReturns, TimesOut, SeesClosed, Drained,
       Unregister, Expire
  <2>2. \A b \in Callers : /\ pc'[b] \in Early => pc[b] \in Early
                           /\ pc[b] \in {"leaving", "done"}
                                => pc'[b] \in {"leaving", "done"}
    BY DEF ClientInvariant, CallerShape, Early, Leave, Local, Begin, Register,
       RefusedAtGate, CannotEncode, StartWrite, WriteFails, WriteReturns, TimesOut,
       SeesClosed, Drained, Unregister, Expire
  <2>3. inbox \in [Callers -> Seq(Packets)]
    BY DEF ClientInvariant, AnswerShape
  <2>4. /\ inbox' \in [Callers -> Seq(Packets)]
        /\ \A b \in Callers : inbox'[b] = inbox[b]
             \/ (inbox'[b] = <<>> /\ Len(inbox'[b]) = 0)
    <3>1. CASE inbox' = inbox
      BY <2>3, <3>1
    <3>2. CASE inbox' = [inbox EXCEPT ![a] = <<>>]
      BY <2>3, <3>2
    <3> QED BY <2>1, <3>1, <3>2
  <2>5. ASSUME NEW b \in Callers PROVE Asked(b)' /\ Unfinished(b)'
    <3>1. Asked(b) /\ Unfinished(b)
      BY DEF ClientInvariant, AnswerShape
    <3>2. result'[b] \in {"ok", "rejected"} => result'[b] = result[b]
      BY DEF ClientInvariant, CallerShape, Leave, Local, Begin, Register,
         RefusedAtGate, CannotEncode, StartWrite, WriteFails, WriteReturns,
         TimesOut, SeesClosed, Drained, Unregister, Expire
    <3>4. Asked(b)'
      BY <2>1, <2>2, <2>4, <3>1, <3>2 DEF Asked, ClientAssumption
    <3>3. Unfinished(b)'
      BY <2>1, <2>2, <3>1 DEF Unfinished
    <3> QED BY <3>3, <3>4
  <2> QED
    BY <2>1, <2>4, <2>5 DEF ClientInvariant, AnswerShape
<1> QED BY <1>2, <1>3, <1>4, <1>5 DEF ClientInvariant

\* A whole packet gives its caller an answer to wait for.
LEMMA EndWriteKeepsShape ==
  ASSUME ClientAssumption, ClientInvariant, NEW a \in Callers, EndWrite(a)
  PROVE  ClientInvariant'
<1>1. PICK r \in Answers(a) : reply' = [reply EXCEPT ![a] = r]
  BY DEF EndWrite
<1>2. r \in Seq(Packets) /\ r # <<>> /\ Len(r) \in Nat
  BY <1>1, AnswerPlaces
<1>3. /\ pc[a] = "writing" /\ pc' = [pc EXCEPT ![a] = "written"]
      /\ UNCHANGED <<run, live, current, wire, hand, events, dropped>>
      /\ UNCHANGED <<closed, broken, sess, expired, pending, inbox, got, result, sent,
           heard>>
  BY DEF EndWrite, readerVars
<1>4. ConnectionShape'
  BY <1>3 DEF ClientInvariant, ConnectionShape
<1>5. CallerShape'
  BY <1>3 DEF ClientInvariant, CallerShape
<1>6. reply \in [Callers -> Seq(Packets)] /\ reply[a] = <<>>
  BY <1>3 DEF ClientInvariant, AnswerShape, Asked, Early
<1>7. StreamShape'
  <2>1. \A p \in Packets : Fits(p) => Fits(p)'
    BY <1>1, <1>2, <1>6 DEF Fits, Packets
  <2>2. /\ \A i \in 1..Len(wire) : wire[i] \in Packets
        /\ \A i \in 1..Len(hand) : hand[i] \in Packets
        /\ \A i \in 1..Len(events) : events[i] \in Packets
    BY DEF ClientInvariant, StreamShape
  <2> QED
    BY <1>3, <2>1, <2>2 DEF ClientInvariant, StreamShape
<1>8. AnswerShape'
  <2>1. reply' \in [Callers -> Seq(Packets)] /\ reply'[a] = r
       /\ \A b \in Callers : b # a => reply'[b] = reply[b]
    BY <1>1, <1>2, <1>6
  <2>2. ASSUME NEW b \in Callers PROVE Asked(b)' /\ Unfinished(b)'
    <3>1. Asked(b) /\ Unfinished(b)
         /\ pc \in [Callers -> {"start", "captured", "registered",
            "writing", "written", "waiting", "draining", "leaving", "done"}]
      BY DEF ClientInvariant, AnswerShape, CallerShape
    <3>2. sent[b] \in Nat /\ Len(reply[b]) \in Nat
      BY DEF ClientInvariant, AnswerShape
    <3>3. CASE b = a
      <4>1. sent[a] = 0 /\ got[a] = <<>> /\ inbox[a] = <<>>
        BY <1>6, <3>1, <3>2, <3>3 DEF Asked
      <4> QED
        BY <1>1, <1>2, <1>3, <2>1, <3>1, <3>2, <3>3, <4>1 DEF Asked, Unfinished,
           Early, ClientAssumption
    <3>4. CASE b # a
      BY <1>3, <2>1, <3>1, <3>4 DEF Asked, Unfinished
    <3> QED BY <3>3, <3>4
  <2> QED
    BY <1>3, <2>1, <2>2 DEF ClientInvariant, AnswerShape
<1> QED BY <1>4, <1>5, <1>7, <1>8 DEF ClientInvariant

\* A caller that has taken the packet that ends its answer leaves.
LEMMA TakeKeepsShape ==
  ASSUME ClientAssumption, ClientInvariant, NEW a \in Callers, Take(a)
  PROVE  ClientInvariant'
<1> DEFINE p == Head(inbox[a])  g == Append(got[a], p)  t == Tail(inbox[a])
<1>1. /\ pc[a] \in {"waiting", "draining"} /\ inbox[a] # <<>>
      /\ inbox' = [inbox EXCEPT ![a] = t] /\ got' = [got EXCEPT ![a] = g]
      /\ UNCHANGED <<run, live, current, broken, wire, hand, events, reply, sent,
           heard, dropped>>
      /\ UNCHANGED <<closed, sess, expired, pending>>
  BY DEF Take, callerFrame
<1>2. \/ /\ Complete(a, p) /\ pc' = [pc EXCEPT ![a] = "leaving"]
         /\ result' = [result EXCEPT ![a] = IF p.kind = "error" THEN "rejected" ELSE "ok"]
      \/ ~Complete(a, p) /\ pc' = pc /\ result' = result
  BY DEF Take, Leave
<1>3. /\ inbox \in [Callers -> Seq(Packets)] /\ got \in [Callers -> Seq(Packets)]
      /\ inbox[a] \in Seq(Packets) /\ got[a] \in Seq(Packets)
  BY DEF ClientInvariant, AnswerShape
<1>4. p \in Packets /\ t \in Seq(Packets) /\ Len(t) = Len(inbox[a]) - 1
  BY <1>1, <1>3, HeadTailProperties
<1>5. /\ g \in Seq(Packets) /\ Len(g) = Len(got[a]) + 1 /\ g[Len(got[a]) + 1] = p
      /\ \A i \in 1..Len(got[a]) : g[i] = got[a][i]
  <2> HIDE DEF p
  <2> QED BY <1>3, <1>4, AppendProperties
<1> HIDE DEF p, g, t
<1>6. ConnectionShape' /\ StreamShape'
  BY <1>1 DEF ClientInvariant, ConnectionShape, StreamShape, Fits
<1>7. CallerShape'
  <2>0. CallerShape /\ UNCHANGED <<live, sess, expired, pending>>
    BY <1>1 DEF ClientInvariant
  <2> HIDE DEF ClientInvariant
  <2>1. /\ pc'[a] = "leaving" \/ (pc'[a] = pc[a] /\ result'[a] = result[a])
        /\ \A b \in Callers : b # a => pc'[b] = pc[b] /\ result'[b] = result[b]
    BY <1>2, <2>0 DEF CallerShape
  <2>2. /\ pc' \in [Callers -> {"start", "captured", "registered", "writing", "written",
                                "waiting", "draining", "leaving", "done"}]
        /\ result' \in [Callers -> Results]
    BY <1>2, <2>0 DEF CallerShape, Results
  <2>3. pending' = {b \in Callers : pc'[b] \notin {"start", "captured", "done"}}
    BY <1>1, <2>0, <2>1 DEF CallerShape
  <2> QED BY <1>1, <2>0, <2>1, <2>2, <2>3 DEF CallerShape
<1>8. AnswerShape'
  <2>1. /\ inbox' \in [Callers -> Seq(Packets)] /\ got' \in [Callers -> Seq(Packets)]
        /\ inbox'[a] = t /\ got'[a] = g
        /\ \A b \in Callers : b # a => inbox'[b] = inbox[b] /\ got'[b] = got[b]
    BY <1>1, <1>3, <1>4, <1>5
  <2>2. reply[a] # <<>>
    BY <1>1 DEF ClientInvariant, AnswerShape, Asked
  <2>3. \A b \in Callers : b # a => pc'[b] = pc[b] /\ result'[b] = result[b]
    BY <1>2 DEF ClientInvariant, CallerShape
  <2>4. pc'[a] \notin Early \cup {"start"}
       /\ (pc'[a] \notin {"leaving", "done"} => ~Complete(a, p)
            /\ pc[a] \notin {"leaving", "done"})
    BY <1>1, <1>2 DEF ClientInvariant, CallerShape, Early
  <2>5. ASSUME NEW b \in Callers PROVE Asked(b)' /\ Unfinished(b)'
    <3>1. Asked(b) /\ Unfinished(b)
      BY DEF ClientInvariant, AnswerShape
    <3>2. CASE b = a
      <4>1. Len(got[a]) \in Nat /\ Len(inbox[a]) \in Nat /\ ReplyCapacity \in Nat
        BY <1>3 DEF ClientAssumption
      <4>2. Asked(a)'
        BY <1>1, <1>4, <2>1, <2>2, <2>4, <3>1, <3>2, <4>1 DEF Asked
      <4>3. Unfinished(a)'
        BY <1>5, <2>1, <2>4, <3>1, <3>2, <4>1 DEF Unfinished
      <4> QED BY <3>2, <4>2, <4>3
    <3>3. CASE b # a
      BY <1>1, <2>1, <2>3, <3>1, <3>3 DEF Asked, Unfinished
    <3> QED BY <3>2, <3>3
  <2> QED
    BY <1>1, <2>1, <2>5 DEF ClientInvariant, AnswerShape
<1> QED BY <1>6, <1>7, <1>8 DEF ClientInvariant

\* Asterisk sends the next packet of an answer.
LEMMA SendKeepsShape ==
  ASSUME ClientAssumption, ClientInvariant, NEW a \in Callers, Send(a)
  PROVE  ClientInvariant'
<1> DEFINE n == sent[a] + 1  p == reply[a][n]
<1>1. /\ sent[a] < Len(reply[a]) /\ sess[a] = live
      /\ sent' = [sent EXCEPT ![a] = n] /\ wire' = Append(wire, p)
      /\ UNCHANGED <<run, live, current, closed, broken, hand, socket, events, pc,
               sess, expired, pending, inbox, got, result, reply, heard, dropped>>
  BY DEF Send
<1>2. /\ sent \in [Callers -> Nat] /\ reply[a] \in Seq(Packets)
         /\ Len(reply[a]) \in Nat
      /\ wire \in Seq(Packets) /\ \A i \in 1..Len(wire) : Fits(wire[i])
  BY DEF ClientInvariant, AnswerShape, Asked, StreamShape
<1>3. n \in 1..Len(reply[a]) /\ n \in Nat /\ n <= Len(reply[a]) /\ reply[a] # <<>>
  BY <1>1, <1>2
<1>4. reply[a] \in Answers(a)
  BY <1>3 DEF ClientInvariant, AnswerShape, Asked
<1> HIDE DEF n
<1>5. p \in Packets /\ p.from = a /\ Fits(p)
  BY <1>3, <1>4, AnswerPlaces DEF Fits
<1> HIDE DEF p
<1>6. ConnectionShape' /\ CallerShape'
  BY <1>1 DEF ClientInvariant, ConnectionShape, CallerShape
<1>7. StreamShape'
  <2>1. wire' \in Seq(Packets) /\ \A i \in 1..Len(wire') : Fits(wire'[i])
    BY <1>1, <1>2, <1>5, AppendProperties DEF Fits
  <2> QED BY <1>1, <2>1 DEF ClientInvariant, StreamShape, Fits
<1>8. AnswerShape'
  <2>1. \A b \in Callers : Asked(b) /\ Unfinished(b)
    BY DEF ClientInvariant, AnswerShape
  <2>2. sent' \in [Callers -> Nat] /\ sent'[a] = n /\ \A b \in Callers : b # a
       => sent'[b] = sent[b]
    BY <1>1, <1>2, <1>3
  <2>3. \A b \in Callers : Asked(b)' /\ Unfinished(b)'
    BY <1>1, <1>3, <2>1, <2>2 DEF Asked, Unfinished
  <2> QED BY <1>1, <2>2, <2>3 DEF ClientInvariant, AnswerShape
<1> QED BY <1>6, <1>7, <1>8 DEF ClientInvariant

----------------------------------------------------------------------------
(* The order of what is under way.                                         *)

\* Where a packet stands in the answer of its caller.
Place(p) == PlaceIn(reply[p.from], p)

\* What has reached a caller.
Taken(a) == Len(got[a]) + Len(inbox[a])

\* A packet under way was sent on this session and has not reached its caller.
Known(p) ==
  /\ sess[p.from] = live
  /\ Place(p) \in 1..sent[p.from] /\ p = reply[p.from][Place(p)]
  /\ Taken(p.from) < Place(p)

Before(p, q) == p.from = q.from => Place(p) < Place(q)

\* A caller gets no more than was sent, and an event only in a list.
Counted(a) == Taken(a) <= sent[a] /\ (a \notin Lists => Taken(a) <= 1)

\* The packets of one answer are under way in their order, the one in hand first.
WireInOrder == \A i \in 1..Len(wire) : Known(wire[i])
     /\ \A j \in 1..(i - 1) : Before(wire[j], wire[i])
HandFirst ==
  hand # <<>> => /\ Known(hand[1]) /\ \A i \in 1..Len(wire) : Before(hand[1], wire[i])
                 /\ hand[1].from \notin Lists => ~IsEvent(hand[1])

StreamInvariant == (\A a \in Callers : Counted(a)) /\ WireInOrder /\ HandFirst

\* A step that puts nothing new under way.
Quiet ==
  /\ sent' = sent
  /\ \A b \in Callers : /\ Taken(b)' <= Taken(b)
                        /\ reply[b] # <<>> => reply'[b] = reply[b]
                             /\ sess'[b] = sess[b]
  /\ wire' = <<>> \/ (wire' = wire /\ live' = live)
  /\ hand' = <<>> \/ (hand' = hand /\ live' = live)

\* The counters are numbers.
LEMMA TakenTypes ==
  ASSUME ClientInvariant, NEW a \in Callers
  PROVE  Taken(a) \in Nat /\ sent[a] \in Nat /\ Len(got[a]) \in Nat
       /\ Len(inbox[a]) \in Nat
  BY DEF ClientInvariant, AnswerShape, Taken

\* What is under way was sent to a caller that asked.
LEMMA PacketTypes ==
  ASSUME ClientInvariant
  PROVE  /\ \A i \in 1..Len(wire) : wire[i] \in Packets /\ wire[i].from \in Callers
         /\ \A i \in 1..Len(wire) : reply[wire[i].from] # <<>>
         /\ hand # <<>> => hand[1] \in Packets /\ hand[1].from \in Callers
              /\ reply[hand[1].from] # <<>>
<1>1. /\ wire \in Seq(Packets) /\ hand \in Seq(Packets)
         /\ (hand # <<>> => 1 \in 1..Len(hand))
      /\ \A i \in 1..Len(wire) : Fits(wire[i])
      /\ \A i \in 1..Len(hand) : Fits(hand[i])
  BY DEF ClientInvariant, StreamShape
<1>2. \A p \in Packets : p.from \in Callers
  BY DEF Packets
<1> QED BY <1>1, <1>2 DEF Fits

\* Such a step keeps the order of what is under way.
LEMMA QuietKeepsStream ==
  ASSUME ClientInvariant, ClientInvariant', StreamInvariant, Quiet
  PROVE  StreamInvariant'
<1>0. ASSUME NEW a \in Callers
      PROVE  /\ Taken(a) \in Nat /\ Taken(a)' \in Nat /\ sent[a] \in Nat
                /\ sent'[a] = sent[a]
             /\ Taken(a)' <= Taken(a)
  BY TakenTypes DEF Quiet, ClientInvariant, AnswerShape, Taken
<1>1. \A a \in Callers : Counted(a)'
  BY <1>0 DEF StreamInvariant, Counted
<1>2. ASSUME NEW p \in Packets, p.from \in Callers, reply[p.from] # <<>>, Known(p),
     live' = live
      PROVE  Known(p)'
  <2>1. Place(p)' = Place(p)
    BY <1>2 DEF Quiet, Place
  <2> QED BY <1>0, <1>2, <2>1 DEF Quiet, Known
<1>3. ASSUME NEW p \in Packets, NEW q \in Packets, p.from \in Callers,
     q.from \in Callers,
             reply[p.from] # <<>>, reply[q.from] # <<>>, Before(p, q)
      PROVE  Before(p, q)'
  BY <1>3 DEF Quiet, Before, Place
<1>4. WireInOrder'
  <2>1. CASE wire' = <<>>
    BY <2>1 DEF WireInOrder
  <2>2. CASE wire' = wire /\ live' = live
    <3>1. ASSUME NEW i \in 1..Len(wire)
          PROVE  Known(wire[i])' /\ \A j \in 1..(i - 1) : Before(wire[j], wire[i])'
      <4>1. Len(wire) \in Nat
        BY DEF ClientInvariant, StreamShape
      <4>2. \A j \in 1..(i - 1) : j \in 1..Len(wire)
        BY <4>1
      <4>3. \A j \in 1..(i - 1) : Before(wire[j], wire[i])
        BY DEF StreamInvariant, WireInOrder
      <4>4. Known(wire[i])
        BY DEF StreamInvariant, WireInOrder
      <4>5. Known(wire[i])'
        BY <1>2, <2>2, <4>4, PacketTypes
      <4>6. \A j \in 1..(i - 1) : Before(wire[j], wire[i])'
        BY <1>3, <2>2, <4>2, <4>3, PacketTypes
      <4> QED BY <4>5, <4>6
    <3> QED BY <2>2, <3>1 DEF WireInOrder
  <2> QED BY <2>1, <2>2 DEF Quiet
<1>5. HandFirst'
  <2>1. CASE hand' = <<>>
    BY <2>1 DEF HandFirst
  <2>2. CASE hand # <<>> /\ hand' = hand /\ live' = live
    <3>1. Known(hand[1]) /\ (hand[1].from \notin Lists => ~IsEvent(hand[1]))
      BY <2>2 DEF StreamInvariant, HandFirst
    <3>2. Known(hand[1])'
      BY <1>2, <2>2, <3>1, PacketTypes
    <3>3. (\A i \in 1..Len(wire) : Before(hand[1], wire[i]))'
      <4>1. CASE wire' = <<>>
        BY <4>1
      <4>2. CASE wire' = wire
        <5>1. ASSUME NEW i \in 1..Len(wire) PROVE Before(hand[1], wire[i])'
          <6>1. Before(hand[1], wire[i])
            BY <2>2 DEF StreamInvariant, HandFirst
          <6> QED BY <1>3, <2>2, <4>2, <6>1, PacketTypes
        <5> QED BY <4>2, <5>1
      <4> QED BY <4>1, <4>2 DEF Quiet
    <3>4. (hand[1].from \notin Lists => ~IsEvent(hand[1]))'
      BY <2>2, <3>1 DEF IsEvent
    <3> QED
      BY <3>2, <3>3, <3>4 DEF HandFirst
  <2> QED BY <2>1, <2>2 DEF Quiet
<1> QED BY <1>1, <1>4, <1>5 DEF StreamInvariant

\* The head of the wire, and what stays there.
LEMMA HeadOfWire ==
  ASSUME ClientInvariant, wire # <<>>
  PROVE  /\ 1 \in 1..Len(wire) /\ Head(wire) = wire[1] /\ wire[1] \in Packets
         /\ wire[1].from \in Callers
         /\ Len(Tail(wire)) = Len(wire) - 1
         /\ \A i \in 1..Len(Tail(wire)) : Tail(wire)[i] = wire[i + 1]
              /\ i + 1 \in 1..Len(wire)
<1>1. wire \in Seq(Packets) /\ Len(wire) \in Nat
  BY DEF ClientInvariant, StreamShape
<1>2. 1 \in 1..Len(wire) /\ Head(wire) = wire[1]
  BY <1>1
<1>3. /\ Len(Tail(wire)) = Len(wire) - 1
      /\ \A i \in 1..Len(Tail(wire)) : Tail(wire)[i] = wire[i + 1]
  BY <1>1, HeadTailProperties
<1>4. \A i \in 1..Len(Tail(wire)) : i + 1 \in 1..Len(wire)
  BY <1>1, <1>3
<1> QED BY <1>2, <1>3, <1>4, PacketTypes

\* A packet that leaves the wire leaves the others in order behind it.
LEMMA ReadKeepsStream ==
  ASSUME ClientInvariant, StreamInvariant, Read
  PROVE  StreamInvariant'
<1>1. /\ wire # <<>> /\ wire' = Tail(wire) /\ run = "read"
      /\ UNCHANGED <<live, sess, inbox, got, reply, sent>>
      /\ hand' = hand \/ (hand' = <<wire[1]>> /\ Wanted(wire[1]))
  BY HeadOfWire DEF Read
<1>2. hand = <<>>
  BY <1>1 DEF ClientInvariant, StreamShape
<1>3. \A a \in Callers : Counted(a)'
  BY <1>1 DEF StreamInvariant, Counted, Taken
<1>4. \A p : Known(p)' <=> Known(p)
  BY <1>1 DEF Known, Place, Taken
<1>5. \A p, q : Before(p, q)' <=> Before(p, q)
  BY <1>1 DEF Before, Place
<1>6. WireInOrder'
  <2>1. ASSUME NEW i \in 1..Len(Tail(wire))
        PROVE  Known(Tail(wire)[i])
             /\ \A j \in 1..(i - 1) : Before(Tail(wire)[j], Tail(wire)[i])
    <3>1. Tail(wire)[i] = wire[i + 1] /\ i + 1 \in 1..Len(wire)
      BY <1>1, HeadOfWire
    <3>2. ASSUME NEW j \in 1..(i - 1) PROVE Before(Tail(wire)[j], Tail(wire)[i])
      <4>1. Len(Tail(wire)) \in Int
        BY <1>1, HeadOfWire DEF ClientInvariant, StreamShape
      <4>2. j \in 1..Len(Tail(wire)) /\ j + 1 \in 1..((i + 1) - 1)
        BY <4>1
      <4>3. Tail(wire)[j] = wire[j + 1]
        BY <1>1, <4>2, HeadOfWire
      <4> QED BY <3>1, <4>2, <4>3 DEF StreamInvariant, WireInOrder
    <3> QED BY <3>1, <3>2 DEF StreamInvariant, WireInOrder
  <2> QED BY <1>1, <1>4, <1>5, <2>1 DEF WireInOrder
<1>7. HandFirst'
  <2>1. CASE hand' = hand
    BY <1>2, <2>1 DEF HandFirst
  <2>2. CASE hand' = <<wire[1]>> /\ Wanted(wire[1])
    <3>1. Known(wire[1]) /\ (wire[1].from \notin Lists => ~IsEvent(wire[1]))
      BY <1>1, <2>2, HeadOfWire DEF StreamInvariant, WireInOrder, Wanted
    <3>2. ASSUME NEW i \in 1..Len(Tail(wire)) PROVE Before(wire[1], Tail(wire)[i])
      <4>1. Tail(wire)[i] = wire[i + 1] /\ i + 1 \in 1..Len(wire)
           /\ 1 \in 1..((i + 1) - 1)
        BY <1>1, HeadOfWire DEF ClientInvariant, StreamShape
      <4> QED BY <4>1 DEF StreamInvariant, WireInOrder
    <3> QED BY <1>1, <1>4, <1>5, <2>2, <3>1, <3>2 DEF HandFirst, IsEvent
  <2> QED BY <1>1, <2>1, <2>2
<1> QED BY <1>3, <1>6, <1>7 DEF StreamInvariant

\* The packet in hand is the first of its answer that is still under way.
LEMMA DeliverKeepsStream ==
  ASSUME ClientAssumption, ClientInvariant, StreamInvariant, Deliver
  PROVE  StreamInvariant'
<1>0. hand # <<>>
  <2>1. run = "deliver"
    BY DEF Deliver
  <2>2. Len(hand) = 1
    BY <2>1 DEF ClientInvariant, StreamShape
  <2> QED BY <2>2
<1>2. PICK p \in Packets, b \in Callers : p = hand[1] /\ b = p.from /\ reply[b] # <<>>
  BY <1>0, PacketTypes
<1>1. /\ hand # <<>> /\ hand' = <<>>
         /\ inbox' = [inbox EXCEPT ![b] = Append(inbox[b], p)]
      /\ UNCHANGED <<wire, live, sess, got, reply, sent>>
  BY <1>0, <1>2 DEF Deliver
<1>3. inbox \in [Callers -> Seq(Packets)]
  BY DEF ClientInvariant, AnswerShape
<1>4. Len(Append(inbox[b], p)) = Len(inbox[b]) + 1
  BY <1>2, <1>3, AppendProperties
<1>5. Known(p) /\ (b \notin Lists => ~IsEvent(p))
     /\ \A i \in 1..Len(wire) : Before(p, wire[i])
  BY <1>1, <1>2 DEF StreamInvariant, HandFirst
<1>6. /\ Taken(b)' = Taken(b) + 1
      /\ \A a \in Callers : a # b => Taken(a)' = Taken(a)
  <2>1. inbox'[b] = Append(inbox[b], p) /\ \A a \in Callers : a # b
       => inbox'[a] = inbox[a]
    BY <1>1, <1>2, <1>3
  <2>2. Len(got[b]) \in Nat /\ Len(inbox[b]) \in Nat
    BY <1>2, TakenTypes
  <2>3. got' = got
    BY <1>1
  <2>4. Taken(b)' = Len(got[b]) + (Len(inbox[b]) + 1)
    BY <1>4, <2>1, <2>3 DEF Taken
  <2>5. \A a \in Callers : a # b => Taken(a)' = Taken(a)
    BY <2>1, <2>3 DEF Taken
  <2>6. Taken(b) = Len(got[b]) + Len(inbox[b])
    BY DEF Taken
  <2>7. Taken(b)' = Taken(b) + 1
    <3>1. \A x, y \in Nat : x + (y + 1) = (x + y) + 1
      OBVIOUS
    <3>2. Len(got[b]) + (Len(inbox[b]) + 1) = (Len(got[b]) + Len(inbox[b])) + 1
      BY <2>2, <3>1
    <3> QED BY <2>4, <2>6, <3>2
  <2> QED BY <2>5, <2>7
<1>7. Taken(b) \in Nat /\ sent[b] \in Nat /\ Place(p) \in Nat
     /\ Taken(b) + 1 <= Place(p) /\ Place(p) <= sent[b]
  BY <1>2, <1>5, TakenTypes DEF Known
<1>8. b \notin Lists => Place(p) = 1
  <2>1. reply[b] \in Answers(b) /\ Place(p) \in 1..Len(reply[b])
       /\ p = reply[b][Place(p)]
    BY <1>2, <1>5, <1>7 DEF ClientInvariant, AnswerShape, Asked, Known
  <2>2. b \notin Lists => Len(reply[b]) <= 2 /\ Len(reply[b]) \in Nat
       /\ (IsEvent(p) <=> Place(p) = 2)
    BY <1>2, <2>1, AnswerPlaces
  <2> QED BY <1>5, <1>7, <2>1, <2>2
<1>9. \A a \in Callers : Counted(a)'
  <2> SUFFICES ASSUME NEW a \in Callers PROVE Counted(a)'
    OBVIOUS
  <2>1. Counted(a) /\ sent' = sent
    BY <1>1 DEF StreamInvariant
  <2>2. CASE a = b
    BY <1>6, <1>7, <1>8, <2>1, <2>2 DEF Counted
  <2>3. CASE a # b
    BY <1>6, <2>1, <2>3 DEF Counted
  <2> QED BY <2>2, <2>3
<1>10. \A q, r : Before(q, r)' <=> Before(q, r)
  BY <1>1 DEF Before, Place
<1>11. ASSUME NEW i \in 1..Len(wire)
       PROVE  Known(wire[i])'
  <2>1. Known(wire[i]) /\ wire[i].from \in Callers /\ Before(p, wire[i])
    BY <1>5, PacketTypes DEF StreamInvariant, WireInOrder
  <2>2. Place(wire[i])' = Place(wire[i]) /\ wire' = wire
    BY <1>1 DEF Place
  <2>3. Taken(wire[i].from)' < Place(wire[i])
    <3>1. CASE wire[i].from = b
      <4>1. Place(p) < Place(wire[i]) /\ Place(wire[i]) \in Int
        BY <1>2, <1>7, <2>1, <3>1 DEF Before, Known
      <4> QED BY <1>6, <1>7, <2>2, <3>1, <4>1
    <3>2. CASE wire[i].from # b
      BY <1>6, <2>1, <2>2, <3>2 DEF Known
    <3> QED BY <3>1, <3>2
  <2> QED BY <1>1, <2>1, <2>2, <2>3 DEF Known
<1>12. WireInOrder'
  BY <1>1, <1>10, <1>11 DEF WireInOrder, StreamInvariant
<1>13. HandFirst'
  BY <1>1 DEF HandFirst
<1> QED BY <1>9, <1>12, <1>13 DEF StreamInvariant

\* A packet sent is behind the others of its answer.
LEMMA SendKeepsStream ==
  ASSUME ClientAssumption, ClientInvariant, StreamInvariant, NEW a \in Callers,
       Send(a)
  PROVE  StreamInvariant'
<1> DEFINE n == sent[a] + 1  
<1>1. /\ sent[a] < Len(reply[a]) /\ sess[a] = live
      /\ sent' = [sent EXCEPT ![a] = n] /\ wire' = Append(wire, reply[a][n])
      /\ UNCHANGED <<live, hand, sess, inbox, got, reply>>
  BY DEF Send
<1>2. /\ sent \in [Callers -> Nat] /\ reply[a] \in Seq(Packets)
         /\ Len(reply[a]) \in Nat
      /\ wire \in Seq(Packets) /\ Len(wire) \in Nat
  BY DEF ClientInvariant, AnswerShape, StreamShape
<1>3. n \in 1..Len(reply[a]) /\ n \in Nat /\ reply[a] # <<>>
  BY <1>1, <1>2
<1>4. reply[a] \in Answers(a)
  BY <1>3 DEF ClientInvariant, AnswerShape, Asked
<1>5. PICK p \in Packets : p = reply[a][n] /\ p.from = a /\ Place(p) = n
  BY <1>3, <1>4, AnswerPlaces DEF Place
<1> DEFINE w == Append(wire, p)
<1>6. /\ Len(w) = Len(wire) + 1 /\ w[Len(wire) + 1] = p
      /\ \A i \in 1..Len(wire) : w[i] = wire[i]
  <2> HIDE DEF n
  <2> QED BY <1>2, <1>5, AppendProperties
<1>0. wire' = w
  BY <1>1, <1>5
<1>7. \A b \in Callers : Taken(b)' = Taken(b) /\ Taken(b) \in Nat /\ sent[b] \in Nat
     /\ sent[b] <= sent'[b] /\ sent'[b] \in Nat
  <2>1. \A b \in Callers : Taken(b)' = Taken(b)
    BY <1>1 DEF Taken
  <2> QED BY <1>1, <1>2, <2>1, TakenTypes
<1>8. \A b \in Callers : Counted(b)'
  BY <1>7 DEF StreamInvariant, Counted
<1>9. Known(p)'
  <2>1. Place(p)' = n
    BY <1>1, <1>5 DEF Place
  <2>2. sent'[a] = n /\ Taken(a) < n
    BY <1>1, <1>2, <1>7 DEF StreamInvariant, Counted
  <2> QED BY <1>1, <1>3, <1>5, <1>7, <2>1, <2>2 DEF Known
<1>10. ASSUME NEW q, q.from \in Callers, Known(q) PROVE Known(q)'
  <2>1. Place(q)' = Place(q)
    BY <1>1 DEF Place
  <2> QED BY <1>1, <1>7, <1>10, <2>1 DEF Known
<1>11. ASSUME NEW q, Known(q) PROVE Before(q, p)
  BY <1>2, <1>5, <1>11 DEF Known, Before
<1>12. \A q, r : Before(q, r)' <=> Before(q, r)
  BY <1>1 DEF Before, Place
<1> HIDE DEF w, n
<1>13. ASSUME NEW i \in 1..Len(wire), NEW j \in 1..(i - 1)
       PROVE  Before(wire[j], wire[i])
  BY DEF StreamInvariant, WireInOrder
<1>14. \A i \in 1..Len(wire) : Known(wire[i]) /\ wire[i].from \in Callers
  BY PacketTypes DEF StreamInvariant, WireInOrder
<1>15. ASSUME NEW i \in 1..Len(w), NEW q, q = w[i]
       PROVE  Known(q)' /\ \A j \in 1..(i - 1) : Before(w[j], w[i])
  <2>1. CASE i \in 1..Len(wire)
    <3>1. \A j \in 1..(i - 1) : w[j] = wire[j]
      BY <1>2, <1>6, <2>1
    <3> QED BY <1>6, <1>10, <1>13, <1>14, <1>15, <2>1, <3>1
  <2>2. CASE i = Len(wire) + 1
    <3>1. \A j \in 1..(i - 1) : w[j] = wire[j] /\ j \in 1..Len(wire)
      BY <1>2, <1>6, <2>2
    <3> QED BY <1>6, <1>9, <1>11, <1>14, <1>15, <2>2, <3>1
  <2> QED BY <1>2, <1>6, <2>1, <2>2
<1>16. WireInOrder'
  BY <1>0, <1>12, <1>15 DEF WireInOrder
<1>17. HandFirst'
  <2>1. CASE hand # <<>>
    <3>1. Known(hand[1])' /\ (hand[1].from \notin Lists => ~IsEvent(hand[1]))
      BY <1>1, <1>10, <2>1, PacketTypes DEF StreamInvariant, HandFirst
    <3>2. ASSUME NEW i \in 1..Len(w) PROVE Before(hand[1], w[i])
      <4>1. CASE i \in 1..Len(wire)
        BY <1>6, <2>1, <4>1 DEF StreamInvariant, HandFirst
      <4>2. CASE i = Len(wire) + 1
        BY <1>6, <1>11, <2>1, <4>2 DEF StreamInvariant, HandFirst
      <4> QED BY <1>2, <1>6, <4>1, <4>2
    <3> QED BY <1>0, <1>1, <1>12, <3>1, <3>2 DEF HandFirst, IsEvent
  <2>2. CASE hand = <<>>
    BY <1>1, <2>2 DEF HandFirst
  <2> QED BY <2>1, <2>2
<1> QED BY <1>8, <1>16, <1>17 DEF StreamInvariant

\* Every step keeps the order of what is under way.
LEMMA StreamStep ==
  ASSUME ClientAssumption, ClientInvariant, ClientInvariant', StreamInvariant,
       [Next]_vars
  PROVE  StreamInvariant'
<1>1. ASSUME NEW a \in Callers, Local(a) PROVE Quiet
  <2>1. /\ UNCHANGED <<live, wire, hand, reply, sent, got>>
        /\ inbox' = inbox \/ inbox' = [inbox EXCEPT ![a] = <<>>]
        /\ sess' = sess \/ (pc[a] = "start" /\ \E s : sess' = [sess EXCEPT ![a] = s])
    BY <1>1 DEF callerFrame, Local, Begin, Register, RefusedAtGate, CannotEncode,
       StartWrite, WriteFails, WriteReturns, TimesOut, SeesClosed, Drained,
       Unregister, Expire
  <2>2. ASSUME NEW b \in Callers
        PROVE  Taken(b)' <= Taken(b) /\ (reply[b] # <<>> => sess'[b] = sess[b])
    <3>1. /\ inbox \in [Callers -> Seq(Packets)]
             /\ sess \in [Callers -> 0..MaxSessions]
          /\ pc[b] = "start" => reply[b] = <<>>
          /\ Len(got[b]) \in Nat /\ Len(inbox[b]) \in Nat
      <4>1. pc[b] = "start" => reply[b] = <<>>
        BY DEF ClientInvariant, AnswerShape, Asked, Early
      <4> QED BY <4>1, TakenTypes DEF ClientInvariant, AnswerShape, CallerShape
    <3>2. inbox'[b] = inbox[b] \/ inbox'[b] = <<>>
      BY <2>1, <3>1
    <3>3. Len(inbox'[b]) <= Len(inbox[b])
      BY <3>1, <3>2
    <3>4. Taken(b)' = Len(got[b]) + Len(inbox'[b])
         /\ Taken(b) = Len(got[b]) + Len(inbox[b])
      BY <2>1 DEF Taken
    <3>5. Len(inbox'[b]) \in Nat
      BY <3>1, <3>2
    <3>6. \A x, y, z \in Nat : y <= z => x + y <= x + z
      OBVIOUS
    <3>7. Taken(b)' <= Taken(b)
      BY <3>1, <3>3, <3>4, <3>5, <3>6
    <3> QED BY <2>1, <3>1, <3>7
  <2> QED BY <2>1, <2>2 DEF Quiet
<1>2. ASSUME NEW a \in Callers, EndWrite(a) PROVE Quiet
  <2>1. /\ UNCHANGED <<live, wire, hand, sent, got, inbox, sess>> /\ reply[a] = <<>>
        /\ \E r : reply' = [reply EXCEPT ![a] = r]
    BY <1>2 DEF EndWrite, readerVars, ClientInvariant, AnswerShape, Asked, Early
  <2>2. \A b \in Callers : Taken(b)' <= Taken(b)
    <3>1. \A b \in Callers : Taken(b)' = Taken(b)
      BY <2>1 DEF Taken
    <3> QED BY <3>1, TakenTypes
  <2>3. \A b \in Callers : reply[b] # <<>> => reply'[b] = reply[b]
    BY <2>1 DEF ClientInvariant, AnswerShape
  <2> QED BY <2>1, <2>2, <2>3 DEF Quiet
<1>3. ASSUME NEW a \in Callers, Take(a) PROVE Quiet
  <2>1. /\ UNCHANGED <<live, wire, hand, sent, reply, sess>> /\ inbox[a] # <<>>
        /\ inbox' = [inbox EXCEPT ![a] = Tail(inbox[a])]
        /\ got' = [got EXCEPT ![a] = Append(got[a], Head(inbox[a]))]
    BY <1>3 DEF Take, callerFrame
  <2>2. ASSUME NEW b \in Callers PROVE Taken(b)' <= Taken(b)
    <3>1. inbox \in [Callers -> Seq(Packets)] /\ got \in [Callers -> Seq(Packets)]
          /\ inbox[a] \in Seq(Packets) /\ got[a] \in Seq(Packets)
      BY DEF ClientInvariant, AnswerShape
    <3>2. CASE b = a
      <4>1. Head(inbox[a]) \in Packets /\ Len(Tail(inbox[a])) = Len(inbox[a]) - 1
        BY <2>1, <3>1, HeadTailProperties
      <4>2. Len(Append(got[a], Head(inbox[a]))) = Len(got[a]) + 1
        BY <3>1, <4>1, AppendProperties
      <4>3. Taken(a)' = (Len(got[a]) + 1) + (Len(inbox[a]) - 1)
        BY <2>1, <3>1, <4>1, <4>2 DEF Taken
      <4>4. \A x, y \in Nat : (x + 1) + (y - 1) <= x + y
        OBVIOUS
      <4> QED BY <3>2, <4>3, <4>4, TakenTypes DEF Taken
    <3>3. CASE b # a
      <4>1. Taken(b)' = Taken(b)
        BY <2>1, <3>1, <3>3 DEF Taken
      <4> QED BY <4>1, TakenTypes
    <3> QED BY <3>2, <3>3
  <2> QED BY <2>1, <2>2 DEF Quiet
<1>4. CASE Connect \/ GiveUp \/ Discard \/ ReadFails \/ ClearSession \/ CloseSession
     \/ Break \/ Consume
           \/ UNCHANGED vars
  <2>1. /\ UNCHANGED <<sent, got, inbox, reply, sess>>
        /\ wire' = <<>> \/ (wire' = wire /\ live' = live)
        /\ hand' = <<>> \/ (hand' = hand /\ (live' = live \/ run = "dial"))
    BY <1>4 DEF Connect, GiveUp, Discard, ReadFails, ClearSession, CloseSession,
       Break, Consume, readerVars, vars
  <2>2. run = "dial" => hand = <<>>
    BY DEF ClientInvariant, StreamShape
  <2>3. \A b \in Callers : Taken(b)' = Taken(b)
    BY <2>1 DEF Taken
  <2>4. \A b \in Callers : Taken(b)' <= Taken(b)
    BY <2>3, TakenTypes
  <2>5. hand' = <<>> \/ (hand' = hand /\ live' = live)
    BY <2>1, <2>2
  <2>6. \A b \in Callers : reply'[b] = reply[b] /\ sess'[b] = sess[b]
    BY <2>1
  <2>7. sent' = sent /\ (wire' = <<>> \/ (wire' = wire /\ live' = live))
    BY <2>1
  <2>8. Quiet
    BY <2>4, <2>5, <2>6, <2>7 DEF Quiet
  <2> QED BY <2>8, QuietKeepsStream
<1>5. CASE Quiet
  BY <1>5, QuietKeepsStream
<1>6. CASE Read
  BY <1>6, ReadKeepsStream
<1>7. CASE Deliver
  BY <1>7, DeliverKeepsStream
<1>8. ASSUME NEW a \in Callers, Send(a) PROVE StreamInvariant'
  BY <1>8, SendKeepsStream
<1> QED
  BY <1>1, <1>2, <1>3, <1>4, <1>5, <1>6, <1>7, <1>8 DEF Next, Reader, Caller, Local

\* The caller of a list that the reader still serves.
Listening(a) ==
  a \in Lists /\ a \in pending /\ sess[a] = live /\ live \notin closed
       /\ run \in {"read", "deliver"}

\* The packet in place k of the answer is under way.
Coming(a, k) ==
  \/ hand # <<>> /\ hand[1].from = a /\ Place(hand[1]) = k
  \/ \E i \in 1..Len(wire) : wire[i].from = a /\ Place(wire[i]) = k

\* A list misses nothing while its session is open.
Unbroken(a) == Listening(a) => \A k \in 1..sent[a] : k <= Taken(a) \/ Coming(a, k)

\* What has reached a caller is the beginning of its answer.
InOrder(a) ==
  a \notin Lists \/ sess[a] \notin closed =>
    /\ \A k \in 1..Len(got[a]) : got[a][k] = reply[a][k]
    /\ \A k \in 1..Len(inbox[a]) : inbox[a][k] = reply[a][Len(got[a]) + k]

\* Who returned with an answer consumed all that was its own.
Whole(a) ==
  result[a] \in {"ok", "rejected"} /\ (a \notin Lists \/ sess[a] \notin closed)
    => reply[a] # <<>> /\ Len(got[a]) = OwnLength(a, reply[a])

Exact(a) == Unbroken(a) /\ InOrder(a) /\ Whole(a)

\* A caller whose answer, queue and packets under way stay is where it was.
LEMMA StaysExact ==
  ASSUME ClientInvariant, ClientInvariant', NEW b \in Callers, Exact(b),
         reply'[b] = reply[b], sent'[b] = sent[b], got'[b] = got[b],
         inbox'[b] = inbox[b] \/ inbox'[b] = <<>>,
         closed \subseteq closed',
         result'[b] \in {"ok", "rejected"} => result[b] = result'[b],
         reply[b] # <<>> =>
           /\ sess'[b] = sess[b]
           /\ Listening(b)' => /\ Listening(b) /\ inbox'[b] = inbox[b]
                               /\ \A k \in 1..sent[b] : Coming(b, k) => Coming(b, k)'
  PROVE  Exact(b)'
<1>1. CASE reply[b] = <<>>
  <2>1. got'[b] = <<>> /\ inbox'[b] = <<>> /\ sent'[b] = 0
       /\ result'[b] \notin {"ok", "rejected"}
    BY <1>1 DEF ClientInvariant, AnswerShape, Asked
  <2>2. Len(<<>>) = 0
    OBVIOUS
  <2> QED BY <2>1, <2>2 DEF Exact, Unbroken, InOrder, Whole
<1>2. CASE reply[b] # <<>>
  <2>1. Unbroken(b)'
    <3> SUFFICES ASSUME Listening(b)'
         PROVE (\A k \in 1..sent[b] : k <= Taken(b) \/ Coming(b, k))'
      BY DEF Unbroken
    <3>1. Listening(b) /\ Taken(b)' = Taken(b) /\ \A k \in 1..sent[b] : Coming(b, k)
         => Coming(b, k)'
      BY <1>2 DEF Taken
    <3>2. \A k \in 1..sent[b] : k <= Taken(b) \/ Coming(b, k)
      BY <3>1 DEF Exact, Unbroken
    <3>3. \A k \in 1..sent'[b] : k <= Taken(b)' \/ Coming(b, k)'
      BY <3>1, <3>2
    <3> QED BY <3>3
  <2>2. InOrder(b)'
    <3>1. b \notin Lists \/ sess'[b] \notin closed' => InOrder(b)
         /\ (b \notin Lists \/ sess[b] \notin closed)
      BY <1>2 DEF Exact
    <3>2. inbox'[b] = <<>> => Len(inbox'[b]) = 0
      OBVIOUS
    <3> QED BY <3>1, <3>2 DEF InOrder
  <2>3. Whole(b)'
    BY <1>2 DEF Exact, Whole
  <2> QED BY <2>1, <2>2, <2>3 DEF Exact
<1> QED BY <1>1, <1>2

\* What is on its way stays there until it is delivered.
LEMMA ExactStep ==
  ASSUME ClientAssumption, ClientInvariant, ClientInvariant', StreamInvariant,
         \A a \in Callers : Exact(a), [Next]_vars, NEW b \in Callers
  PROVE  Exact(b)'
<1>0. Exact(b)
  OBVIOUS
<1>1. ASSUME NEW a \in Callers, Local(a) PROVE Exact(b)'
  <2>1. /\ UNCHANGED <<live, run, wire, hand, reply, sent, got>>
        /\ inbox' = inbox \/ inbox' = [inbox EXCEPT ![a] = <<>>]
        /\ closed \subseteq closed'
        /\ inbox' = inbox \/ pending' = pending \ {a}
        /\ sess' = sess \/ (pc[a] = "start" /\ \E s : sess' = [sess EXCEPT ![a] = s])
        /\ pending' \subseteq pending
             \/ (pc[a] = "captured" /\ pending' = pending \union {a})
    BY <1>1 DEF callerFrame, Local, Begin, Register, RefusedAtGate, CannotEncode,
       StartWrite, WriteFails, WriteReturns, TimesOut, SeesClosed, Drained,
       Unregister, Expire, Interrupt
  <2>2. /\ inbox \in [Callers -> Seq(Packets)] /\ sess \in [Callers -> 0..MaxSessions]
        /\ pc[a] \in {"start", "captured"} => reply[a] = <<>>
    <3>1. pc[a] \in Early => reply[a] = <<>>
      BY DEF ClientInvariant, AnswerShape, Asked
    <3> QED BY <3>1 DEF ClientInvariant, AnswerShape, CallerShape, Early
  <2>3. inbox'[b] = inbox[b] \/ (inbox'[b] = <<>> /\ b \notin pending')
    BY <2>1, <2>2
  <2>4. result'[b] \in {"ok", "rejected"} => result[b] = result'[b]
    BY <1>1 DEF ClientInvariant, CallerShape, Leave, Local, Begin, Register,
       RefusedAtGate, CannotEncode, StartWrite, WriteFails, WriteReturns, TimesOut,
       SeesClosed, Drained, Unregister, Expire
  <2>5. ASSUME reply[b] # <<>>
        PROVE  /\ sess'[b] = sess[b]
               /\ Listening(b)' => /\ Listening(b) /\ inbox'[b] = inbox[b]
                                   /\ \A k \in 1..sent[b] : Coming(b, k)
                                        => Coming(b, k)'
    <3>1. sess'[b] = sess[b] /\ (b \in pending' => b \in pending)
      BY <2>1, <2>2, <2>5
    <3>2. \A k : Coming(b, k) => Coming(b, k)'
      BY <2>1 DEF Coming, Place
    <3> QED BY <2>1, <2>3, <3>1, <3>2 DEF Listening
  <2> QED BY <1>0, <2>1, <2>3, <2>4, <2>5, StaysExact
<1>2. ASSUME NEW a \in Callers, EndWrite(a) PROVE Exact(b)'
  <2>1. PICK r \in Answers(a) : reply' = [reply EXCEPT ![a] = r]
    BY <1>2 DEF EndWrite
  <2>2. /\ UNCHANGED <<live, run, wire, hand, sent, got, inbox, sess, closed, pending,
           result>>
        /\ pc[a] = "writing"
    BY <1>2 DEF EndWrite, readerVars
  <2>3. reply[a] = <<>> /\ reply \in [Callers -> Seq(Packets)]
    BY <2>2 DEF ClientInvariant, AnswerShape, Asked, Early
  <2>4. CASE b = a
    <3>1. sent[a] = 0 /\ got[a] = <<>> /\ inbox[a] = <<>>
         /\ result[a] \notin {"ok", "rejected"}
      BY <2>2, <2>3 DEF ClientInvariant, AnswerShape, Asked
    <3>2. Len(<<>>) = 0
      OBVIOUS
    <3> QED BY <2>2, <2>4, <3>1, <3>2 DEF Exact, Unbroken, InOrder, Whole
  <2>5. CASE b # a
    <3>1. reply'[b] = reply[b]
      BY <2>1, <2>3, <2>5
    <3>2. \A k : Coming(b, k) => Coming(b, k)'
      BY <2>2, <3>1 DEF Coming, Place
    <3>3. Listening(b)' => Listening(b)
      BY <2>2 DEF Listening
    <3> QED BY <1>0, <2>2, <3>1, <3>2, <3>3, StaysExact
  <2> QED BY <2>4, <2>5
<1>3. ASSUME NEW a \in Callers, Take(a) PROVE Exact(b)'
  <2>1. /\ UNCHANGED <<live, run, wire, hand, sent, reply, sess, closed, pending>>
           /\ inbox[a] # <<>>
        /\ inbox' = [inbox EXCEPT ![a] = Tail(inbox[a])]
        /\ got' = [got EXCEPT ![a] = Append(got[a], Head(inbox[a]))]
    BY <1>3 DEF Take, callerFrame
  <2>2. /\ inbox \in [Callers -> Seq(Packets)] /\ got \in [Callers -> Seq(Packets)]
        /\ inbox[a] \in Seq(Packets) /\ got[a] \in Seq(Packets)
        /\ result \in [Callers -> Results]
    BY DEF ClientInvariant, AnswerShape, CallerShape
  <2>3. \/ Complete(a, Head(inbox[a])) /\ result'[a] \in {"ok", "rejected"}
           /\ \A c \in Callers : c # a => result'[c] = result[c]
        \/ result' = result
    BY <1>3, <2>2 DEF Take, Leave
  <2>4. CASE b # a
    <3>1. inbox'[b] = inbox[b] /\ got'[b] = got[b] /\ (result'[b] = result[b])
      BY <2>1, <2>2, <2>3, <2>4
    <3>2. Listening(b)' => Listening(b)
      BY <2>1 DEF Listening
    <3>3. \A k : Coming(b, k) => Coming(b, k)'
      BY <2>1 DEF Coming, Place
    <3> QED BY <1>0, <2>1, <3>1, <3>2, <3>3, StaysExact
  <2>5. CASE b = a
    <3>1. PICK p \in Packets, x, y \in Nat :
            /\ p = Head(inbox[a]) /\ p = inbox[a][1] /\ x = Len(got[a])
                 /\ y = Len(inbox[a])
            /\ y >= 1 /\ Len(Tail(inbox[a])) = y - 1
            /\ \A i \in 1..(y - 1) : Tail(inbox[a])[i] = inbox[a][i + 1]
      <4>1. /\ Head(inbox[a]) \in Packets /\ Len(Tail(inbox[a])) = Len(inbox[a]) - 1
            /\ \A i \in 1..(Len(inbox[a]) - 1) : Tail(inbox[a])[i] = inbox[a][i + 1]
        BY <2>1, <2>2, HeadTailProperties
      <4>2. Len(got[a]) \in Nat /\ Len(inbox[a]) \in Nat /\ Len(inbox[a]) >= 1
            /\ Head(inbox[a]) = inbox[a][1]
        BY <2>1, <2>2
      <4> QED BY <4>1, <4>2
    <3>2. /\ Len(Append(got[a], p)) = x + 1 /\ Append(got[a], p)[x + 1] = p
          /\ \A i \in 1..x : Append(got[a], p)[i] = got[a][i]
      BY <2>2, <3>1, AppendProperties
    <3>3. got'[a] = Append(got[a], p) /\ inbox'[a] = Tail(inbox[a])
      BY <2>1, <2>2, <3>1
    <3>4. Taken(a)' = Taken(a)
      <4>1. Taken(a)' = (x + 1) + (y - 1) /\ Taken(a) = x + y
        BY <3>1, <3>2, <3>3 DEF Taken
      <4> QED BY <4>1
    <3>5. Unbroken(a)'
      <4>1. Listening(a)' => Listening(a)
        BY <2>1 DEF Listening
      <4>2. \A k : Coming(a, k) => Coming(a, k)'
        BY <2>1 DEF Coming, Place
      <4>3. sent' = sent
           /\ (Listening(a) => \A k \in 1..sent[a] : k <= Taken(a) \/ Coming(a, k))
        BY <1>0, <2>1, <2>5 DEF Exact, Unbroken
      <4> QED BY <3>4, <4>1, <4>2, <4>3 DEF Unbroken
    <3>6. ASSUME a \notin Lists \/ sess[a] \notin closed
          PROVE  /\ p = reply[a][x + 1]
                 /\ \A k \in 1..x : got[a][k] = reply[a][k]
                 /\ \A k \in 1..y : inbox[a][k] = reply[a][x + k]
      <4>1. 1 \in 1..y
        BY <3>1
      <4> QED BY <1>0, <2>5, <3>1, <3>6, <4>1 DEF Exact, InOrder
    <3>7. InOrder(a)'
      <4> SUFFICES ASSUME a \notin Lists \/ sess[a] \notin closed
                   PROVE  /\ \A k \in 1..(x + 1) : Append(got[a], p)[k] = reply[a][k]
                          /\ \A k \in 1..(y - 1) :
                               Tail(inbox[a])[k] = reply[a][(x + 1) + k]
        <5>1. /\ Len(got'[a]) = x + 1 /\ Len(inbox'[a]) = y - 1
              /\ sess' = sess /\ closed' = closed /\ reply' = reply
          BY <2>1, <3>1, <3>2, <3>3
        <5>2. got'[a] = Append(got[a], p) /\ inbox'[a] = Tail(inbox[a])
          BY <3>3
        <5> QED BY <5>1, <5>2 DEF InOrder
      <4>1. \A k \in 1..(x + 1) : k \in 1..x \/ k = x + 1
        OBVIOUS
      <4>2. \A k \in 1..(y - 1) : k + 1 \in 1..y /\ x + (k + 1) = (x + 1) + k
        OBVIOUS
      <4>3. \A k \in 1..(x + 1) : Append(got[a], p)[k] = reply[a][k]
        BY <3>2, <3>6, <4>1
      <4>4. \A k \in 1..(y - 1) : Tail(inbox[a])[k] = reply[a][(x + 1) + k]
        BY <3>1, <3>6, <4>2
      <4> QED BY <4>3, <4>4
    <3>8. Whole(a)'
      <4>1. reply[a] \in Answers(a) /\ reply[a] # <<>>
        BY <2>1 DEF ClientInvariant, AnswerShape, Asked
      <4>2. CASE result' = result
        <5>1. result[a] \notin {"ok", "rejected"}
          BY <1>3 DEF Take, ClientInvariant, CallerShape
        <5> QED BY <4>2, <5>1 DEF Whole
      <4>3. CASE Complete(a, p)
        <5> SUFFICES ASSUME a \notin Lists \/ sess[a] \notin closed
                     PROVE  x + 1 = OwnLength(a, reply[a])
          BY <2>1, <3>2, <3>3, <4>1 DEF Whole
        <5>1. x + 1 \in 1..Len(reply[a])
          <6>1. x + y <= sent[a] /\ sent[a] <= Len(reply[a]) /\ sent[a] \in Nat
               /\ Len(reply[a]) \in Nat
            BY <3>1, <4>1, AnswerPlaces DEF StreamInvariant, Counted, Taken,
               ClientInvariant, AnswerShape, Asked
          <6>2. y >= 1
            BY <3>1
          <6> QED BY <6>1, <6>2
        <5> QED BY <3>6, <4>1, <4>3, <5>1, AnswerPlaces
      <4> QED BY <2>3, <3>1, <4>2, <4>3
    <3> QED BY <2>5, <3>5, <3>7, <3>8 DEF Exact
  <2> QED BY <2>4, <2>5
<1>4. CASE Connect
  <2>1. /\ UNCHANGED <<sent, got, inbox, reply, sess, result, closed>>
           /\ live' = live + 1
    BY <1>4 DEF Connect
  <2>2. ~Listening(b)'
    BY <2>1 DEF ClientInvariant, CallerShape, ConnectionShape, ClientAssumption,
       Listening
  <2> QED BY <1>0, <2>1, <2>2, StaysExact
<1>5. CASE GiveUp \/ ReadFails \/ ClearSession \/ CloseSession
  <2>1. /\ UNCHANGED <<sent, got, inbox, reply, sess, result>>
           /\ closed \subseteq closed'
        /\ run' \notin {"read", "deliver"}
    BY <1>5 DEF GiveUp, ReadFails, ClearSession, CloseSession, Shut
  <2>2. ~Listening(b)'
    BY <2>1 DEF Listening
  <2> QED BY <1>0, <2>1, <2>2, StaysExact
<1>6. CASE Discard \/ Break \/ Consume \/ UNCHANGED vars
  <2>1. /\ UNCHANGED <<sent, got, inbox, reply, sess, result, closed, pending, live,
           wire>>
        /\ (hand' = hand /\ run' = run)
             \/ (run \in {"read", "deliver"}
                  /\ (hand[1].from \notin pending \/ live \in closed))
    BY <1>6 DEF Discard, Break, Consume, readerVars, vars, Abandoned
  <2>2. Listening(b)' => Listening(b)
    BY <2>1 DEF Listening
  <2>3. Listening(b)' => \A k : Coming(b, k) => Coming(b, k)'
    BY <2>1 DEF Listening, Coming, Place
  <2> QED BY <1>0, <2>1, <2>2, <2>3, StaysExact
<1>7. CASE Read
  <2>1. /\ wire # <<>> /\ wire' = Tail(wire) /\ run = "read"
        /\ UNCHANGED <<live, sess, inbox, got, reply, sent, closed, pending, result>>
        /\ IF Wanted(wire[1]) THEN hand' = <<wire[1]>> ELSE hand' = hand
    BY <1>7, HeadOfWire DEF Read
  <2>2. hand = <<>>
    BY <2>1 DEF ClientInvariant, StreamShape
  <2>3. Listening(b)' => Listening(b)
    BY <2>1 DEF Listening
  <2>4. ASSUME Listening(b), NEW k, Coming(b, k) PROVE Coming(b, k)'
    <3>1. PICK i \in 1..Len(wire) : wire[i].from = b /\ Place(wire[i]) = k
      BY <2>2, <2>4 DEF Coming
    <3>2. CASE i = 1
      <4>1. hand' = <<wire[1]>>
        BY <2>1, <2>4, <3>1, <3>2 DEF Wanted, Listening
      <4>2. hand' # <<>> /\ hand'[1] = wire[1]
        BY <4>1
      <4>3. Place(wire[i])' = Place(wire'[i]) /\ reply' = reply
        BY <2>1 DEF Place
      <4>4. hand'[1].from = b /\ PlaceIn(reply'[hand'[1].from], hand'[1]) = k
        BY <2>1, <3>1, <3>2, <4>2 DEF Place
      <4> QED BY <4>2, <4>4 DEF Coming, Place
    <3>3. CASE i # 1
      <4>1. i - 1 \in 1..Len(Tail(wire)) /\ Tail(wire)[i - 1] = wire[i]
        <5>1. Len(wire) \in Nat
          BY DEF ClientInvariant, StreamShape
        <5>2. i - 1 \in 1..Len(Tail(wire)) /\ (i - 1) + 1 = i
          BY <2>1, <3>1, <3>3, <5>1, HeadOfWire
        <5> QED BY <2>1, <5>2, HeadOfWire
      <4>2. wire'[i - 1].from = b
           /\ PlaceIn(reply'[wire'[i - 1].from], wire'[i - 1]) = k
        BY <2>1, <3>1, <4>1 DEF Place
      <4> QED BY <2>1, <4>1, <4>2 DEF Coming, Place
    <3> QED BY <3>2, <3>3
  <2> QED BY <1>0, <2>1, <2>3, <2>4, StaysExact
<1>8. CASE Deliver
  <2>1. run = "deliver" /\ hand # <<>>
    <3>1. run = "deliver"
      BY <1>8 DEF Deliver
    <3>2. Len(hand) = 1
      BY <3>1 DEF ClientInvariant, StreamShape
    <3> QED BY <3>1, <3>2
  <2>2. PICK p \in Packets, c \in Callers : p = hand[1] /\ c = p.from
       /\ reply[c] # <<>>
    BY <2>1, PacketTypes
  <2>3. /\ hand' = <<>> /\ inbox' = [inbox EXCEPT ![c] = Append(inbox[c], p)]
           /\ run' = "read"
        /\ UNCHANGED <<wire, live, sess, got, reply, sent, closed, pending, result>>
        /\ c \in pending
    BY <1>8, <2>2 DEF Deliver
  <2>4. inbox \in [Callers -> Seq(Packets)]
    BY DEF ClientInvariant, AnswerShape
  <2>5. Listening(b)' => Listening(b)
    BY <2>1, <2>3 DEF Listening
  <2>6. CASE b # c
    <3>1. inbox'[b] = inbox[b]
      BY <2>3, <2>4, <2>6
    <3>2. \A k : Coming(b, k) => Coming(b, k)'
      BY <2>2, <2>3, <2>6 DEF Coming, Place
    <3> QED BY <1>0, <2>3, <2>5, <3>1, <3>2, StaysExact
  <2>7. CASE b = c
    <3>1. PICK x, y \in Nat : x = Len(got[b]) /\ y = Len(inbox[b]) /\ Taken(b) = x + y
      BY TakenTypes DEF Taken
    <3>2. /\ inbox'[b] = Append(inbox[b], p) /\ Len(inbox'[b]) = y + 1
             /\ inbox'[b][y + 1] = p
          /\ \A i \in 1..y : inbox'[b][i] = inbox[b][i]
      <4>1. inbox'[b] = Append(inbox[b], p)
        BY <2>3, <2>4, <2>7
      <4> QED BY <2>4, <3>1, <4>1, AppendProperties
    <3>3. /\ Known(p) /\ (b \notin Lists => ~IsEvent(p))
          /\ \A i \in 1..Len(wire) : Before(p, wire[i])
      BY <2>1, <2>2, <2>7 DEF StreamInvariant, HandFirst
    <3>4. /\ sess[b] = live /\ Place(p) \in 1..sent[b] /\ p = reply[b][Place(p)]
             /\ x + y < Place(p)
          /\ Place(p) \in Nat /\ sent[b] \in Nat /\ sent[b] <= Len(reply[b])
          /\ reply[b] \in Answers(b)
      BY <2>2, <2>7, <3>1, <3>3, TakenTypes, SMTT(30)
         DEF Known, ClientInvariant, AnswerShape, Asked
    <3>5. ASSUME b \notin Lists \/ live \notin closed
          PROVE  Place(p) = (x + y) + 1
      <4>1. CASE b \notin Lists
        <5>1. Len(reply[b]) <= 2 /\ Len(reply[b]) \in Nat
          BY <3>4, <4>1, AnswerPlaces
        <5>2. Place(p) \in 1..Len(reply[b])
          BY <3>4, <5>1
        <5>3. IsEvent(p) <=> Place(p) = 2
          BY <3>4, <4>1, <5>2, AnswerPlaces
        <5>4. Place(p) # 2
          BY <3>3, <4>1, <5>3
        <5>5. Place(p) \in Nat /\ x + y < Place(p) /\ 1 <= Place(p)
             /\ Place(p) <= Len(reply[b])
          BY <3>4, <5>2
        <5> QED BY <5>1, <5>4, <5>5
      <4>2. CASE b \in Lists
        <5>1. Listening(b)
          BY <2>1, <2>3, <2>7, <3>4, <3>5, <4>2 DEF Listening
        <5>2. (x + y) + 1 \in 1..sent[b] /\ ~((x + y) + 1 <= x + y)
          <6>1. Place(p) \in Nat /\ x + y < Place(p) /\ Place(p) <= sent[b]
               /\ sent[b] \in Nat
            BY <3>4
          <6> QED BY <6>1
        <5>3. Coming(b, (x + y) + 1)
          BY <1>0, <3>1, <5>1, <5>2 DEF Exact, Unbroken
        <5>4. ASSUME NEW i \in 1..Len(wire), wire[i].from = b,
             Place(wire[i]) = (x + y) + 1
              PROVE  FALSE
          <6>1. Place(p) < (x + y) + 1
            BY <2>2, <2>7, <3>3, <5>4 DEF Before
          <6>2. Place(p) \in Nat /\ x + y < Place(p)
            BY <3>4
          <6> QED BY <6>1, <6>2
        <5> QED BY <2>2, <5>3, <5>4 DEF Coming
      <4> QED BY <4>1, <4>2
    <3>6. Taken(b)' = (x + y) + 1
      <4>1. Taken(b)' = x + (y + 1)
        BY <2>3, <3>1, <3>2 DEF Taken
      <4> QED BY <4>1
    <3>7. Unbroken(b)'
      <4> SUFFICES ASSUME Listening(b)', NEW k \in 1..sent[b]
                   PROVE  k <= (x + y) + 1 \/ Coming(b, k)'
        BY <2>3, <3>6 DEF Unbroken
      <4>1. k <= x + y \/ Coming(b, k)
        BY <1>0, <2>5, <3>1 DEF Exact, Unbroken
      <4>2. live \notin closed
        BY <2>5 DEF Listening
      <4>3. CASE k <= x + y
        <5>1. sent[b] \in Nat
          BY <3>4
        <5> QED BY <4>3, <5>1
      <4>4. CASE hand[1].from = b /\ Place(hand[1]) = k
        BY <2>2, <3>1, <3>5, <4>2, <4>4
      <4>5. CASE \E i \in 1..Len(wire) : wire[i].from = b /\ Place(wire[i]) = k
        BY <2>3, <4>5 DEF Coming, Place
      <4> QED BY <4>1, <4>3, <4>4, <4>5 DEF Coming
    <3>8. InOrder(b)'
      <4> SUFFICES ASSUME b \notin Lists \/ sess[b] \notin closed
                   PROVE  /\ \A k \in 1..x : got[b][k] = reply[b][k]
                          /\ \A k \in 1..(y + 1) : inbox'[b][k] = reply[b][x + k]
        BY <2>3, <3>1, <3>2 DEF InOrder
      <4>1. /\ \A k \in 1..x : got[b][k] = reply[b][k]
            /\ \A k \in 1..y : inbox[b][k] = reply[b][x + k]
        BY <1>0, <3>1 DEF Exact, InOrder
      <4>2. \A k \in 1..(y + 1) : k \in 1..y \/ k = y + 1
        OBVIOUS
      <4>3. x + (y + 1) = (x + y) + 1
        OBVIOUS
      <4>4. p = reply[b][x + (y + 1)]
        BY <3>4, <3>5, <4>3
      <4> QED BY <3>2, <4>1, <4>2, <4>4
    <3>9. Whole(b)'
      BY <1>0, <2>3 DEF Exact, Whole
    <3> QED BY <3>7, <3>8, <3>9 DEF Exact
  <2> QED BY <2>6, <2>7
<1>9. ASSUME NEW a \in Callers, Send(a) PROVE Exact(b)'
  <2>0. PICK p \in {reply[a][sent[a] + 1]} : p = reply[a][sent[a] + 1]
    OBVIOUS
  <2>1. PICK n \in Nat :
          /\ n = sent[a] + 1 /\ p = reply[a][n] /\ n <= Len(reply[a])
          /\ sent' = [sent EXCEPT ![a] = n] /\ wire' = Append(wire, p)
          /\ UNCHANGED <<run, live, hand, sess, inbox, got, reply, closed, pending,
               result>>
    <3>1. sent[a] \in Nat /\ sent[a] < Len(reply[a]) /\ Len(reply[a]) \in Nat
      BY <1>9 DEF Send, ClientInvariant, AnswerShape
    <3>2. sent[a] + 1 \in Nat /\ sent[a] + 1 <= Len(reply[a])
      BY <3>1
    <3> QED BY <1>9, <2>0, <3>2 DEF Send
  <2>2. p \in Packets /\ p.from = a /\ Place(p) = n
    <3>1. n \in 1..Len(reply[a]) /\ reply[a] \in Answers(a)
      <4>1. sent[a] \in Nat /\ reply[a] \in Seq(Packets)
        BY DEF ClientInvariant, AnswerShape
      <4>2. n \in 1..Len(reply[a]) /\ reply[a] # <<>>
        BY <2>1, <4>1
      <4> QED BY <4>2 DEF ClientInvariant, AnswerShape, Asked
    <3> QED BY <2>1, <3>1, AnswerPlaces DEF Place
  <2>3. wire \in Seq(Packets) /\ Len(wire) \in Nat /\ sent \in [Callers -> Nat]
    <3>1. wire \in Seq(Packets)
      BY DEF ClientInvariant, StreamShape
    <3>2. sent \in [Callers -> Nat]
      BY DEF ClientInvariant, AnswerShape
    <3> QED BY <3>1, <3>2, LenProperties
  <2>4. /\ Len(wire') = Len(wire) + 1 /\ wire'[Len(wire) + 1] = p
        /\ \A i \in 1..Len(wire) : wire'[i] = wire[i]
    BY <2>1, <2>2, <2>3, AppendProperties
  <2>5. ASSUME NEW k, Coming(b, k) PROVE Coming(b, k)'
    <3>1. CASE hand # <<>> /\ hand[1].from = b /\ Place(hand[1]) = k
      BY <2>1, <3>1 DEF Coming, Place
    <3>2. CASE \E i \in 1..Len(wire) : wire[i].from = b /\ Place(wire[i]) = k
      <4>1. PICK i \in 1..Len(wire) : wire[i].from = b /\ Place(wire[i]) = k
        BY <3>2
      <4>2. i \in 1..Len(wire') /\ wire'[i] = wire[i]
        BY <2>3, <2>4
      <4>3. wire'[i].from = b /\ PlaceIn(reply'[wire'[i].from], wire'[i]) = k
        BY <2>1, <4>1, <4>2 DEF Place
      <4> QED BY <4>2, <4>3 DEF Coming, Place
    <3> QED BY <2>5, <3>1, <3>2 DEF Coming
  <2>6. Listening(b)' => Listening(b)
    BY <2>1 DEF Listening
  <2>7. CASE b # a
    <3>1. sent'[b] = sent[b]
      BY <2>1, <2>3, <2>7
    <3> QED BY <1>0, <2>1, <2>5, <2>6, <3>1, StaysExact
  <2>8. CASE b = a
    <3>1. Unbroken(b)'
      <4>1. sent'[b] = n /\ Taken(b)' = Taken(b)
        BY <2>1, <2>3, <2>8 DEF Taken
      <4>2. ASSUME Listening(b)', NEW k \in 1..n PROVE k <= Taken(b) \/ Coming(b, k)'
        <5>1. CASE k = n
          <6>1. Len(wire) + 1 \in 1..Len(wire')
            BY <2>3, <2>4
          <6>2. wire'[Len(wire) + 1].from = b
                /\ PlaceIn(reply'[wire'[Len(wire) + 1].from],
                     wire'[Len(wire) + 1]) = k
            BY <2>1, <2>2, <2>4, <2>8, <5>1 DEF Place
          <6> QED BY <6>1, <6>2 DEF Coming, Place
        <5>2. CASE k # n
          <6>1. k \in 1..sent[a]
            BY <2>1, <2>3, <5>2
          <6> QED BY <1>0, <2>5, <2>6, <2>8, <4>2, <6>1 DEF Exact, Unbroken
        <5> QED BY <5>1, <5>2
      <4> QED BY <4>1, <4>2 DEF Unbroken
    <3>2. InOrder(b)' /\ Whole(b)'
      BY <1>0, <2>1 DEF Exact, InOrder, Whole
    <3> QED BY <3>1, <3>2 DEF Exact
  <2> QED BY <2>7, <2>8
<1> QED
  BY <1>1, <1>2, <1>3, <1>4, <1>5, <1>6, <1>7, <1>8, <1>9
     DEF Next, Reader, Caller, Local

----------------------------------------------------------------------------
(* The outcome of an Originate.                                            *)

\* The outcome of an Originate has been sent on the session that is served.
Told(b) ==
  reply[b] # <<>> /\ sent[b] = Len(reply[b]) /\ Len(reply[b]) = 2
    /\ sess[b] = live /\ run \in {"read", "deliver"}

\* It is somewhere between Asterisk and the consumer of Client.events.
Accounted(b) ==
  \/ b \in heard \union dropped
  \/ \E i \in 1..Len(wire) : wire[i] = Packet(b, "outcome", 0)
  \/ \E i \in 1..Len(events) : events[i] = Packet(b, "outcome", 0)

\* The outcome goes from the wire to the stream and from there to its consumer,
\* for only a list action takes events from the wire.
LEMMA OutcomeStep ==
  ASSUME ClientAssumption, ClientInvariant, ClientInvariant', NEW b \in Originates,
         Told(b) => Accounted(b), [Next]_vars
  PROVE  Told(b)' => Accounted(b)'
<1>0. b \in Callers /\ b \notin Lists
  BY DEF ClientAssumption
<1>1. ASSUME UNCHANGED <<heard, dropped, wire, events>>, Told(b)' => Told(b)
      PROVE  Told(b)' => Accounted(b)'
  BY <1>1 DEF Accounted
<1>2. ASSUME NEW a \in Callers, Local(a) \/ Take(a) PROVE Told(b)' => Accounted(b)'
  <2>1. /\ UNCHANGED <<heard, dropped, wire, events, live, run, reply, sent>>
        /\ sess' = sess \/ (pc[a] = "start" /\ \E s : sess' = [sess EXCEPT ![a] = s])
    BY <1>2 DEF callerFrame, Take, Local, Begin, Register, RefusedAtGate,
       CannotEncode, StartWrite, WriteFails, WriteReturns, TimesOut, SeesClosed,
       Drained, Unregister, Expire
  <2>2. reply[b] # <<>> => sess'[b] = sess[b]
    <3>1. pc[b] = "start" => reply[b] = <<>>
      BY <1>0 DEF ClientInvariant, AnswerShape, Asked, Early
    <3> QED BY <1>0, <2>1, <3>1 DEF ClientInvariant, CallerShape
  <2> QED BY <1>1, <2>1, <2>2 DEF Told
<1>3. ASSUME NEW a \in Callers, EndWrite(a) PROVE Told(b)' => Accounted(b)'
  <2>1. PICK r \in Answers(a) : reply' = [reply EXCEPT ![a] = r]
    BY <1>3 DEF EndWrite
  <2>2. UNCHANGED <<heard, dropped, wire, events, live, run, sess, sent>>
       /\ pc[a] = "writing"
    BY <1>3 DEF EndWrite, readerVars
  <2>3. reply \in [Callers -> Seq(Packets)] /\ reply[a] = <<>>
    BY <2>2 DEF ClientInvariant, AnswerShape, Asked, Early
  <2>4. sent[a] = 0
    BY <2>3 DEF ClientInvariant, AnswerShape, Asked
  <2>5. CASE b = a
    BY <2>2, <2>4, <2>5 DEF Told
  <2>6. CASE b # a
    BY <1>0, <1>1, <2>1, <2>2, <2>3, <2>6 DEF Told
  <2> QED BY <2>5, <2>6
<1>4. CASE Connect
  <2>1. live' = live + 1 /\ UNCHANGED sess
    BY <1>4 DEF Connect
  <2>2. sess[b] <= live /\ sess[b] \in Nat /\ live \in Nat
    BY <1>0 DEF ClientInvariant, CallerShape, ConnectionShape, ClientAssumption
  <2> QED BY <2>1, <2>2 DEF Told
<1>5. CASE GiveUp \/ ReadFails \/ ClearSession \/ CloseSession
  BY <1>5 DEF GiveUp, ReadFails, ClearSession, CloseSession, Told
<1>6. CASE Deliver \/ Discard \/ Break \/ UNCHANGED vars
  <2>1. /\ UNCHANGED <<heard, dropped, wire, events, live, sess, reply, sent>>
        /\ run' = run \/ run = "deliver"
    BY <1>6 DEF Deliver, Discard, Break, readerVars, vars
  <2> QED BY <1>1, <2>1 DEF Told
<1>7. CASE Consume
  <2>1. /\ events # <<>> /\ events' = Tail(events)
        /\ heard' = heard \union
                      {c \in {Head(events).from} : Head(events).kind = "outcome"}
        /\ UNCHANGED <<dropped, wire, live, sess, reply, sent, run>>
    BY <1>7 DEF Consume
  <2>2. events \in Seq(Packets) /\ Len(events) \in Nat
    BY DEF ClientInvariant, StreamShape
  <2>3. /\ Len(Tail(events)) = Len(events) - 1 /\ Head(events) = events[1]
        /\ \A i \in 1..Len(Tail(events)) : Tail(events)[i] = events[i + 1]
    BY <2>1, <2>2, HeadTailProperties
  <2>4. ASSUME NEW i \in 1..Len(events), events[i] = Packet(b, "outcome", 0)
        PROVE  Accounted(b)'
    <3>1. CASE i = 1
      BY <2>1, <2>3, <2>4, <3>1 DEF Packet, Accounted
    <3>2. CASE i # 1
      <4>1. i - 1 \in 1..Len(Tail(events)) /\ (i - 1) + 1 = i
        BY <2>2, <2>3, <3>2
      <4>2. events'[i - 1] = Packet(b, "outcome", 0)
        BY <2>1, <2>3, <2>4, <4>1
      <4> QED BY <2>1, <4>1, <4>2 DEF Accounted
    <3> QED BY <3>1, <3>2
  <2>5. Told(b)' => Told(b)
    BY <2>1 DEF Told
  <2>6. CASE b \in heard \union dropped
       \/ \E i \in 1..Len(wire) : wire[i] = Packet(b, "outcome", 0)
    BY <2>1, <2>6 DEF Accounted
  <2> QED BY <2>4, <2>5, <2>6 DEF Accounted
<1>8. CASE Read
  <2> DEFINE p == Head(wire)
  <2>1. /\ wire # <<>> /\ wire' = Tail(wire) /\ run = "read"
        /\ UNCHANGED <<live, sess, reply, sent, heard>>
        /\ Len(events) <= EventCapacity
    BY <1>8 DEF Read, ClientInvariant, StreamShape
  <2>2. /\ \/ events' = events /\ dropped' = dropped /\ (Wanted(p) \/ ~IsEvent(p))
           \/ events' = Append(events, p) /\ dropped' = dropped
           \/ events' = events
                /\ dropped' = dropped \union {c \in {p.from} : p.kind = "outcome"}
    BY <1>8 DEF Read
  <2>3. events \in Seq(Packets) /\ Len(events) \in Nat
    BY DEF ClientInvariant, StreamShape
  <2>4. p = wire[1] /\ p \in Packets
    BY <2>1, HeadOfWire
  <2>5. ASSUME NEW i \in 1..Len(wire), wire[i] = Packet(b, "outcome", 0)
        PROVE  Accounted(b)'
    <3>1. CASE i = 1
      <4>1. p = Packet(b, "outcome", 0) /\ IsEvent(p) /\ ~Wanted(p) /\ p.from = b
           /\ p.kind = "outcome"
        BY <1>0, <2>4, <2>5, <3>1 DEF Packet, IsEvent, Wanted
      <4>2. CASE events' = Append(events, p)
        <5>1. Len(events') = Len(events) + 1 /\ events'[Len(events) + 1] = p
          <6> HIDE DEF p
          <6> QED BY <2>3, <2>4, <4>2, AppendProperties
        <5>2. Len(events) + 1 \in 1..Len(events')
          BY <2>3, <5>1
        <5> HIDE DEF p
        <5> QED BY <4>1, <5>1, <5>2 DEF Accounted
      <4>3. CASE dropped' = dropped \union {c \in {p.from} : p.kind = "outcome"}
        BY <4>1, <4>3 DEF Accounted
      <4> QED BY <2>2, <4>1, <4>2, <4>3
    <3>2. CASE i # 1
      <4>1. i - 1 \in 1..Len(Tail(wire)) /\ (i - 1) + 1 = i
        <5>1. Len(wire) \in Nat
          BY DEF ClientInvariant, StreamShape
        <5> QED BY <2>1, <3>2, <5>1, HeadOfWire
      <4>2. wire'[i - 1] = Packet(b, "outcome", 0)
        BY <2>1, <2>5, <4>1, HeadOfWire
      <4> QED BY <2>1, <4>1, <4>2 DEF Accounted
    <3> QED BY <3>1, <3>2
  <2>6. ASSUME NEW i \in 1..Len(events), events[i] = Packet(b, "outcome", 0)
        PROVE  Accounted(b)'
    <3>1. i \in 1..Len(events') /\ events'[i] = events[i]
      <4>1. CASE events' = Append(events, p)
        <5> HIDE DEF p
        <5> QED BY <2>3, <2>4, <4>1, AppendProperties
      <4> QED BY <2>2, <4>1
    <3> QED BY <2>6, <3>1 DEF Accounted
  <2>7. CASE b \in heard \union dropped
    BY <2>1, <2>2, <2>7 DEF Accounted
  <2>8. Told(b)' => Told(b)
    BY <2>1 DEF Told
  <2> QED BY <2>5, <2>6, <2>7, <2>8 DEF Accounted
<1>9. ASSUME NEW a \in Callers, Send(a) PROVE Told(b)' => Accounted(b)'
  <2>0. PICK p \in {reply[a][sent[a] + 1]} : p = reply[a][sent[a] + 1]
    OBVIOUS
  <2>1. PICK n \in Nat :
          /\ n = sent[a] + 1 /\ p = reply[a][n] /\ n \in 1..Len(reply[a])
          /\ sent' = [sent EXCEPT ![a] = n] /\ wire' = Append(wire, p)
          /\ UNCHANGED <<run, live, sess, reply, events, heard, dropped>>
    <3>1. sent[a] \in Nat /\ sent[a] < Len(reply[a]) /\ Len(reply[a]) \in Nat
      BY <1>9 DEF Send, ClientInvariant, AnswerShape
    <3>2. sent[a] + 1 \in Nat /\ sent[a] + 1 \in 1..Len(reply[a])
      BY <3>1
    <3> QED BY <1>9, <2>0, <3>2 DEF Send
  <2>2. reply[a] \in Answers(a)
    <3>1. reply[a] # <<>>
      BY <2>1
    <3> QED BY <3>1 DEF ClientInvariant, AnswerShape, Asked
  <2>3. p \in Packets /\ (a \notin Lists /\ n = 2 => p = Packet(a, "outcome", 0))
    BY <2>1, <2>2, AnswerPlaces
  <2>4. wire \in Seq(Packets) /\ Len(wire) \in Nat /\ sent \in [Callers -> Nat]
    <3>1. wire \in Seq(Packets)
      BY DEF ClientInvariant, StreamShape
    <3>2. sent \in [Callers -> Nat]
      BY DEF ClientInvariant, AnswerShape
    <3> QED BY <3>1, <3>2, LenProperties
  <2>5. /\ Len(wire') = Len(wire) + 1 /\ wire'[Len(wire) + 1] = p
        /\ \A i \in 1..Len(wire) : wire'[i] = wire[i]
    BY <2>1, <2>3, <2>4, AppendProperties
  <2>6. CASE b = a
    <3>1. Len(wire) + 1 \in 1..Len(wire')
      BY <2>4, <2>5
    <3>2. Told(b)' => n = 2
      BY <2>1, <2>4, <2>6 DEF Told
    <3> QED BY <1>0, <2>3, <2>5, <2>6, <3>1, <3>2 DEF Accounted
  <2>7. CASE b # a
    <3>1. Told(b)' => Told(b)
      BY <2>1, <2>4, <2>7 DEF Told
    <3>2. \A i \in 1..Len(wire) : i \in 1..Len(wire') /\ wire'[i] = wire[i]
      BY <2>4, <2>5
    <3> QED BY <2>1, <3>1, <3>2 DEF Accounted
  <2> QED BY <2>6, <2>7
<1> QED
  BY <1>2, <1>3, <1>4, <1>5, <1>6, <1>7, <1>8, <1>9 DEF Next, Reader, Caller, Local

----------------------------------------------------------------------------
(* The invariant and the theorems.                                         *)

AnswerInvariant == ClientInvariant /\ StreamInvariant /\ \A a \in Callers : Exact(a)

\* Nothing is under way at the start.
LEMMA AnswerInit == ASSUME ClientAssumption, Init PROVE AnswerInvariant
<1>1. \A a \in Callers : Taken(a) = 0 /\ sent[a] = 0 /\ reply[a] = <<>>
     /\ got[a] = <<>> /\ inbox[a] = <<>>
  BY DEF Init, Taken
<1>2. StreamInvariant
  BY <1>1 DEF Init, StreamInvariant, Counted, WireInOrder, HandFirst
<1>3. \A a \in Callers : Exact(a)
  BY <1>1 DEF Init, Exact, Unbroken, InOrder, Whole, Listening
<1> QED BY <1>2, <1>3, ClientInit DEF AnswerInvariant

\* The three parts together are inductive.
LEMMA AnswerStep ==
  ASSUME ClientAssumption, AnswerInvariant, [Next]_vars
  PROVE  AnswerInvariant'
<1>1. ClientInvariant'
  BY ConnectionKeepsShape, LocalKeepsShape, EndWriteKeepsShape, TakeKeepsShape,
     SendKeepsShape DEF AnswerInvariant, Next, Caller, Local
<1>2. StreamInvariant'
  BY <1>1, StreamStep DEF AnswerInvariant
<1>3. \A a \in Callers : Exact(a)'
  BY <1>1, ExactStep DEF AnswerInvariant
<1> QED BY <1>1, <1>2, <1>3 DEF AnswerInvariant

\* They hold of every behaviour.
LEMMA AnswersStay == Spec => []AnswerInvariant
<1>1. Init => AnswerInvariant
  BY ClientAssumption, AnswerInit
<1>2. AnswerInvariant /\ [Next]_vars => AnswerInvariant'
  BY ClientAssumption, AnswerStep
<1> QED BY <1>1, <1>2, PTL DEF Spec

\* The part of an answer that is its caller's own, by its length.
LEMMA OwnIsOwnLength ==
  ASSUME ClientAssumption, NEW a \in Callers, reply[a] \in Answers(a)
  PROVE  /\ OwnLength(a, reply[a]) \in 1..Len(reply[a])
         /\ Own(a) = SubSeq(reply[a], 1, OwnLength(a, reply[a]))
<1>1. PICK r \in Answers(a), n \in Nat : r = reply[a] /\ n = Len(r) /\ n # 0
  BY AnswerPlaces
<1>2. /\ r[n].kind = "outcome" <=> a \notin Lists /\ n = 2
      /\ a \notin Lists => n <= 2
  <2>1. n \in 1..Len(r)
    BY <1>1
  <2>2. /\ r[n].kind = "outcome" <=> a \notin Lists /\ n = 2
    BY <2>1, AnswerPlaces
  <2>3. a \notin Lists => Len(r) <= 2
    BY AnswerPlaces
  <2> QED BY <1>1, <2>2, <2>3
<1>3. OwnLength(a, r) = (IF r[n].kind = "outcome" THEN n - 1 ELSE n)
     /\ OwnLength(a, r) \in 1..n
  <2>1. CASE a \in Lists
    BY <1>1, <1>2, <2>1 DEF OwnLength
  <2>2. CASE a \notin Lists
    <3>0. n \in Nat /\ n # 0 /\ n <= 2
      BY <1>1, <1>2, <2>2
    <3>1. n = 1 \/ n = 2
      BY <3>0
    <3>2. (r[n].kind = "outcome") = (n = 2)
      BY <1>2, <2>2
    <3>3. OwnLength(a, r) = 1
      BY <2>2 DEF OwnLength
    <3>4. 1 = (IF n = 2 THEN n - 1 ELSE n) /\ 1 \in 1..n
      BY <3>1
    <3> QED BY <3>2, <3>3, <3>4
  <2> QED BY <2>1, <2>2
<1>4. n > 0
  BY <1>1
<1>5. Own(a) = SubSeq(r, 1, IF n > 0 /\ r[n].kind = "outcome" THEN n - 1 ELSE n)
  BY <1>1 DEF Own
<1> QED BY <1>1, <1>3, <1>4, <1>5

\* While its session is open, an action that returns with an answer has consumed
\* exactly its own packets, all of them and in order, however Asterisk mixes the
\* answers and however callers come and go (route, lookup and consume).
THEOREM AnswersAreWhole == Spec => []AnsweredInFull
<1>1. AnswerInvariant => AnsweredInFull
  <2> SUFFICES ASSUME AnswerInvariant, NEW a \in Callers,
                      result[a] \in {"ok", "rejected"},
                      a \notin Lists \/ sess[a] \notin closed
               PROVE  got[a] = Own(a)
    BY DEF AnsweredInFull
  <2>1. /\ reply[a] \in Answers(a) /\ Len(got[a]) = OwnLength(a, reply[a])
        /\ \A k \in 1..Len(got[a]) : got[a][k] = reply[a][k]
        /\ got[a] \in Seq(Packets) /\ reply[a] \in Seq(Packets)
    BY DEF AnswerInvariant, Exact, Whole, InOrder, ClientInvariant, AnswerShape, Asked
  <2> DEFINE m == OwnLength(a, reply[a])
  <2>2. m \in 1..Len(reply[a]) /\ Own(a) = SubSeq(reply[a], 1, m)
    BY <2>1, ClientAssumption, OwnIsOwnLength
  <2> HIDE DEF m
  <2>3. m \in Nat /\ m >= 1 /\ Len(reply[a]) \in Nat /\ m <= Len(reply[a])
    BY <2>1, <2>2
  <2>4. /\ Own(a) \in Seq(Packets) /\ Len(Own(a)) = m
        /\ \A k \in 1..m : Own(a)[k] = reply[a][k]
    <3>1. \A k \in 1..m : k \in 1..Len(reply[a])
      BY <2>3
    <3> QED BY <2>1, <2>2, <2>3, <3>1
  <2>5. Len(got[a]) = m
    BY <2>1 DEF m
  <2> QED BY <2>1, <2>4, <2>5, SeqEqual
<1> QED BY AnswersStay, <1>1, PTL

\* The outcome of an Originate is never swallowed by the action that started it:
\* it is under way, in Client.events, taken from there or dropped for want of
\* room (Wanted in route: only list actions take events).
THEOREM OutcomesReachTheStream == Spec => []OutcomesAreEvents
<1> DEFINE Inv == ClientInvariant /\ \A b \in Originates : Told(b) => Accounted(b)
<1>1. Init => Inv
  BY ClientAssumption, ClientInit DEF Init, Told, ClientAssumption
<1>2. AnswerInvariant /\ AnswerInvariant' /\ Inv /\ [Next]_vars => Inv'
  BY ClientAssumption, OutcomeStep DEF AnswerInvariant
<1>3. Inv => OutcomesAreEvents
  BY DEF OutcomesAreEvents, Told, Accounted
<1> QED BY AnswersStay, <1>1, <1>2, <1>3, PTL DEF Spec

\* No caller is told that it was disconnected when the packet that ends its
\* answer was already in its queue: it drains the queue first (Client.do).
THEOREM ReturnsAnswers == Spec => DeliveredAnswerCounts
<1>1. ASSUME ClientInvariant, [Next]_vars, NEW a \in Callers,
             result[a] = "none" /\ result'[a] = "disconnected"
      PROVE  ~Finished(a, got[a] \o inbox[a])
  <2>1. result \in [Callers -> Results]
    BY <1>1 DEF ClientInvariant, CallerShape
  <2>2. PICK b \in Callers : Register(b) \/ RefusedAtGate(b) \/ Drained(b)
                             \/ Begin(b) \/ CannotEncode(b) \/ WriteFails(b)
                                  \/ WriteReturns(b) \/ Take(b) \/ TimesOut(b)
    BY <1>1 DEF Next, Reader, Caller, Connect, GiveUp, Read, Deliver, Discard,
       ReadFails, ClearSession, CloseSession, Break, Consume, Send, StartWrite,
       EndWrite, SeesClosed, Unregister, Expire, callerFrame, vars, readerVars
  <2>3. b = a /\ (Register(a) \/ RefusedAtGate(a) \/ Drained(a))
    BY <1>1, <2>1, <2>2 DEF Register, RefusedAtGate, Drained, Begin, CannotEncode,
       WriteFails, WriteReturns, Take, TimesOut, Leave
  <2>4. CASE Register(a) \/ RefusedAtGate(a)
    <3>1. reply[a] = <<>>
      BY <1>1, <2>4 DEF Register, RefusedAtGate, ClientInvariant, AnswerShape,
         Asked, Early
    <3>2. got[a] = <<>> /\ inbox[a] = <<>>
      BY <1>1, <3>1 DEF ClientInvariant, AnswerShape, Asked
    <3>3. got[a] \o inbox[a] = <<>> /\ Len(<<>>) = 0
      BY <3>2
    <3> QED BY <3>3 DEF Finished
  <2>5. CASE Drained(a)
    <3>1. inbox[a] = <<>> /\ pc[a] = "draining"
      BY <2>5 DEF Drained
    <3>2. got[a] \in Seq(Packets) /\ \A i \in 1..Len(got[a]) : ~Complete(a, got[a][i])
      BY <1>1, <3>1 DEF ClientInvariant, AnswerShape, Unfinished
    <3>3. got[a] \o inbox[a] = got[a]
      BY <3>1, <3>2, ConcatEmptySeq
    <3> QED BY <3>2, <3>3 DEF Finished
  <2> QED BY <2>3, <2>4, <2>5
<1>2. AnswerInvariant /\ [Next]_vars
        => [\A a \in Callers :
              result[a] = "none" /\ result'[a] = "disconnected"
                => ~Finished(a, got[a] \o inbox[a])]_vars
  BY <1>1 DEF AnswerInvariant
<1> QED BY AnswersStay, <1>2, PTL DEF Spec, DeliveredAnswerCounts

\* Every variable keeps its type and every queue its bound, for any number of
\* callers, connections and queue sizes (pending.ch and Client.events are
\* buffered channels; a caller is registered from register to unregister).
THEOREM ClientTypeCorrect == Spec => []TypeOK
<1>1. SocketInvariant /\ AnswerInvariant => TypeOK
  <2> SUFFICES ASSUME SocketInvariant, AnswerInvariant PROVE TypeOK
    OBVIOUS
  <2>1. socket \in Seq([from : Callers, whole : BOOLEAN])
    BY DEF SocketInvariant, SocketTypes, Written
  <2>2. /\ ConnectionShape /\ StreamShape /\ CallerShape /\ AnswerShape
        /\ \A a \in Callers : Asked(a)
    BY DEF AnswerInvariant, ClientInvariant, AnswerShape
  <2> QED
    BY <2>1, <2>2 DEF TypeOK, ConnectionShape, StreamShape, CallerShape,
       AnswerShape, Asked
<1>2. SocketInvariant /\ [Next]_vars => SocketInvariant'
  BY ClientAssumption, CallerStep, ConnectionStep DEF Next
<1> QED
  BY SocketInit, AnswersStay, <1>1, <1>2, PTL DEF Spec
=============================================================================
