------------------------------ MODULE RosterProofs ------------------------------
(***************************************************************************)
(* RosterMatchesConference and OneRowPerCall for any number of calls, any  *)
(* queue, any users and any faults.                                        *)
(*                                                                         *)
(* A roster and the events not yet applied to it always say together who   *)
(* is in the conference: a call the events are silent about is in the      *)
(* roster exactly if it is in the conference (Correct), and of the others  *)
(* the last event that concerns it says where it is (LastWord).  Both are  *)
(* claimed of the roster and the events after outdated, and, while a List  *)
(* is under way, of its answer and the events after boundary.  Taking an   *)
(* event, dropping an outdated one, replacing the roster and moving the    *)
(* boundary all trade one of the two for the other.                        *)
(***************************************************************************)
EXTENDS RunProofs

\* e says whether c is in the conference.
Concerns(e, c) == e.kind \in {"start", "end"} \/ (e.kind \in {"join", "leave"} /\ e.call = c)

\* Nothing after the first n elements of q concerns c.
Silent(q, n, c) == \A i \in (n + 1)..Len(q) : ~Concerns(q[i], c)

\* The last event after the first n of q that concerns c is a join exactly if
\* inside says so.
LastWord(q, n, c, inside) ==
  \A i \in (n + 1)..Len(q) :
    Concerns(q[i], c) /\ Silent(q, i, c) => (q[i].kind = "join" <=> inside)

\* What one element says.
Says(e, c, inside) == Concerns(e, c) => (e.kind = "join" <=> inside)

\* A longer queue: the newer part has the last word if it has any.
LEMMA QueueGrows ==
  ASSUME NEW S, NEW q \in Seq(S), NEW more \in Seq(S), NEW n \in 0..Len(q), NEW c, NEW inside
  PROVE  /\ Silent(q \o more, n, c) <=> Silent(q, n, c) /\ Silent(more, 0, c)
         /\ LastWord(more, 0, c, inside) /\ (Silent(more, 0, c) => LastWord(q, n, c, inside))
              => LastWord(q \o more, n, c, inside)
<1> DEFINE r == q \o more
<1>1. /\ Len(q) \in Nat /\ Len(more) \in Nat /\ Len(r) = Len(q) + Len(more)
      /\ \A i \in 1..Len(q) : r[i] = q[i]
      /\ \A i \in 1..Len(more) : r[Len(q) + i] = more[i]
  BY ConcatProperties, LenProperties
<1> HIDE DEF r
<1>2. ASSUME NEW k \in 0..Len(q)
      PROVE  Silent(r, k, c) <=> Silent(q, k, c) /\ Silent(more, 0, c)
  <2>1. ASSUME Silent(r, k, c) PROVE Silent(q, k, c) /\ Silent(more, 0, c)
    <3>1. ASSUME NEW i \in (k + 1)..Len(q) PROVE ~Concerns(q[i], c)
      <4>1. i \in (k + 1)..Len(r) /\ i \in 1..Len(q)
        BY <1>1
      <4> QED BY <1>1, <2>1, <4>1 DEF Silent
    <3>2. ASSUME NEW i \in (0 + 1)..Len(more) PROVE ~Concerns(more[i], c)
      <4>1. Len(q) + i \in (k + 1)..Len(r) /\ i \in 1..Len(more)
        BY <1>1
      <4> QED BY <1>1, <2>1, <4>1 DEF Silent
    <3> QED BY <3>1, <3>2 DEF Silent
  <2>2. ASSUME Silent(q, k, c), Silent(more, 0, c), NEW i \in (k + 1)..Len(r)
        PROVE  ~Concerns(r[i], c)
    <3>1. CASE i <= Len(q)
      <4>1. i \in (k + 1)..Len(q) /\ i \in 1..Len(q)
        BY <3>1
      <4> QED BY <1>1, <2>2, <4>1 DEF Silent
    <3>2. CASE i > Len(q)
      <4>1. i - Len(q) \in (0 + 1)..Len(more) /\ i - Len(q) \in 1..Len(more)
            /\ Len(q) + (i - Len(q)) = i
        BY <1>1, <3>2
      <4> QED BY <1>1, <2>2, <4>1 DEF Silent
    <3> QED BY <1>1, <3>1, <3>2
  <2> QED BY <2>1, <2>2 DEF Silent
<1>3. ASSUME LastWord(more, 0, c, inside), Silent(more, 0, c) => LastWord(q, n, c, inside),
             NEW i \in (n + 1)..Len(r), Concerns(r[i], c), Silent(r, i, c)
      PROVE  r[i].kind = "join" <=> inside
  <2>1. CASE i <= Len(q)
    <3>1. i \in (n + 1)..Len(q) /\ i \in 0..Len(q) /\ i \in 1..Len(q)
      BY <2>1
    <3>2. Silent(q, i, c) /\ Silent(more, 0, c)
      BY <1>2, <1>3, <3>1
    <3> QED BY <1>1, <1>3, <3>1, <3>2 DEF LastWord
  <2>2. CASE i > Len(q)
    <3> DEFINE j == i - Len(q)
    <3>1. j \in (0 + 1)..Len(more) /\ j \in 1..Len(more) /\ Len(q) + j = i /\ j \in Nat
      <4>1. i \in Int /\ i <= Len(r) /\ Len(q) \in Int /\ Len(more) \in Int
            /\ Len(r) = Len(q) + Len(more)
        BY <1>1
      <4> QED BY <2>2, <4>1
    <3> HIDE DEF j
    <3>2. Silent(more, j, c)
      <4>1. ASSUME NEW k \in (j + 1)..Len(more) PROVE ~Concerns(more[k], c)
        <5>1. Len(q) + k \in (i + 1)..Len(r) /\ k \in 1..Len(more)
          BY <1>1, <3>1
        <5> QED BY <1>1, <1>3, <5>1 DEF Silent
      <4> QED BY <4>1 DEF Silent
    <3>3. r[i] = more[j]
      BY <1>1, <3>1
    <3> QED BY <1>3, <3>1, <3>2, <3>3 DEF LastWord
  <2> QED BY <1>1, <2>1, <2>2
<1> QED
  BY <1>2, <1>3 DEF r, LastWord

\* A queue whose oldest element is taken.
LEMMA QueueShrinks ==
  ASSUME NEW S, NEW q \in Seq(S), q # <<>>, NEW n \in 0..Len(q), NEW c, NEW inside,
         LastWord(q, n, c, inside)
  PROVE  /\ n > 0 => /\ LastWord(Tail(q), n - 1, c, inside)
                     /\ Silent(Tail(q), n - 1, c) => Silent(q, n, c)
         /\ n = 0 => /\ LastWord(Tail(q), 0, c, inside)
                     /\ Silent(Tail(q), 0, c) => Says(Head(q), c, inside)
                     /\ Silent(Tail(q), 0, c) /\ ~Concerns(Head(q), c) => Silent(q, 0, c)
<1> DEFINE t == Tail(q)
<1>1. /\ Len(q) \in Nat /\ Len(q) > 0 /\ Len(t) = Len(q) - 1
      /\ Head(q) = q[1] /\ \A i \in 1..Len(t) : t[i] = q[i + 1]
  BY HeadTailProperties, EmptySeq, LenProperties
<1> HIDE DEF t
<1>2. ASSUME NEW k \in 0..Len(t) PROVE Silent(t, k, c) <=> Silent(q, k + 1, c)
  <2>1. ASSUME Silent(t, k, c), NEW i \in (k + 1 + 1)..Len(q) PROVE ~Concerns(q[i], c)
    <3>1. i - 1 \in (k + 1)..Len(t) /\ i - 1 \in 1..Len(t) /\ (i - 1) + 1 = i
      BY <1>1
    <3> QED BY <1>1, <2>1, <3>1 DEF Silent
  <2>2. ASSUME Silent(q, k + 1, c), NEW i \in (k + 1)..Len(t) PROVE ~Concerns(t[i], c)
    <3>1. i + 1 \in (k + 1 + 1)..Len(q) /\ i \in 1..Len(t)
      BY <1>1
    <3> QED BY <1>1, <2>2, <3>1 DEF Silent
  <2> QED BY <2>1, <2>2 DEF Silent
<1>3. ASSUME NEW k \in 0..Len(t), n <= k + 1, NEW i \in (k + 1)..Len(t),
             Concerns(t[i], c), Silent(t, i, c)
      PROVE  t[i].kind = "join" <=> inside
  <2>1. i \in 0..Len(t) /\ i \in 1..Len(t) /\ i + 1 \in (n + 1)..Len(q)
    BY <1>1, <1>3
  <2>2. Silent(q, i + 1, c) /\ t[i] = q[i + 1]
    BY <1>1, <1>2, <1>3, <2>1
  <2> QED BY <1>3, <2>1, <2>2 DEF LastWord
<1>4. CASE n > 0
  <2>1. n - 1 \in 0..Len(t) /\ n <= (n - 1) + 1 /\ (n - 1) + 1 = n
    BY <1>1, <1>4
  <2>2. LastWord(t, n - 1, c, inside)
    BY <1>3, <2>1 DEF LastWord
  <2>3. Silent(t, n - 1, c) => Silent(q, n, c)
    BY <1>2, <2>1
  <2> QED BY <1>4, <2>2, <2>3 DEF t
<1>5. CASE n = 0
  <2>1. 0 \in 0..Len(t) /\ n <= 0 + 1 /\ 1 \in (0 + 1)..Len(q) /\ 0 + 1 = 1
    BY <1>1, <1>5
  <2>2. LastWord(t, 0, c, inside)
    BY <1>3, <2>1 DEF LastWord
  <2>3. Silent(t, 0, c) => Silent(q, 1, c)
    BY <1>2, <2>1
  <2>4. Silent(t, 0, c) => Says(q[1], c, inside)
    BY <1>5, <2>1, <2>3 DEF LastWord, Says
  <2>5. ASSUME Silent(t, 0, c), ~Concerns(q[1], c), NEW i \in (0 + 1)..Len(q)
        PROVE  ~Concerns(q[i], c)
    <3>1. i = 1 \/ i \in (1 + 1)..Len(q)
      BY <1>1
    <3> QED BY <2>3, <2>5, <3>1 DEF Silent
  <2>6. Silent(t, 0, c) /\ ~Concerns(q[1], c) => Silent(q, 0, c)
    BY <2>5 DEF Silent
  <2> QED BY <1>1, <1>5, <2>2, <2>4, <2>6 DEF t
<1> QED
  BY <1>4, <1>5

\* What one packet says, and what two say: the second has the last word.
LEMMA BatchesSay ==
  ASSUME NEW c, NEW inside, NEW e, NEW f
  PROVE  /\ Silent(<<e>>, 0, c) <=> ~Concerns(e, c)
         /\ Says(e, c, inside) => LastWord(<<e>>, 0, c, inside)
         /\ Silent(<<e, f>>, 0, c) <=> ~Concerns(e, c) /\ ~Concerns(f, c)
         /\ Says(f, c, inside) /\ (~Concerns(f, c) => Says(e, c, inside))
              => LastWord(<<e, f>>, 0, c, inside)
<1>1. /\ Len(<<e>>) = 1 /\ <<e>>[1] = e
      /\ Len(<<e, f>>) = 2 /\ <<e, f>>[1] = e /\ <<e, f>>[2] = f
  OBVIOUS
<1>2. \A i : (i \in (0 + 1)..1 <=> i = 1) /\ (i \in (0 + 1)..2 <=> (i = 1 \/ i = 2))
             /\ (i \in (1 + 1)..2 <=> i = 2)
  OBVIOUS
<1> QED
  BY <1>1, <1>2 DEF Silent, LastWord, Says

\* A packet that was not lost is at the end of the queue.
LEMMA Delivered ==
  ASSUME LinkAssumption, LinkTyped, NEW batch \in Seq(Event), Send(batch), missed' # "since"
  PROVE  events' = events \o batch /\ missed' = missed
<1> DEFINE room == QueueCapacity - Len(events)
           kept == IF Len(batch) <= room THEN Len(batch) ELSE room
<1>1. link /\ events' = events \o SubSeq(batch, 1, kept)
      /\ missed' = IF kept < Len(batch) THEN "since" ELSE missed
  BY DEF Send
<1>2. Len(batch) \in Nat /\ Len(events) \in Nat /\ QueueCapacity \in Nat
  BY LenProperties DEF LinkTyped, LinkAssumption
<1>3. kept = Len(batch)
  BY <1>1, <1>2
<1>4. SubSeq(batch, 1, Len(batch)) = batch
  OBVIOUS
<1> QED
  BY <1>1, <1>3, <1>4

\* A call in the conference is one of members, and no other is; of one that has
\* been kicked and not left yet, nothing is said.
Correct(members, c) == channel[c] # "leaving" => (c \in members <=> channel[c] = "joined")

\* What the events after the first n, with members before them, say of c.
Known(n, members, c) ==
  LastWord(events, n, c, c \in Members) /\ (Silent(events, n, c) => Correct(members, c))

\* The roster to which the queue still applies.
Basis == IF list.pc = "forgotten" THEN list.found ELSE roster

\* A roster in the making, and the one in use, are corrected by the queue.
Tracked(c) ==
  /\ missed = "none" => Known(outdated, Basis, c)
  /\ missed # "since" /\ list.pc = "answered" => Known(boundary, list.found, c)
  /\ missed # "since" /\ list.pc = "asked" => LastWord(events, boundary, c, c \in Members)
  /\ kick[c] = "ok" => channel[c] \in {"leaving", "left", "gone"}

RosterInvariant == \A c \in Calls : Tracked(c)

\* The packets that go with a step of the channels report where c has gone; those
\* that do not concern it go with a step that keeps it where it is.
Reports(batch, c) ==
  /\ LastWord(batch, 0, c, c \in Members')
  /\ Silent(batch, 0, c) => /\ c \in Members' <=> c \in Members
                            /\ channel'[c] = "joined" <=> channel[c] = "joined"

\* Packets that report what they should keep what is known.
LEMMA KnownGrows ==
  ASSUME LinkTyped, NEW n \in 0..Len(events), NEW c \in Calls, NEW batch \in Seq(Event),
         events' = events \o batch, LastWord(events, n, c, c \in Members), Reports(batch, c)
  PROVE  /\ LastWord(events', n, c, c \in Members')
         /\ Silent(events', n, c) => /\ Silent(events, n, c)
                                     /\ c \in Members' <=> c \in Members
                                     /\ channel'[c] = "joined" <=> channel[c] = "joined"
<1> DEFINE inside == c \in Members'
<1>1. Silent(batch, 0, c) => LastWord(events, n, c, inside)
  BY DEF LastWord, Reports
<1>2. LastWord(batch, 0, c, inside)
  BY DEF Reports
<1> HIDE DEF inside
<1>3. events \in Seq(Event)
  BY DEF LinkTyped
<1>4. /\ LastWord(events', n, c, inside)
      /\ Silent(events', n, c) => Silent(events, n, c) /\ Silent(batch, 0, c)
  BY <1>1, <1>2, <1>3, QueueGrows
<1> QED
  BY <1>4 DEF inside, Reports

\* A step of the channels, reported by the packets sent with it.
LEMMA Reported ==
  ASSUME Assumptions, LinkTyped, Queued, RosterInvariant,
         UNCHANGED <<roster, outdated, boundary, list>>,
         NEW batch \in Seq(Event), Send(batch), \A c \in Calls : Reports(batch, c),
         \A c \in Calls : /\ kick'[c] = "ok" => kick[c] = "ok"
                          /\ channel[c] \in {"leaving", "left", "gone"}
                               => channel'[c] \in {"leaving", "left", "gone"}
  PROVE  RosterInvariant'
<1> SUFFICES ASSUME NEW c \in Calls PROVE Tracked(c)'
  BY DEF RosterInvariant
<1>a. LinkAssumption
  BY DEF Assumptions
<1>t. Tracked(c) /\ Basis' = Basis /\ Reports(batch, c)
  BY DEF RosterInvariant, Basis
<1>k. kick'[c] = "ok" => channel'[c] \in {"leaving", "left", "gone"}
  BY <1>t DEF Tracked
<1>1. CASE missed' = "since"
  BY <1>k, <1>1 DEF Tracked
<1>2. CASE missed' # "since"
  <2>1. events' = events \o batch /\ missed' = missed
    BY <1>a, <1>2, Delivered
  <2>2. ASSUME NEW n \in 0..Len(events), LastWord(events, n, c, c \in Members)
        PROVE  /\ LastWord(events', n, c, c \in Members')
               /\ Silent(events', n, c) => /\ Silent(events, n, c)
                                           /\ c \in Members' <=> c \in Members
                                           /\ channel'[c] = "joined" <=> channel[c] = "joined"
    BY <1>t, <2>1, <2>2, KnownGrows
  <2>m. channel'[c] = "leaving" <=> (c \in Members' /\ channel'[c] # "joined")
    BY DEF Members
  <2>n. channel[c] = "leaving" <=> (c \in Members /\ channel[c] # "joined")
    BY DEF Members
  <2>3. ASSUME NEW n \in 0..Len(events), NEW members, Known(n, members, c)
        PROVE  Known(n, members, c)'
    BY <2>2, <2>3, <2>m, <2>n DEF Known, Correct
  <2>4. outdated \in 0..Len(events) /\ boundary \in 0..Len(events)
    BY DEF Queued
  <2> QED BY <1>t, <1>k, <2>1, <2>2, <2>3, <2>4 DEF Tracked, Known, Correct
<1> QED
  BY <1>1, <1>2

\* Nobody comes or goes: what is known stays known.
LEMMA Unreported ==
  ASSUME RosterInvariant, UNCHANGED <<events, missed, outdated, boundary, roster>>,
         list'.found = list.found,
         list'.pc = list.pc \/ (list.pc = "asked" /\ list'.pc = "broken"),
         \A c \in Calls :
           /\ c \in Members' <=> c \in Members
           /\ channel'[c] = "joined" => channel[c] = "joined"
           /\ channel[c] \in {"leaving", "left", "gone"} => channel'[c] \in {"leaving", "left", "gone"}
           /\ kick'[c] = "ok" => kick[c] = "ok" \/ channel'[c] = "leaving"
  PROVE  RosterInvariant'
<1> SUFFICES ASSUME NEW c \in Calls PROVE Tracked(c)'
  BY DEF RosterInvariant
<1>1. /\ c \in Members' <=> c \in Members
      /\ channel'[c] = "joined" => channel[c] = "joined"
      /\ kick'[c] = "ok" => channel'[c] \in {"leaving", "left", "gone"}
      /\ Tracked(c)
  BY DEF RosterInvariant, Tracked
<1>2. /\ channel'[c] = "leaving" <=> (c \in Members' /\ channel'[c] # "joined")
      /\ channel[c] = "leaving" <=> (c \in Members /\ channel[c] # "joined")
      /\ channel[c] = "joined" => c \in Members
      /\ channel'[c] = "joined" => c \in Members'
  BY DEF Members
<1>3. ASSUME NEW n, LastWord(events, n, c, c \in Members)
      PROVE  LastWord(events', n, c, c \in Members')
  BY <1>1, <1>3 DEF LastWord
<1>4. ASSUME NEW members, Correct(members, c)
      PROVE  channel'[c] # "leaving" => (c \in members <=> channel'[c] = "joined")
  BY <1>1, <1>2, <1>4 DEF Correct
<1>5. /\ Basis' = Basis
      /\ list'.pc \in {"answered", "asked"} => list'.pc = list.pc
  BY DEF Basis
<1> QED
  BY <1>1, <1>3, <1>4, <1>5 DEF Tracked, Known, Correct

\* Packets about a call say nothing of the conference.
LEMMA FactsAreSilent ==
  ASSUME NEW batch \in Seq({e \in Event : e.kind \in Facts}), NEW c, NEW inside
  PROVE  Silent(batch, 0, c) /\ LastWord(batch, 0, c, inside)
<1>1. \A i \in (0 + 1)..Len(batch) : batch[i].kind \in Facts
  BY ElementOfSeq
<1>2. \A i \in (0 + 1)..Len(batch) : ~Concerns(batch[i], c)
  BY <1>1 DEF Concerns, Facts
<1> QED
  BY <1>2 DEF Silent, LastWord

\* Steps of a call outside the conference.
LEMMA OutsideMoves ==
  ASSUME Assumptions, LinkTyped, Queued, RosterInvariant, NEW c \in Calls,
         UNCHANGED <<roster, outdated, boundary>>,
         \/ Allocates(c) \/ AllocationFails(c) \/ DialFails(c) \/ Answers(c) \/ Ends(c)
         \/ (AsteriskHangsUp(c) /\ channel[c] \in {"ringing", "answered", "left"})
  PROVE  RosterInvariant'
<1> USE DEF LinkTyped
<1> DEFINE Quiet == {e \in Event : e.kind \in Facts}
<1>1. /\ Happens("channel", c) \in Quiet /\ Happens("answered", c) \in Quiet
      /\ \A cause \in DialFailures \union {"Connection failed"} :
           /\ Fact("originationFailed", c, cause) \in Quiet
           /\ Fact("ended", c, cause) \in Quiet /\ Fact("dialend", c, cause) \in Quiet
  BY DEF Facts, Happens, Fact, Event
<1>2. \A d, e, f \in Quiet :
        <<d>> \in Seq(Quiet) /\ <<d, e>> \in Seq(Quiet) /\ <<d, e, f>> \in Seq(Quiet)
  OBVIOUS
<1> HIDE DEF Quiet
<1>3. PICK batch \in Seq(Quiet) : Send(batch)
  <2>1. CASE DialFails(c)
    <3>1. PICK why \in DialFailures :
            \/ Send(<<Fact("dialend", c, why),
                      Fact("originationFailed", c, "Connection failed"),
                      Fact("ended", c, "Connection failed")>>)
            \/ Send(<<Fact("ended", c, "Connection failed"), Fact("dialend", c, why)>>)
      BY <2>1 DEF DialFails
    <3> QED BY <1>1, <1>2, <3>1
  <2>2. CASE Allocates(c) \/ AllocationFails(c) \/ Answers(c) \/ Ends(c)
    BY <1>1, <1>2, <2>2 DEF Allocates, AllocationFails, Answers, Ends
  <2>3. CASE AsteriskHangsUp(c) /\ channel[c] \in {"ringing", "answered", "left"}
    BY <1>1, <1>2, <2>3 DEF AsteriskHangsUp
  <2> QED BY <2>1, <2>2, <2>3
<1>4. UNCHANGED <<list, kick>>
  BY DEF Allocates, AllocationFails, DialFails, Answers, Ends, AsteriskHangsUp
<1>5. /\ \A d \in Calls : d # c => channel'[d] = channel[d]
      /\ channel[c] \notin {"joined", "leaving"} /\ channel'[c] \notin {"joined", "leaving"}
      /\ channel[c] \in {"left", "gone"} => channel'[c] = "gone"
  BY DEF Allocates, AllocationFails, DialFails, Answers, Ends, AsteriskHangsUp, Moves
<1>6. ASSUME NEW d \in Calls
      PROVE  Reports(batch, d)
  <2>1. LastWord(batch, 0, d, d \in Members')
    BY FactsAreSilent DEF Quiet
  <2>2. /\ d \in Members' <=> d \in Members
        /\ channel'[d] = "joined" <=> channel[d] = "joined"
    BY <1>5 DEF Members
  <2> QED BY <2>1, <2>2 DEF Reports
<1>7. batch \in Seq(Event)
  <2>1. Quiet \subseteq Event
    BY DEF Quiet
  <2> QED BY <2>1, LargerSeq
<1>8. \A d \in Calls : channel[d] \in {"leaving", "left", "gone"} => channel'[d] \in {"leaving", "left", "gone"}
  BY <1>5
<1> QED
  BY <1>3, <1>4, <1>6, <1>7, <1>8, Reported

\* A call joins or leaves: ConfbridgeStart comes before the first join, and
\* ConfbridgeEnd after the last leave.
LEMMA MemberMoves ==
  ASSUME Assumptions, LinkTyped, Queued, RosterInvariant, NEW c \in Calls,
         UNCHANGED <<roster, outdated, boundary>>, Joins(c) \/ Leaves(c)
  PROVE  RosterInvariant'
<1> USE DEF LinkTyped
<1> DEFINE s == Happens("start", c)
           j == Happens("join", c)
           l == Happens("leave", c)
           x == Happens("end", c)
<1>1. s \in Event /\ j \in Event /\ l \in Event /\ x \in Event
  BY DEF Happens, Fact, Event, Happenings
<1>2. \A d, e \in Event : <<d>> \in Seq(Event) /\ <<d, e>> \in Seq(Event)
  OBVIOUS
<1>3. /\ s.kind = "start" /\ j.kind = "join" /\ l.kind = "leave" /\ x.kind = "end"
      /\ j.call = c /\ l.call = c
  BY DEF Happens, Fact
<1> HIDE DEF s, j, l, x
<1>4. UNCHANGED <<list, kick>> /\ \A d \in Calls : d # c => channel'[d] = channel[d]
  BY DEF Joins, Leaves, Moves
<1>5. CASE Joins(c)
  <2>1. channel[c] = "answered" /\ channel'[c] = "joined"
    BY <1>5 DEF Joins, Moves
  <2>2. PICK batch \in Seq(Event) : /\ Send(batch)
                                    /\ batch = IF Members = {} THEN <<s, j>> ELSE <<j>>
    BY <1>1, <1>2, <1>5 DEF Joins, s, j
  <2>3. ASSUME NEW d \in Calls PROVE Reports(batch, d)
    <3>1. CASE d = c
      <4>1. Concerns(j, d) /\ Says(j, d, d \in Members') /\ d \in Members'
        BY <1>3, <2>1, <3>1 DEF Concerns, Says, Members
      <4>2. ~Silent(batch, 0, d)
        BY <2>2, <4>1, BatchesSay
      <4>3. LastWord(batch, 0, d, d \in Members')
        BY <2>2, <4>1, BatchesSay
      <4> QED BY <4>2, <4>3 DEF Reports
    <3>2. CASE d # c
      <4>1. ~Concerns(j, d) /\ (Members = {} => Says(s, d, d \in Members'))
        BY <1>3, <1>4, <3>2 DEF Concerns, Says, Members
      <4>2. LastWord(batch, 0, d, d \in Members')
        <5>1. Says(j, d, d \in Members')
          BY <4>1 DEF Says
        <5> QED BY <2>2, <4>1, <5>1, BatchesSay
      <4>3. /\ d \in Members' <=> d \in Members
            /\ channel'[d] = "joined" <=> channel[d] = "joined"
        BY <1>4, <3>2 DEF Members
      <4> QED BY <4>2, <4>3 DEF Reports
    <3> QED BY <3>1, <3>2
  <2>4. \A d \in Calls : channel[d] \in {"leaving", "left", "gone"} => channel'[d] \in {"leaving", "left", "gone"}
    BY <1>4, <2>1
  <2> QED BY <1>4, <2>2, <2>3, <2>4, Reported
<1>6. CASE Leaves(c)
  <2>1. channel[c] \in {"joined", "leaving"} /\ channel'[c] = "left"
    BY <1>6 DEF Leaves, Moves
  <2>2. PICK batch \in Seq(Event) : /\ Send(batch)
                                    /\ batch = IF Members = {c} THEN <<l, x>> ELSE <<l>>
    BY <1>1, <1>2, <1>6 DEF Leaves, l, x
  <2>3. ASSUME NEW d \in Calls PROVE Reports(batch, d)
    <3>1. CASE d = c
      <4>1. Concerns(l, d) /\ Says(l, d, d \in Members') /\ Says(x, d, d \in Members')
        BY <1>3, <2>1, <3>1 DEF Concerns, Says, Members
      <4>2. ~Silent(batch, 0, d)
        BY <2>2, <4>1, BatchesSay
      <4>3. LastWord(batch, 0, d, d \in Members')
        BY <2>2, <4>1, BatchesSay
      <4> QED BY <4>2, <4>3 DEF Reports
    <3>2. CASE d # c
      <4>1. ~Concerns(l, d) /\ (Members = {c} => Says(x, d, d \in Members'))
        BY <1>3, <1>4, <3>2 DEF Concerns, Says, Members
      <4>2. LastWord(batch, 0, d, d \in Members')
        <5>1. Says(l, d, d \in Members')
          BY <4>1 DEF Says
        <5> QED BY <2>2, <4>1, <5>1, BatchesSay
      <4>3. /\ d \in Members' <=> d \in Members
            /\ channel'[d] = "joined" <=> channel[d] = "joined"
        BY <1>4, <3>2 DEF Members
      <4> QED BY <4>2, <4>3 DEF Reports
    <3> QED BY <3>1, <3>2
  <2>4. \A d \in Calls : channel[d] \in {"leaving", "left", "gone"} => channel'[d] \in {"leaving", "left", "gone"}
    BY <1>4, <2>1
  <2> QED BY <1>4, <2>2, <2>3, <2>4, Reported
<1> QED
  BY <1>5, <1>6

\* Every step of Asterisk and of the connection keeps track of the roster.
LEMMA LinkTracks ==
  ASSUME Assumptions, Typed, RosterInvariant, Asterisk \/ ConnectionLost \/ ConnectionRestored
  PROVE  RosterInvariant'
<1> USE DEF Typed
<1>u. UNCHANGED <<roster, outdated, boundary>>
  BY EnvironmentTyped DEF serviceVars, ConnectionLost, ConnectionRestored, listVars
<1>1. ASSUME NEW c \in Calls,
             \/ Allocates(c) \/ AllocationFails(c) \/ DialFails(c) \/ Answers(c) \/ Ends(c)
             \/ Joins(c) \/ Leaves(c)
      PROVE  RosterInvariant'
  BY <1>u, <1>1, OutsideMoves, MemberMoves
<1>2. ASSUME NEW c \in Calls, AsteriskAccepts(c) \/ AsteriskRejects(c) \/ DeadlinePasses(c)
      PROVE  RosterInvariant'
  <2>1. /\ UNCHANGED <<events, missed, list, kick>>
        /\ \A d \in Calls : \/ channel'[d] = channel[d]
                            \/ channel[d] = "wire" /\ channel'[d] \in {"queued", "gone"}
    BY <1>2 DEF AsteriskAccepts, AsteriskRejects, DeadlinePasses, Moves, LinkTyped
  <2> QED BY <1>u, <2>1, Unreported DEF Members
<1>3. ASSUME NEW c \in Calls, AsteriskKicks(c) PROVE RosterInvariant'
  <2>1. /\ UNCHANGED <<events, missed, list>>
        /\ \A d \in Calls : \/ channel'[d] = channel[d]
                            \/ channel[d] \in {"joined", "leaving"} /\ channel'[d] = "leaving"
        /\ \A d \in Calls : kick'[d] = "ok" => kick[d] = "ok" \/ channel'[d] = "leaving"
    BY <1>3 DEF AsteriskKicks, LinkTyped
  <2> QED BY <1>u, <2>1, Unreported DEF Members
<1>4. ASSUME NEW c \in Calls, AsteriskHangsUp(c) PROVE RosterInvariant'
  <2>1. CASE channel[c] \in {"ringing", "answered", "left"}
    BY <1>4, <1>u, <2>1, OutsideMoves
  <2>2. CASE channel[c] \notin {"ringing", "answered", "left"}
    <3>1. /\ UNCHANGED <<events, missed, list, kick>>
          /\ \A d \in Calls : \/ channel'[d] = channel[d]
                              \/ channel[d] \in {"joined", "leaving"} /\ channel'[d] = "leaving"
      BY <1>4, <2>2 DEF AsteriskHangsUp, LinkTyped
    <3> QED BY <1>u, <3>1, Unreported DEF Members
  <2> QED BY <2>1, <2>2
<1>5. CASE RepliesList
  <2>1. /\ list.pc = "asked" /\ list'.pc = "answered" /\ list'.found = Members
        /\ UNCHANGED <<channel, events, missed, kick>>
    BY <1>5 DEF RepliesList, AsteriskLists
  <2>2. ASSUME NEW c \in Calls PROVE Tracked(c)'
    <3>1. Tracked(c) /\ Members' = Members /\ Basis' = Basis
      BY <2>1, <1>u DEF RosterInvariant, Members, Basis
    <3>2. Correct(Members, c)
      BY DEF Correct, Members
    <3> QED BY <2>1, <1>u, <3>1, <3>2 DEF Tracked, Known, Correct
  <2> QED BY <2>2 DEF RosterInvariant
<1>6. CASE ReplyLost
  <2>1. /\ UNCHANGED <<channel, events, missed>> /\ list'.found = list.found
        /\ list'.pc = list.pc \/ (list.pc = "asked" /\ list'.pc = "broken")
        /\ \A d \in Calls : kick'[d] = "ok" => kick[d] = "ok"
    BY <1>6 DEF ReplyLost, ReplyTimesOut, LinkTyped
  <2> QED BY <1>u, <2>1, Unreported DEF Members
<1>7. CASE ConnectionLost
  <2>1. /\ UNCHANGED <<events, missed>> /\ list'.found = list.found
        /\ list'.pc = list.pc \/ (list.pc = "asked" /\ list'.pc = "broken")
        /\ \A d \in Calls : kick'[d] = "ok" => kick[d] = "ok"
        /\ \A d \in Calls : \/ channel'[d] = channel[d]
                            \/ channel[d] = "wire" /\ channel'[d] \in {"queued", "gone"}
    BY <1>7 DEF ConnectionLost, LinkLost, LinkTyped
  <2> QED BY <1>u, <2>1, Unreported DEF Members
<1>8. CASE ConnectionRestored
  BY <1>8, <1>u, Unreported DEF ConnectionRestored, LinkRestored, Members
<1> QED
  BY <1>1, <1>2, <1>3, <1>4, <1>5, <1>6, <1>7, <1>8
     DEF Asterisk, Proceeds, Departs, ObeysHangup, ObeysKick, Lateness

\* Commands leave the roster alone, but for a kick that Asterisk has confirmed.
LEMMA CommandTracks ==
  ASSUME Assumptions, Typed, RosterInvariant, NEW c \in Calls, Command(c)
  PROVE  RosterInvariant'
<1> USE DEF Typed
<1>1. CASE \E old \in Calls \union {NoCall} : InviteStart(c, old)
  <2>1. /\ UNCHANGED <<events, missed, list, kick, roster, outdated, boundary>>
        /\ channel[c] = "none" /\ channel'[c] = "wire"
        /\ \A d \in Calls : d # c => channel'[d] = channel[d]
    BY <1>1 DEF InviteStart, LinkTyped, listVars
  <2> QED BY <2>1, Unreported DEF Members
<1>2. CASE \/ InviteFinish(c) \/ CancelDismiss(c) \/ CancelStart(c) \/ HangupFinish(c)
           \/ RetryStart(c) \/ RetryRefused(c) \/ RetryFinish(c) \/ KickStart(c)
  <2>1. /\ UNCHANGED <<channel, events, missed, list, roster, outdated, boundary>>
        /\ \A d \in Calls : kick'[d] = "ok" => kick[d] = "ok"
    BY <1>2 DEF InviteFinish, CancelDismiss, CancelStart, HangupFinish, RetryStart, RetryRefused,
                RetryFinish, KickStart, listVars, linkVars, serviceVars, LinkTyped
  <2> QED BY <2>1, Unreported DEF Members
<1>3. CASE KickFinish(c)
  <2>1. /\ UNCHANGED <<channel, events, missed, list, outdated, boundary>>
        /\ roster' \in {roster, roster \ {c}} /\ (roster' # roster => kick[c] = "ok")
        /\ \A d \in Calls : kick'[d] = "ok" => kick[d] = "ok"
    BY <1>3 DEF KickFinish, listVars, LinkTyped
  <2>2. ASSUME NEW d \in Calls PROVE Tracked(d)'
    <3>1. Tracked(d) /\ Tracked(c) /\ Members' = Members
      BY <2>1 DEF RosterInvariant, Members
    <3>2. Correct(Basis, d) => Correct(Basis, d)'
      <4>1. Basis' = Basis \/ (Basis' = Basis \ {c} /\ channel[c] \in {"leaving", "left", "gone"})
        BY <2>1, <3>1 DEF Basis, Tracked
      <4> QED BY <2>1, <4>1 DEF Correct
    <3>3. Correct(list.found, d) => Correct(list.found, d)'
      BY <2>1 DEF Correct
    <3> QED BY <2>1, <3>1, <3>2, <3>3 DEF Tracked, Known
  <2> QED BY <2>2 DEF RosterInvariant
<1> QED
  BY <1>1, <1>2, <1>3 DEF Command, Invite, RetryInvites

\* An event that is handled trades what the queue says for what the roster says.
LEMMA EventTracks ==
  ASSUME Assumptions, Typed, VerdictInvariant, RosterInvariant, HandleEvent
  PROVE  RosterInvariant'
<1> USE DEF Typed
<1>h. Takes
  BY DEF HandleEvent, HandleFact, HandleOutdated, HandleJoin, HandleLeave, HandleClear
<1> DEFINE e == Head(events)
<1>1. /\ events' = Tail(events) /\ events # <<>> /\ events \in Seq(Event) /\ list.pc = "idle"
      /\ outdated' = IF outdated > 0 THEN outdated - 1 ELSE 0
      /\ UNCHANGED <<channel, kick, list, missed, boundary>>
      /\ outdated \in 0..Len(events) /\ Len(events) \in Nat
  BY <1>h, LenProperties DEF Takes, LinkTyped, Queued, listVars
<1>2. e \in Told(channel)
  BY <1>h, Tails DEF Takes, VerdictInvariant, EventsAreTrue
<1> HIDE DEF e
<1>3. ASSUME NEW c \in Calls, missed = "none" PROVE Known(outdated, Basis, c)'
  <2> DEFINE inside == c \in Members
  <2>1. /\ LastWord(events, outdated, c, inside) /\ (Silent(events, outdated, c) => Correct(roster, c))
        /\ Basis' = roster' /\ Members' = Members
    BY <1>1, <1>3 DEF RosterInvariant, Tracked, Known, Basis, Members
  <2> HIDE DEF inside
  <2>2. /\ outdated > 0 => /\ LastWord(events', outdated - 1, c, inside)
                           /\ Silent(events', outdated - 1, c) => Silent(events, outdated, c)
        /\ outdated = 0 => /\ LastWord(events', 0, c, inside)
                           /\ Silent(events', 0, c) => Says(e, c, inside)
                           /\ Silent(events', 0, c) /\ ~Concerns(e, c) => Silent(events, 0, c)
    BY <1>1, <2>1, QueueShrinks DEF e
  <2>3. LastWord(events', outdated', c, inside)
    BY <1>1, <2>2
  <2>4. ASSUME Silent(events', outdated', c) PROVE Correct(roster, c) \/ (outdated = 0 /\ Concerns(e, c) /\ Says(e, c, inside))
    BY <1>1, <2>1, <2>2, <2>4
  <2>5. ASSUME Silent(events', outdated', c) PROVE Correct(roster, c)'
    <3>1. CASE HandleFact
      <4>1. ~Concerns(e, c)
        BY <3>1 DEF HandleFact, Concerns, Facts, e
      <4>2. roster' = roster \/ (roster' = roster \ {e.call} /\ channel[e.call] = "gone")
        BY <3>1, <1>2 DEF HandleFact, Told, e
      <4> QED BY <1>1, <2>4, <2>5, <4>1, <4>2 DEF Correct
    <3>2. CASE HandleOutdated
      <4>1. outdated > 0 /\ roster' = roster
        BY <3>2 DEF HandleOutdated, Outdated
      <4> QED BY <1>1, <2>4, <2>5, <4>1 DEF Correct
    <3>3. CASE HandleJoin
      <4>1. /\ e.kind = "join" /\ outdated = 0 /\ roster' = roster \union {e.call}
        BY <1>1, <3>3 DEF HandleJoin, Outdated, e
      <4>2. c = e.call => inside
        BY <1>1, <2>2, <2>5, <4>1 DEF Concerns, Says
      <4> QED BY <1>1, <2>4, <2>5, <4>1, <4>2 DEF Correct, Concerns, Members, inside
    <3>4. CASE HandleLeave
      <4>1. /\ e.kind = "leave" /\ outdated = 0 /\ roster' = roster \ {e.call}
        BY <1>1, <3>4 DEF HandleLeave, Outdated, e
      <4>2. c = e.call => ~inside
        BY <1>1, <2>2, <2>5, <4>1 DEF Concerns, Says
      <4> QED BY <1>1, <2>4, <2>5, <4>1, <4>2 DEF Correct, Concerns, Members, inside
    <3>5. CASE HandleClear
      <4>1. /\ e.kind \in {"start", "end"} /\ outdated = 0 /\ roster' = {}
        BY <1>1, <3>5 DEF HandleClear, Outdated, e
      <4>2. ~inside
        BY <1>1, <2>2, <2>5, <4>1 DEF Concerns, Says
      <4> QED BY <1>1, <4>1, <4>2 DEF Correct, Members, inside
    <3> QED BY <3>1, <3>2, <3>3, <3>4, <3>5 DEF HandleEvent
  <2> QED BY <1>1, <2>1, <2>3, <2>5 DEF Known, inside, Correct
<1>4. ASSUME NEW c \in Calls PROVE Tracked(c)'
  BY <1>1, <1>3, <1>4 DEF RosterInvariant, Tracked
<1> QED
  BY <1>4 DEF RosterInvariant

\* A List: its boundary is read before the roster is asked for, holds from the
\* section that forgets, and the roster follows in the next.
LEMMA ListTracks ==
  ASSUME Assumptions, Typed, RosterInvariant,
         Listing \/ HandleUp \/ Resync \/ MaintainCheck
  PROVE  RosterInvariant'
<1> USE DEF Typed
<1>n. Len(events) \in Nat
  BY LenProperties DEF LinkTyped
<1> SUFFICES ASSUME NEW c \in Calls PROVE Tracked(c)'
  BY DEF RosterInvariant
<1>t. Tracked(c)
  BY DEF RosterInvariant
<1>u. UNCHANGED <<channel, events, kick>> /\ Members' = Members
  BY DEF Listing, HttpList, ListStart, ListForget, ListReplace, ListFinish, ListFailed, HandleUp,
         Resync, MaintainCheck, Members
<1>1. ASSUME NEW by, ListStart(by) PROVE Tracked(c)'
  <2>1. /\ list.pc = "idle" /\ list'.pc = "asked" /\ boundary' = Len(events)
        /\ missed' = (IF missed = "since" THEN "before" ELSE missed)
        /\ UNCHANGED <<roster, outdated>>
    BY <1>1 DEF ListStart, LinkTyped
  <2>2. LastWord(events, Len(events), c, c \in Members)
    BY <1>n DEF LastWord
  <2>3. Known(outdated, roster, c) => Known(outdated, roster, c)'
    BY <1>u, <2>1 DEF Known, Correct
  <2> QED BY <1>t, <1>u, <2>1, <2>2, <2>3 DEF Tracked, Basis
<1>2. CASE ListForget
  <2>1. /\ list.pc = "answered" /\ list'.pc = "forgotten" /\ list'.found = list.found
        /\ outdated' = boundary /\ missed' = (IF missed = "before" THEN "none" ELSE missed)
    BY <1>2 DEF ListForget, SequenceBeforeRoster, LinkTyped
  <2>2. missed' = "none" => Known(boundary, list.found, c)
    BY <1>t, <2>1 DEF Tracked, LinkTyped
  <2>3. Known(boundary, list.found, c) => Known(outdated, Basis, c)'
    BY <1>u, <2>1 DEF Known, Correct, Basis
  <2> QED BY <1>t, <1>u, <2>1, <2>2, <2>3 DEF Tracked
<1>3. CASE ListReplace
  <2>1. /\ list.pc = "forgotten" /\ list'.pc = "replaced" /\ roster' = list.found
        /\ UNCHANGED <<outdated, missed>>
    BY <1>3 DEF ListReplace, LinkTyped
  <2>2. Known(outdated, Basis, c) => Known(outdated, Basis, c)'
    BY <1>u, <2>1 DEF Known, Correct, Basis
  <2> QED BY <1>t, <1>u, <2>1, <2>2 DEF Tracked
<1>4. CASE ListFinish \/ ListFailed
  <2>1. /\ list.pc \in {"replaced", "broken"} /\ list'.pc = "idle" /\ UNCHANGED <<roster, outdated>>
        /\ missed' = "none" => missed = "none"
    <3>1. CASE ListFinish
      BY <3>1 DEF ListFinish
    <3>2. CASE ListFailed
      BY <3>2 DEF ListFailed
    <3> QED BY <1>4, <3>1, <3>2
  <2>2. Known(outdated, Basis, c) => Known(outdated, Basis, c)'
    BY <1>u, <2>1 DEF Known, Correct, Basis
  <2> QED BY <1>t, <1>u, <2>1, <2>2 DEF Tracked
<1> QED
  BY <1>1, <1>2, <1>3, <1>4 DEF Listing, HttpList, HandleUp, Resync, MaintainCheck

\* The roster of the start says nothing: an event was missed.
LEMMA RosterInit == ASSUME Init PROVE RosterInvariant
  BY DEF Init, LinkInit, RosterInvariant, Tracked

\* Every step keeps track of the roster.
LEMMA RosterStep ==
  ASSUME Assumptions, Typed, VerdictInvariant, RosterInvariant, [Next]_vars
  PROVE  RosterInvariant'
<1>1. CASE UNCHANGED vars
  <2>1. UNCHANGED <<channel, kick, list, events, missed, roster, outdated, boundary>>
    BY <1>1 DEF vars, linkVars, serviceVars, listVars
  <2> QED BY <2>1, Unreported DEF Members
<1>2. CASE Asterisk \/ ConnectionLost \/ ConnectionRestored
  BY <1>2, LinkTracks
<1>3. CASE Commanding
  BY <1>3, CommandTracks DEF Commanding, Command
<1>4. CASE Listing \/ HandleUp \/ Resync \/ MaintainCheck
  BY <1>4, ListTracks
<1>5. CASE HandleEvent
  BY <1>5, EventTracks
<1>6. CASE \/ HandleDown \/ MaintainStart \/ MaintainUnavailable \/ SweepEnd
           \/ (\E c \in Calls : SweepSkip(c) \/ Sweep(c))
  <2>1. UNCHANGED <<channel, kick, list, events, missed, roster, outdated, boundary>>
    BY <1>6 DEF HandleDown, MaintainStart, MaintainUnavailable, SweepEnd, SweepSkip, Sweep,
                linkVars, listVars
  <2> QED BY <2>1, Unreported DEF Members
<1> QED
  BY <1>1, <1>2, <1>3, <1>4, <1>5, <1>6 DEF Next, Running

\* What Typed, AttemptInvariant, RunInvariant and VerdictInvariant say together.
Founding == Typed /\ AttemptInvariant /\ RunInvariant /\ VerdictInvariant

LEMMA FoundingHolds == Spec => []Founding
<1> USE CausesAssumption, LinkAssumption, ServiceAssumption DEF Assumptions
<1>1. Init => VerdictInvariant
  BY VerdictInit
<1>2. Typed /\ AttemptInvariant /\ RunInvariant /\ VerdictInvariant /\ [Next]_vars
        => VerdictInvariant'
  BY VerdictStep
<1> QED
  BY <1>1, <1>2, RunKnowsItsPlace, PTL DEF Spec, Founding

\* When every event has been handled and none was lost since the last roster, the
\* roster is the conference: whichever of List, Kick and handleEvent come in
\* between, events read before the roster was asked for are not replayed over it,
\* and events read after it are, for any number of calls, queue, users and faults.
THEOREM RosterFollowsConference == Spec => []RosterMatchesConference
<1> USE CausesAssumption, LinkAssumption, ServiceAssumption DEF Assumptions
<1>1. Init => RosterInvariant
  BY RosterInit
<1>2. Founding /\ RosterInvariant /\ [Next]_vars => RosterInvariant'
  BY RosterStep DEF Founding
<1>3. Founding /\ RosterInvariant => RosterMatchesConference
  <2> SUFFICES ASSUME Founding, RosterInvariant, missed = "none", events = <<>>, list.pc = "idle",
                      NEW c \in Calls
               PROVE  Correct(roster, c)
    BY DEF RosterMatchesConference, Correct
  <2>1. Known(outdated, roster, c)
    BY DEF RosterInvariant, Tracked, Basis
  <2>2. Silent(events, outdated, c)
    <3>1. outdated \in 0..Len(events) /\ Len(events) = 0
      BY DEF Founding, Typed, Queued
    <3> QED BY <3>1 DEF Silent
  <2> QED BY <2>1, <2>2 DEF Known
<1> QED
  BY <1>1, <1>2, <1>3, FoundingHolds, PTL DEF Spec

\* No input makes an attempt pending again or lifts a user's cancellation, and only
\* maintenance times one out.
LEMMA CallsCalm ==
  ASSUME NEW m \in CallRecord,
         NEW n, \/ n \in {m, AcknowledgementUnknown(m), Rejected(m), Cancel(m), Joined(m),
                          AbsentFromConference(m)}
                \/ \E late \in BOOLEAN : n = ChannelMissing(m, late)
                \/ \E kind \in Facts, why \in Causes \union {NoFailure} :
                     n = ApplyFact(m, kind, why)
  PROVE  /\ Pending(n) => Pending(m)
         /\ m.stop = "user" => n.phase = "ended" \/ n.stop = "user"
         /\ n.stop = "timeout" => m.stop = "timeout"
<1> USE DEF CallRecord, Phases, StopReasons, Pending, Stopping, Unless
<1> DEFINE Calms == /\ Pending(n) => Pending(m)
                    /\ m.stop = "user" => n.phase = "ended" \/ n.stop = "user"
                    /\ n.stop = "timeout" => m.stop = "timeout"
<1>1. CASE n \in {m, AcknowledgementUnknown(m), Rejected(m), Cancel(m), Joined(m),
                  AbsentFromConference(m)}
  BY <1>1 DEF AcknowledgementUnknown, Rejected, Cancel, Joined, AbsentFromConference
<1>2. ASSUME NEW late \in BOOLEAN, n = ChannelMissing(m, late)
      PROVE  Calms
  BY <1>2 DEF ChannelMissing, FinishStop
<1>3. ASSUME NEW kind \in Facts, NEW why \in Causes \union {NoFailure}, n = ApplyFact(m, kind, why)
      PROVE  Calms
  <2>1. CASE n \in {ChannelObserved(m), FailureObserved(m, why), Answered(m)}
    BY <2>1 DEF ChannelObserved, FailureObserved, Answered
  <2>2. CASE n \in {OriginationFailed(m, why), ChannelEnded(m, why)}
    BY <2>2 DEF OriginationFailed, ChannelEnded, Fail, FinishStop
  <2> QED BY <1>3, <2>1, <2>2 DEF ApplyFact, Facts
<1> QED
  BY <1>1, <1>2, <1>3

\* The same of a step, and of maintenance.
Calm(d) ==
  /\ Pending(attempt'[d]) => Pending(attempt[d])
  /\ attempt[d].stop = "user" /\ d \in invites' => attempt'[d].stop = "user"
  /\ attempt'[d].stop = "timeout" => attempt[d].stop = "timeout" \/ d \in pass.due

\* Applying such an input to one attempt.
LEMMA AppliedCalm ==
  ASSUME ServiceTyped, NEW c \in Calls, NEW n, ApplyCall(c, n),
         \/ n \in {attempt[c], AcknowledgementUnknown(attempt[c]), Rejected(attempt[c]),
                   Cancel(attempt[c]), Joined(attempt[c]), AbsentFromConference(attempt[c])}
         \/ \E late \in BOOLEAN : n = ChannelMissing(attempt[c], late)
         \/ \E kind \in Facts, why \in Causes \union {NoFailure} :
              n = ApplyFact(attempt[c], kind, why)
         \/ n = Maintenance(attempt[c], c \in pass.due)
  PROVE  \A d \in Calls : Calm(d)
<1>1. attempt[c] \in CallRecord
  BY DEF ServiceTyped
<1>2. Calm(c)
  <2>1. /\ Pending(n) => Pending(attempt[c])
        /\ attempt[c].stop = "user" => n.phase = "ended" \/ n.stop = "user"
        /\ n.stop = "timeout" => attempt[c].stop = "timeout" \/ c \in pass.due
    <3>1. CASE n = Maintenance(attempt[c], c \in pass.due)
      BY <1>1, <3>1 DEF Maintenance, NeedsReconcile, Unless, Pending, Stopping, CallRecord
    <3> QED BY <1>1, <3>1, CallsCalm
  <2>2. attempt'[c] = (IF n.phase = "ended" THEN Over ELSE n)
        /\ (n.phase = "ended" => c \notin invites')
    BY DEF ApplyCall, ServiceTyped
  <2> QED BY <2>1, <2>2 DEF Calm, Pending, Over, NewCall
<1>3. \A d \in Calls : d # c => attempt'[d] = attempt[d]
  BY DEF ApplyCall, ServiceTyped
<1>4. \A d \in Calls : attempt'[d] = attempt[d] => Calm(d)
  BY DEF Calm
<1> QED
  BY <1>2, <1>3, <1>4

\* Every step is calm.
LEMMA CalmStep ==
  ASSUME Assumptions, Typed, [Next]_vars
  PROVE  \A d \in Calls : Calm(d)
<1> USE DEF Typed, LinkTyped
<1>0. UNCHANGED attempt => \A d \in Calls : Calm(d)
  BY DEF Calm
<1>a. \A d \in Calls : attempt[d] \in CallRecord
  BY DEF ServiceTyped
<1>1. CASE UNCHANGED vars \/ Asterisk \/ ConnectionLost \/ ConnectionRestored
  <2>1. UNCHANGED attempt
    BY <1>1, EnvironmentTyped DEF vars, serviceVars, ConnectionLost, ConnectionRestored
  <2> QED BY <1>0, <2>1
<1>2. ASSUME NEW c \in Calls, Command(c) PROVE \A d \in Calls : Calm(d)
  <2>1. CASE InviteFinish(c)
    BY <1>0, <2>1, AppliedCalm DEF InviteFinish
  <2>2. CASE CancelDismiss(c) \/ CancelStart(c)
    BY <2>2, AppliedCalm DEF CancelDismiss, CancelStart
  <2>3. CASE HangupFinish(c)
    <3>1. UNCHANGED attempt \/ ApplyCall(c, ChannelMissing(attempt[c], overdue[c]))
      BY <2>3 DEF HangupFinish
    <3>2. overdue[c] \in BOOLEAN
      OBVIOUS
    <3> QED BY <1>0, <3>1, <3>2, AppliedCalm
  <2>4. CASE \/ Invite(c) \/ RetryStart(c) \/ (\E old \in Calls : RetryInvites(old, c))
             \/ RetryRefused(c) \/ RetryFinish(c) \/ KickStart(c) \/ KickFinish(c)
    BY <1>0, <2>4 DEF Invite, InviteStart, RetryStart, RetryInvites, RetryRefused, RetryFinish,
                      KickStart, KickFinish, serviceVars
  <2> QED BY <1>2, <2>1, <2>2, <2>3, <2>4 DEF Command
<1>3. CASE HandleEvent
  <2> DEFINE e == Head(events)
  <2>e. e.call \in Calls /\ e.cause \in Causes \union {NoFailure}
    <3>1. events # <<>>
      BY <1>3 DEF HandleEvent, HandleFact, HandleOutdated, HandleJoin, HandleLeave, HandleClear,
                  Takes
    <3>2. e \in Event
      BY <3>1, Tails
    <3> QED BY <3>2 DEF Event, NoFailure, Unknown, Assumptions, CausesAssumption, ServiceAssumption
  <2> HIDE DEF e
  <2>1. CASE HandleFact
    <3>1. /\ UNCHANGED attempt \/ ApplyCall(e.call, ApplyFact(attempt[e.call], e.kind, e.cause))
          /\ e.kind \in Facts
      BY <2>1 DEF HandleFact, e
    <3> QED BY <1>0, <2>e, <3>1, AppliedCalm
  <2>2. CASE HandleJoin
    <3>1. UNCHANGED attempt \/ ApplyCall(e.call, Joined(attempt[e.call]))
      BY <2>2 DEF HandleJoin, e
    <3> QED BY <1>0, <2>e, <3>1, AppliedCalm
  <2>3. CASE HandleOutdated \/ HandleLeave \/ HandleClear
    BY <1>0, <2>3 DEF HandleOutdated, HandleLeave, HandleClear
  <2> QED BY <1>3, <2>1, <2>2, <2>3 DEF HandleEvent
<1>4. CASE Running /\ ~HandleEvent
  <2>1. ASSUME NEW c \in Calls, Sweep(c) PROVE \A d \in Calls : Calm(d)
    BY <2>1, AppliedCalm DEF Sweep, Due
  <2>2. CASE ~\E c \in Calls : Sweep(c)
    BY <1>0, <1>4, <2>2 DEF Running, HandleUp, HandleDown, Resync, MaintainStart, MaintainCheck,
                      ListStart, MaintainUnavailable, SweepSkip, SweepEnd, linkVars
  <2> QED BY <2>1, <2>2
<1>5. CASE Listing
  <2>1. CASE HttpList \/ ListReplace \/ ListFailed
    BY <1>0, <2>1 DEF HttpList, ListStart, ListReplace, ListFailed
  <2>2. CASE ListForget
    <3>1. \A d \in Calls : \/ attempt'[d] = attempt[d]
                           \/ attempt'[d] = Over /\ d \notin invites'
      BY <2>2 DEF ListForget
    <3> QED BY <3>1 DEF Calm, Pending, Over, NewCall
  <2>3. CASE ListFinish
    <3>1. \A d \in Calls : attempt'[d] = attempt[d] \/ attempt'[d] = Joined(attempt[d])
      BY <2>3 DEF ListFinish, ReconcileJoined
    <3>2. \A d \in Calls : Joined(attempt[d]).phase # "ended" \/ Joined(attempt[d]) = attempt[d]
      BY <1>a DEF Joined, Unless, CallRecord
    <3> QED BY <1>a, <3>1, <3>2, CallsCalm DEF Calm
  <2> QED BY <1>5, <2>1, <2>2, <2>3 DEF Listing
<1> QED
  BY <1>1, <1>2, <1>3, <1>4, <1>5 DEF Next, Commanding, Command

\* What the deadlines and the replies in flight say of a call and its attempt: a
\* call that is timed out has a channel, and the hangup of one that has none yet is
\* the user's, so that a verdict on a channel in stale ends the attempt for good.
Timed(c) ==
  /\ c \in pass.due => overdue[c]
  /\ attempt[c].stop = "timeout" => channel[c] \notin Unallocated
  /\ command[c] \in {"hangup", "missing"} /\ channel[c] \in Unallocated /\ c \in invites
       => attempt[c].stop = "user"
  /\ c \in stale => /\ channel[c] \notin Unallocated
                    /\ c \in invites => attempt[c].stop = "user"

\* What a step of Asterisk, the connection or time may change for the service.
Drifts(d) ==
  /\ channel[d] \in Reached => channel'[d] \in Reached
  /\ channel[d] \in Departed => channel'[d] \in Departed
  /\ channel'[d] \in Unallocated => channel[d] \in Unallocated
  /\ overdue[d] => overdue'[d]
  /\ command'[d] \in {"hangup", "missing"} => command[d] \in {"hangup", "missing"}
  /\ d \in stale' => \/ d \in stale
                     \/ /\ command[d] = "missing" /\ channel[d] \in Unallocated
                        /\ channel'[d] \notin Unallocated

LEMMA Drifting ==
  ASSUME Assumptions, Typed, Asterisk \/ ConnectionLost \/ ConnectionRestored, NEW d \in Calls
  PROVE  Drifts(d)
<1> USE DEF Typed, LinkTyped, Drifts, Unallocated, Reached, Departed
<1>1. CASE ConnectionLost
  BY <1>1 DEF ConnectionLost, LinkLost
<1>2. CASE ConnectionRestored \/ RepliesList \/ ReplyLost
  BY <1>2 DEF ConnectionRestored, LinkRestored, RepliesList, AsteriskLists, ReplyLost, ReplyTimesOut
<1>3. ASSUME NEW c \in Calls, Proceeds(c) \/ Departs(c) PROVE Drifts(d)
  <2>1. CASE AsteriskAccepts(c) \/ AsteriskRejects(c)
    BY <2>1 DEF AsteriskAccepts, AsteriskRejects, Moves
  <2>2. CASE \/ AllocationFails(c) \/ DialFails(c) \/ Answers(c) \/ Joins(c) \/ Ends(c) \/ Leaves(c)
    BY <2>2 DEF AllocationFails, DialFails, Answers, Joins, Ends, Leaves, Moves
  <2>3. CASE Allocates(c)
    BY <2>3 DEF Allocates, Moves
  <2> QED BY <1>3, <2>1, <2>2, <2>3 DEF Proceeds, Departs
<1>4. ASSUME NEW c \in Calls, ObeysHangup(c) \/ ObeysKick(c) \/ Lateness(c) PROVE Drifts(d)
  BY <1>4 DEF ObeysHangup, AsteriskHangsUp, ObeysKick, AsteriskKicks, Lateness, DeadlinePasses
<1> QED
  BY <1>1, <1>2, <1>3, <1>4 DEF Asterisk

\* A step of the service: channels stay but for an Originate, and who hangs up
\* stops the attempt.
LEMMA Commanded ==
  ASSUME Assumptions, Typed, [Next]_vars, ~(Asterisk \/ ConnectionLost \/ ConnectionRestored),
         NEW d \in Calls
  PROVE  /\ UNCHANGED <<overdue, stale>>
         /\ channel'[d] = channel[d] \/ (channel[d] = "none" /\ channel'[d] = "wire")
         /\ d \in pass'.due => d \in pass.due \/ overdue[d]
         /\ command'[d] \in {"hangup", "missing"} =>
              command'[d] = command[d] \/ (d \in invites' => Stopping(attempt'[d]))
         /\ d \in invites' /\ d \notin invites => command'[d] = "originate"
<1> USE DEF Typed, LinkTyped
<1>1. CASE UNCHANGED vars
  BY <1>1 DEF vars, linkVars, serviceVars
<1>2. ASSUME NEW c \in Calls, NEW old, InviteStart(c, old)
      PROVE  /\ UNCHANGED <<overdue, stale, pass>>
             /\ channel'[d] = channel[d] \/ (channel[d] = "none" /\ channel'[d] = "wire")
             /\ command'[d] \in {"hangup", "missing"} => command'[d] = command[d]
             /\ d \in invites' /\ d \notin invites => command'[d] = "originate"
  BY <1>2 DEF InviteStart
<1>3. ASSUME NEW c \in Calls, CancelStart(c)
      PROVE  /\ UNCHANGED <<overdue, stale, pass, channel>>
             /\ command'[d] \in {"hangup", "missing"} =>
                  command'[d] = command[d] \/ Stopping(attempt'[d])
             /\ d \in invites' => d \in invites
  <2>1. attempt[c] \in CallRecord
    BY DEF ServiceTyped
  <2>2. Cancel(attempt[c]).phase # "ended" /\ Stopping(Cancel(attempt[c]))
    BY <1>3, <2>1 DEF CancelStart, CancelHangsUp, Cancel, Unless, Stopping, CallRecord
  <2> QED BY <1>3, <2>2 DEF CancelStart, ApplyCall, ServiceTyped
<1>4. ASSUME NEW c \in Calls, Command(c), ~CancelStart(c), ~\E old : InviteStart(c, old)
      PROVE  /\ UNCHANGED <<overdue, stale, pass, channel>>
             /\ command'[d] \in {command[d], "none"}
             /\ d \in invites' => d \in invites
  BY <1>4 DEF Command, Invite, InviteFinish, CancelDismiss, HangupFinish, RetryStart,
              RetryInvites, RetryRefused, RetryFinish, KickStart, KickFinish, ApplyCall, linkVars,
              serviceVars
<1>5. CASE HandleEvent
  BY <1>5 DEF HandleEvent, HandleFact, HandleOutdated, HandleJoin, HandleLeave, HandleClear, Takes,
              ApplyCall
<1>6. ASSUME NEW c \in Calls, Sweep(c)
      PROVE  /\ UNCHANGED <<overdue, stale, channel>> /\ pass'.due = pass.due
             /\ command'[d] \in {"hangup", "missing"} =>
                  command'[d] = command[d] \/ Stopping(attempt'[d])
             /\ d \in invites' => d \in invites
  BY <1>6 DEF Sweep, MaintenanceHangsUp, ApplyCall, ServiceTyped
<1>7. CASE Running /\ ~HandleEvent /\ ~\E c \in Calls : Sweep(c)
  <2>1. UNCHANGED <<overdue, stale, channel, command, invites>>
    BY <1>7 DEF Running, HandleUp, HandleDown, Resync, MaintainStart, MaintainCheck, ListStart,
                MaintainUnavailable, SweepSkip, SweepEnd, linkVars
  <2>2. d \in pass'.due => d \in pass.due \/ overdue[d]
    <3>1. CASE MaintainStart
      BY <3>1 DEF MaintainStart
    <3>2. CASE MaintainUnavailable \/ SweepEnd
      BY <3>2 DEF MaintainUnavailable, SweepEnd, NoPass
    <3>3. ASSUME NEW c \in Calls, SweepSkip(c) PROVE pass'.due = pass.due
      BY <3>3 DEF SweepSkip, ServiceTyped
    <3>4. CASE HandleUp \/ HandleDown \/ Resync \/ MaintainCheck
      BY <3>4 DEF HandleUp, HandleDown, Resync, MaintainCheck
    <3> QED BY <1>7, <3>1, <3>2, <3>3, <3>4 DEF Running
  <2> QED BY <2>1, <2>2
<1>8. CASE Listing
  <2>1. UNCHANGED <<overdue, stale, channel, command>> /\ (d \in invites' => d \in invites)
    BY <1>8 DEF Listing, HttpList, ListStart, ListForget, ListReplace, ListFinish, ListFailed
  <2>2. pass' = pass \/ pass' = NoPass \/ pass'.due = pass.due
    <3>1. CASE HttpList \/ ListForget \/ ListReplace \/ ListFailed
      BY <3>1 DEF HttpList, ListForget, ListReplace, ListFailed
    <3>2. CASE ListFinish
      BY <3>2 DEF ListFinish, ServiceTyped
    <3> QED BY <1>8, <3>1, <3>2 DEF Listing
  <2> QED BY <2>1, <2>2 DEF NoPass
<1> QED
  BY <1>1, <1>2, <1>3, <1>4, <1>5, <1>6, <1>7, <1>8 DEF Next, Commanding, Command, Invite, RetryInvites

\* Every step keeps the deadlines and the replies in order.
LEMMA TimedStep ==
  ASSUME Assumptions, Founding, ServiceTyped', \A d \in Calls : Timed(d), [Next]_vars, NEW c \in Calls
  PROVE  Timed(c)'
<1> USE DEF Founding
<1>m. /\ attempt[c].stop \in StopReasons /\ attempt'[c].stop \in StopReasons
      /\ Timed(c) /\ Calm(c) /\ Sane(c) /\ Founded(c)
  BY CalmStep DEF Typed, ServiceTyped, CallRecord, AttemptInvariant, VerdictInvariant
<1>o. overdue[c] => channel[c] \notin Unallocated
  BY <1>m DEF Founded
<1>1. CASE Asterisk \/ ConnectionLost \/ ConnectionRestored
  <2>1. UNCHANGED <<attempt, invites, pass>>
    BY <1>1, EnvironmentTyped DEF Typed, serviceVars, ConnectionLost, ConnectionRestored
  <2>2. Drifts(c)
    BY <1>1, Drifting
  <2> QED BY <1>m, <2>1, <2>2 DEF Timed, Drifts
<1>2. CASE ~(Asterisk \/ ConnectionLost \/ ConnectionRestored)
  <2>1. /\ UNCHANGED <<overdue, stale>>
        /\ channel'[c] = channel[c] \/ (channel[c] = "none" /\ channel'[c] = "wire")
        /\ c \in pass'.due => c \in pass.due \/ overdue[c]
        /\ command'[c] \in {"hangup", "missing"} =>
             command'[c] = command[c] \/ (c \in invites' => Stopping(attempt'[c]))
        /\ c \in invites' /\ c \notin invites => command'[c] = "originate"
    BY <1>2, Commanded
  <2>2. channel'[c] \in Unallocated <=> channel[c] \in Unallocated
    BY <2>1 DEF Unallocated
  <2>3. c \in pass'.due => overdue'[c]
    BY <1>m, <2>1 DEF Timed
  <2>4. attempt'[c].stop = "timeout" => channel'[c] \notin Unallocated
    BY <1>m, <1>o, <2>2 DEF Timed, Calm
  <2>5. c \in stale' => /\ channel'[c] \notin Unallocated
                        /\ c \in invites' => attempt'[c].stop = "user"
    <3>1. c \in invites' /\ c \notin invites => channel[c] = "none"
      BY ListedLate
    <3> QED BY <1>m, <2>1, <2>2, <3>1 DEF Timed, Calm, Unallocated
  <2>6. command'[c] \in {"hangup", "missing"} /\ channel'[c] \in Unallocated /\ c \in invites'
          => attempt'[c].stop = "user"
    BY <1>m, <2>1, <2>2, <2>4 DEF Timed, Calm, Stopping, StopReasons
  <2> QED BY <2>3, <2>4, <2>5, <2>6 DEF Timed
<1> QED
  BY <1>1, <1>2

\* A call in the roster has been in the conference, and its attempt is not pending,
\* but between the section of List that replaces the roster and the one that tells
\* the attempts.
Seated(c) ==
  /\ c \in roster => channel[c] \in Reached
  /\ c \in roster \cap invites /\ Pending(attempt[c])
       => list.pc = "replaced" /\ c \in list.found

\* A call shown twice is still in the roster, or the roster has changed and List is
\* about to say so; and it has departed, or joined and its attempt is about to be
\* told.
Twice(c) == c \in published.participants /\ \E r \in published.rows : r.call = c

Once(c) ==
  Twice(c) =>
    /\ c \in roster \/ (list.pc = "replaced" /\ changed)
    /\ \/ channel[c] \in Departed
       \/ list.pc = "replaced" /\ c \in list.found \cap invites /\ Pending(attempt[c])

RowInvariant == \A c \in Calls : Timed(c) /\ Seated(c) /\ Once(c)

\* Asterisk, the connection and time do not touch a List whose roster is in place.
LEMMA RepliesStay ==
  ASSUME Assumptions, Typed, Asterisk \/ ConnectionLost \/ ConnectionRestored,
         list.pc = "replaced"
  PROVE  list' = list /\ changed' = changed
<1>1. changed' = changed
  BY EnvironmentTyped DEF Typed, serviceVars, ConnectionLost, ConnectionRestored, listVars
<1>2. CASE RepliesList \/ ReplyLost \/ ConnectionLost \/ ConnectionRestored
  BY <1>1, <1>2 DEF RepliesList, AsteriskLists, ReplyLost, ReplyTimesOut, ConnectionLost, LinkLost,
                    ConnectionRestored, LinkRestored, Typed, LinkTyped
<1>3. ASSUME NEW c \in Calls,
             \/ Proceeds(c) \/ Departs(c) \/ ObeysHangup(c) \/ ObeysKick(c) \/ Lateness(c)
      PROVE  list' = list
  BY <1>3 DEF Proceeds, Departs, ObeysHangup, ObeysKick, Lateness, AsteriskAccepts,
     AsteriskRejects, Allocates, AllocationFails, DialFails, Answers, Joins, Ends, Leaves,
     AsteriskHangsUp, AsteriskKicks, DeadlinePasses
<1> QED
  BY <1>1, <1>2, <1>3 DEF Asterisk

\* Nothing but its own last section touches a List whose roster is in place.
LEMMA ListsStay ==
  ASSUME Assumptions, Typed, [Next]_vars, list.pc = "replaced", ~ListFinish
  PROVE  list' = list /\ changed' = changed
<1>1. CASE UNCHANGED vars
  BY <1>1 DEF vars, linkVars, serviceVars, listVars
<1>2. CASE Asterisk \/ ConnectionLost \/ ConnectionRestored
  BY <1>2, RepliesStay
<1>3. ASSUME NEW c \in Calls, Command(c) PROVE list' = list /\ changed' = changed
  BY <1>3 DEF Command, Invite, InviteStart, InviteFinish, CancelDismiss, CancelStart, HangupFinish,
              RetryStart, RetryInvites, RetryRefused, RetryFinish, KickStart, KickFinish, linkVars,
              serviceVars, listVars
<1>4. CASE Running
  BY <1>4 DEF Running, HandleEvent, HandleFact, HandleOutdated, HandleJoin, HandleLeave, HandleClear,
              Takes, HandleUp, HandleDown, Resync, MaintainStart, MaintainCheck, ListStart,
              MaintainUnavailable, SweepSkip, Sweep, SweepEnd, linkVars, listVars
<1>5. CASE Listing
  BY <1>5 DEF Listing, HttpList, ListStart, ListForget, ListReplace, ListFailed
<1> QED
  BY <1>1, <1>2, <1>3, <1>4, <1>5 DEF Next, Commanding, Command

\* The roster grows by a join or by a list.
LEMMA RosterGrows ==
  ASSUME Assumptions, Typed, [Next]_vars, ~HandleJoin, ~ListReplace
  PROVE  roster' \subseteq roster
<1>1. CASE UNCHANGED vars \/ Asterisk \/ ConnectionLost \/ ConnectionRestored
  BY <1>1, EnvironmentTyped DEF Typed, vars, serviceVars, ConnectionLost, ConnectionRestored
<1>2. ASSUME NEW c \in Calls, Command(c) PROVE roster' \subseteq roster
  BY <1>2 DEF Command, Invite, InviteStart, InviteFinish, CancelDismiss, CancelStart, HangupFinish,
              RetryStart, RetryInvites, RetryRefused, RetryFinish, KickStart, KickFinish, serviceVars
<1>3. CASE Running
  BY <1>3 DEF Running, HandleEvent, HandleFact, HandleOutdated, HandleLeave, HandleClear,
              HandleUp, HandleDown, Resync, MaintainStart, MaintainCheck, ListStart,
              MaintainUnavailable, SweepSkip, Sweep, SweepEnd
<1>4. CASE Listing
  BY <1>4 DEF Listing, HttpList, ListStart, ListForget, ListFinish, ListFailed
<1> QED
  BY <1>1, <1>2, <1>3, <1>4 DEF Next, Commanding, Command

\* Every step keeps the roster and the attempts in agreement.
LEMMA SeatedStep ==
  ASSUME Assumptions, Founding, [Next]_vars, NEW c \in Calls, Seated(c)
  PROVE  Seated(c)'
<1> USE DEF Founding
<1>m. Calm(c) /\ Founded(c) /\ attempt[c] \in CallRecord
  BY CalmStep DEF Typed, ServiceTyped, VerdictInvariant
<1>r. channel[c] \in Reached => channel'[c] \in Reached
  <2>1. CASE Asterisk \/ ConnectionLost \/ ConnectionRestored
    BY <2>1, Drifting DEF Drifts
  <2>2. CASE ~(Asterisk \/ ConnectionLost \/ ConnectionRestored)
    BY <2>2, Commanded DEF Reached
  <2> QED BY <2>1, <2>2
<1>l. channel[c] \in Reached /\ c \in invites' => c \in invites
  BY ListedLate DEF Reached
<1>j. Pending(Joined(attempt[c])) => FALSE
  BY <1>m DEF Joined, Unless, Pending, CallRecord
<1>1. CASE HandleJoin
  <2> DEFINE e == Head(events)
  <2>1. /\ events # <<>> /\ list.pc = "idle" /\ e.kind = "join" /\ roster' = roster \union {e.call}
        /\ UNCHANGED channel
        /\ IF e.call \in invites THEN ApplyCall(e.call, Joined(attempt[e.call]))
           ELSE UNCHANGED <<attempt, invites>>
    BY <1>1 DEF HandleJoin, Takes
  <2>2. e \in Told(channel)
    BY <2>1, Tails DEF VerdictInvariant, EventsAreTrue
  <2> HIDE DEF e
  <2>3. CASE c = e.call
    <3>1. channel[c] \in Reached
      BY <2>1, <2>2, <2>3 DEF Told
    <3>2. c \in invites' => ~Pending(attempt'[c])
      <4>1. c \in invites' => c \in invites /\ attempt'[c] \in {Over, Joined(attempt[c])}
        BY <2>1, <2>3 DEF ApplyCall, Typed, ServiceTyped
      <4> QED BY <4>1, <1>j DEF Pending, Over, NewCall
    <3> QED BY <2>1, <3>1, <3>2 DEF Seated
  <2>4. CASE c # e.call
    <3>1. c \in roster' => c \in roster
      BY <2>1, <2>4
    <3> QED BY <1>m, <1>r, <1>l, <2>1, <3>1 DEF Seated, Calm
  <2> QED BY <2>3, <2>4
<1>2. CASE ListReplace
  <2>1. roster' = list.found /\ list'.found = list.found /\ list'.pc = "replaced"
    BY <1>2 DEF ListReplace, Typed, LinkTyped
  <2> QED BY <1>m, <1>r, <2>1 DEF Seated, Founded
<1>3. CASE ListFinish
  <2>1. roster' = roster /\ list.pc = "replaced" /\ UNCHANGED <<channel, invites>>
        /\ attempt'[c] = IF c \in invites \intersect list.found THEN Joined(attempt[c]) ELSE attempt[c]
    BY <1>3 DEF ListFinish, ReconcileJoined
  <2> QED BY <1>j, <2>1 DEF Seated
<1>4. CASE ~HandleJoin /\ ~ListReplace /\ ~ListFinish
  <2>1. roster' \subseteq roster
    BY <1>4, RosterGrows
  <2>2. list.pc = "replaced" => list' = list
    BY <1>4, ListsStay
  <2> QED BY <1>m, <1>r, <1>l, <2>1, <2>2 DEF Seated, Calm
<1> QED
  BY <1>1, <1>2, <1>3, <1>4

\* A snapshot shows a call twice only if its attempt has failed or is about to be told.
LEMMA SnapshotsShowOnce ==
  ASSUME Founding', Notify, NEW c \in Calls, Timed(c)', Seated(c)'
  PROVE  Once(c)'
<1>1. SUFFICES ASSUME Twice(c)'
               PROVE  /\ c \in roster'
                      /\ \/ channel'[c] \in Departed
                         \/ /\ list'.pc = "replaced" /\ c \in list'.found \cap invites'
                            /\ Pending(attempt'[c])
  BY DEF Once
<1>2. /\ c \in roster' /\ ~(c \in invites' /\ Stopping(attempt'[c]))
      /\ \E d \in invites' : /\ Row(d, attempt'[d]).call = c
                             /\ attempt'[d].phase # "connected" \/ Stopping(attempt'[d])
  BY <1>1 DEF Twice, Notify, Snapshot
<1>3. c \in invites' /\ attempt'[c].phase # "connected" /\ ~Stopping(attempt'[c])
  BY <1>2 DEF Row
<1>4. attempt'[c].phase \in Phases /\ attempt'[c].phase # "ended" /\ Founded(c)'
  <2>1. Sane(c)' /\ Founded(c)' /\ ServiceTyped'
    BY DEF Founding, AttemptInvariant, VerdictInvariant, Typed
  <2> QED BY <1>3, <2>1 DEF Sane, Sound, ServiceTyped, CallRecord
<1>5. CASE Pending(attempt'[c])
  BY <1>2, <1>3, <1>5 DEF Seated
<1>6. CASE ~Pending(attempt'[c])
  <2>1. attempt'[c].phase = "failed"
    BY <1>3, <1>4, <1>6 DEF Pending, Phases
  <2>2. c \notin stale'
    BY <1>3 DEF Timed, Stopping
  <2> QED BY <1>2, <1>4, <2>1, <2>2 DEF Founded
<1> QED
  BY <1>5, <1>6

\* A step that notifies nobody keeps the call in the roster, or is the Replace of a
\* List that will notify, and leaves an attempt that is about to be told pending.
LEMMA SilentSteps ==
  ASSUME Assumptions, Founding, [Next]_vars, ~Notify, NEW c \in Calls
  PROVE  /\ published' = published
         /\ c \in roster => c \in roster' \/ (list'.pc = "replaced" /\ changed')
         /\ list.pc = "replaced" /\ changed => list'.pc = "replaced" /\ changed'
         /\ list.pc = "replaced" /\ c \in list.found \cap invites /\ Pending(attempt[c])
              => (list.pc = "replaced" /\ c \in list.found \cap invites /\ Pending(attempt[c]))'
<1> USE DEF Founding, Typed
<1> DEFINE Kept == /\ published' = published
                   /\ c \in roster => c \in roster' \/ (list'.pc = "replaced" /\ changed')
                   /\ list.pc = "replaced" /\ changed => list'.pc = "replaced" /\ changed'
                   /\ list.pc = "replaced" /\ c \in list.found \cap invites /\ Pending(attempt[c])
                       => (list.pc = "replaced" /\ c \in list.found \cap invites /\ Pending(attempt[c]))'
<1>a. attempt[c] \in CallRecord
  BY DEF ServiceTyped
<1>1. CASE UNCHANGED vars
  BY <1>1 DEF vars, linkVars, serviceVars, listVars
<1>2. CASE Asterisk \/ ConnectionLost \/ ConnectionRestored
  <2>1. UNCHANGED <<published, roster, attempt, invites>>
    BY <1>2, EnvironmentTyped DEF serviceVars, ConnectionLost, ConnectionRestored
  <2> QED BY <1>2, <2>1, RepliesStay
<1>3. ASSUME NEW d \in Calls, Command(d) PROVE Kept
  <2>1. /\ UNCHANGED <<published, roster, attempt, invites, list, changed>>
    <3>1. RetryStart(d) \/ RetryRefused(d) \/ KickStart(d) \/ HangupFinish(d) \/ KickFinish(d)
      BY <1>3 DEF Command, Invite, InviteStart, InviteFinish, CancelDismiss, CancelStart,
                  RetryInvites, RetryFinish
    <3>2. CASE RetryStart(d) \/ RetryRefused(d) \/ KickStart(d)
      BY <3>2 DEF RetryStart, RetryRefused, KickStart, linkVars, serviceVars, listVars
    <3>3. CASE HangupFinish(d)
      BY <3>3 DEF HangupFinish, NotifyIf, listVars
    <3>4. CASE KickFinish(d)
      BY <3>4 DEF KickFinish, NotifyIf, listVars
    <3> QED BY <3>1, <3>2, <3>3, <3>4
  <2> QED BY <2>1
<1>4. CASE HandleEvent
  <2>1. list.pc = "idle" /\ list' = list
    BY <1>4 DEF HandleEvent, HandleFact, HandleOutdated, HandleJoin, HandleLeave, HandleClear, Takes
  <2>2. published' = published /\ (c \in roster => c \in roster')
    BY <1>4 DEF HandleEvent, HandleFact, HandleOutdated, HandleJoin, HandleLeave, HandleClear,
                NotifyIf
  <2> QED BY <2>1, <2>2
<1>5. CASE Running /\ ~HandleEvent
  <2>1. ASSUME NEW d \in Calls, Sweep(d) PROVE Kept
    <3> DEFINE n == Maintenance(attempt[d], Due(d))
    <3>1. /\ UNCHANGED <<published, roster, list, changed>> /\ ApplyCall(d, n) /\ d \in invites
      BY <2>1 DEF Sweep, listVars
    <3>2. n.phase = attempt[d].phase /\ n.phase # "ended"
      <4>1. attempt[d] \in CallRecord /\ attempt[d].phase # "ended"
        BY <3>1 DEF ServiceTyped, AttemptInvariant, Sane, Sound
      <4> QED BY <4>1 DEF Maintenance, Unless, CallRecord
    <3> HIDE DEF n
    <3>3. invites' = invites /\ attempt'[c].phase = attempt[c].phase
      BY <3>1, <3>2 DEF ApplyCall, ServiceTyped
    <3> QED BY <3>1, <3>3 DEF Pending
  <2>2. CASE ~\E d \in Calls : Sweep(d)
    <3>1. UNCHANGED <<published, roster, attempt, invites, changed>>
          /\ (list.pc = "replaced" => list' = list)
      BY <1>5, <2>2 DEF Running, HandleUp, HandleDown, Resync, MaintainStart, MaintainCheck,
                        ListStart, MaintainUnavailable, SweepSkip, SweepEnd, linkVars, listVars
    <3> QED BY <3>1
  <2> QED BY <2>1, <2>2
<1>6. CASE Listing
  <2>1. CASE HttpList
    BY <2>1 DEF HttpList, ListStart
  <2>2. CASE ListForget
    BY <2>2 DEF ListForget
  <2>3. CASE ListReplace
    <3>1. /\ list.pc = "forgotten" /\ list'.pc = "replaced" /\ roster' = list.found
          /\ changed' \in {roster # list.found, TRUE} /\ published' = published
      BY <2>3 DEF ListReplace, LinkTyped
    <3> QED BY <3>1
  <2>4. CASE ListFinish
    <3>1. /\ ~changed /\ attempt' = attempt /\ roster' = roster /\ published' = published
          /\ attempt' = ReconcileJoined(list.found)
      BY <2>4 DEF ListFinish, NotifyIf
    <3>2. c \in list.found \cap invites => ~Pending(attempt[c])
      <4>1. c \in list.found \cap invites => attempt[c] = Joined(attempt[c])
        BY <3>1 DEF ReconcileJoined
      <4> QED BY <1>a, <4>1 DEF Joined, Unless, Pending, CallRecord
    <3> QED BY <3>1, <3>2
  <2>5. CASE ListFailed
    BY <2>5 DEF ListFailed, NotifyIf
  <2> QED BY <1>6, <2>1, <2>2, <2>3, <2>4, <2>5 DEF Listing
<1> QED
  BY <1>1, <1>2, <1>3, <1>4, <1>5, <1>6 DEF Next, Commanding, Command

\* Every step keeps every call to one row.
LEMMA RowStep ==
  ASSUME Assumptions, Founding, Founding', RowInvariant, [Next]_vars
  PROVE  RowInvariant'
<1> SUFFICES ASSUME NEW c \in Calls PROVE (Timed(c) /\ Seated(c) /\ Once(c))'
  BY DEF RowInvariant
<1>1. Timed(c)'
  BY TimedStep DEF RowInvariant, Founding, Typed
<1>2. Seated(c)'
  BY SeatedStep DEF RowInvariant
<1>3. CASE Notify
  BY <1>1, <1>2, <1>3, SnapshotsShowOnce
<1>4. CASE ~Notify
  <2>1. channel[c] \in Departed => channel'[c] \in Departed
    <3>1. CASE Asterisk \/ ConnectionLost \/ ConnectionRestored
      BY <3>1, Drifting DEF Drifts, Founding
    <3>2. CASE ~(Asterisk \/ ConnectionLost \/ ConnectionRestored)
      BY <3>2, Commanded DEF Departed, Founding
    <3> QED BY <3>1, <3>2
  <2>2. Once(c)
    BY DEF RowInvariant
  <2> QED BY <1>1, <1>2, <1>4, <2>1, <2>2, SilentSteps DEF Once, Twice
<1> QED
  BY <1>1, <1>2, <1>3, <1>4

LEMMA RowInit == ASSUME Assumptions, Init PROVE RowInvariant
  BY DEF Init, LinkInit, RowInvariant, Timed, Seated, Once, Twice, Snapshot, NewCall, Unallocated

\* A call is one row: when every event has been handled and none was lost, nobody is
\* shown as a participant and as a dialing or failed attempt at the same time,
\* whichever lock was taken first and however late a call joins or is given up.
THEOREM EveryCallIsOneRow == Spec => []OneRowPerCall
<1> USE CausesAssumption, LinkAssumption, ServiceAssumption DEF Assumptions
<1>1. Init => RosterInvariant /\ RowInvariant
  BY RosterInit, RowInit
<1>2. Founding /\ Founding' /\ RosterInvariant /\ RowInvariant /\ [Next]_vars
        => RosterInvariant' /\ RowInvariant'
  BY RosterStep, RowStep DEF Founding
<1>3. TypeOK /\ RowInvariant /\ RosterMatchesConference => OneRowPerCall
  <2> SUFFICES ASSUME RowInvariant, RosterMatchesConference, TypeOK,
                      missed = "none", events = <<>>, list.pc = "idle"
               PROVE  published.participants \cap {r.call : r \in published.rows} = {}
    BY DEF OneRowPerCall
  <2>1. \A c \in Calls : ~Twice(c)
    BY DEF RowInvariant, Once, RosterMatchesConference, Departed
  <2>2. published.participants \subseteq Calls
    BY DEF TypeOK
  <2> QED BY <2>1, <2>2 DEF Twice
<1> QED
  BY <1>1, <1>2, <1>3, TypeCorrect, FoundingHolds, RosterFollowsConference, PTL DEF Spec
=============================================================================
