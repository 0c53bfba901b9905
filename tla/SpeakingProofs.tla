---------------------------- MODULE SpeakingProofs ----------------------------
(***************************************************************************)
(* MuteMatchesConference and SpeechEnds for any number of participants,    *)
(* any queue and any faults.                                               *)
(*                                                                         *)
(* Both properties ask for the last pending event about one participant,   *)
(* so it is enough to know what the last word is (Words), what is true     *)
(* where there is none (Right), and that an end follows every beginning of *)
(* speech (Covered).  The first two are claimed of the roster and the      *)
(* events it has not ignored, and, while a list is in progress, of its     *)
(* reply and the events after its boundary: Replace trades one for the     *)
(* other.                                                                  *)
(***************************************************************************)
EXTENDS SpeakingState, SequenceTheorems, FiniteSetTheorems, TLAPS

----------------------------------------------------------------------------
(* Types.                                                                  *)

\* An event of a microphone says what its kind does.
Plain(e) == (e.kind = "mute" => e.muted) /\ (e.kind = "unmute" => ~e.muted)

EventRecord ==
  {e \in [seq : Nat, kind : Kinds, who : People, muted : BOOLEAN] : Plain(e)}

ListRecord == [pc : {"idle", "asked", "answered", "broken"}, by : {"run", "user"},
               boundary : Nat, found : SUBSET People, mutes : SUBSET People]

Counted ==
  /\ received \in Nat /\ ignoreThrough \in Nat /\ talkingIgnoreThrough \in Nat
  /\ ignoreThrough <= received /\ talkingIgnoreThrough <= received
  /\ list \in ListRecord /\ list.boundary <= received
  /\ missed \in {"none", "before", "since"} /\ unheard \in [People -> 0..received]

Queued ==
  /\ queue \in Seq(EventRecord) /\ Len(queue) <= QueueSize
  /\ place \in {"select", "taken", "checked"}
  /\ place # "select" => hand \in EventRecord
  /\ place = "checked" => hand.kind \in {"on", "off"} /\ list.pc = "idle"
  /\ \A i \in DOMAIN Pending : Pending[i].seq <= received

Members == inside \subseteq came /\ came \subseteq People /\ muted \subseteq inside

Typed == Members /\ Counted /\ Queued

----------------------------------------------------------------------------
(* Who is there and who is muted.                                          *)

Presence == {"join", "leave"}
Microphone == {"join", "mute", "unmute"}

\* e comes after n and is one of these kinds of event about p.
Bears(e, n, p, kinds) == e.seq > n /\ e.who = p /\ e.kind \in kinds

\* Nothing after the first i elements of q does.
Silent(q, i, n, p, kinds) == \A j \in DOMAIN q : j > i => ~Bears(q[j], n, p, kinds)

\* What the last events after n say of p is so: it is there, and it is off.
Words(q, n, p, there, off) ==
  /\ \A i \in DOMAIN q : Bears(q[i], n, p, Presence) /\ Silent(q, i, n, p, Presence)
                           => (q[i].kind = "join" <=> p \in there)
  /\ p \in there =>
       \A i \in DOMAIN q : Bears(q[i], n, p, Microphone) /\ Silent(q, i, n, p, Microphone)
                             => (q[i].muted <=> p \in off)

\* Where they say nothing, what was found of p is so.
Right(q, n, p, found, foundOff, there, off) ==
  /\ Silent(q, 0, n, p, Presence) => (p \in found <=> p \in there)
  /\ p \in there /\ Silent(q, 0, n, p, Microphone) => (p \in foundOff <=> p \in off)

\* Who has left does not come back.
Parted == \A i \in DOMAIN Pending :
            Pending[i].kind = "leave" => Pending[i].who \in came \ inside

Listed(p) ==
  list.pc \in {"asked", "answered"} /\ missed # "since" =>
    /\ Words(Pending, list.boundary, p, inside, muted)
    /\ list.pc = "answered" =>
         Right(Pending, list.boundary, p, list.found, list.mutes, inside, muted)

Shown(p) ==
  missed = "none" =>
    /\ Words(Pending, ignoreThrough, p, inside, muted)
    /\ Right(Pending, ignoreThrough, p, present, mutes, inside, muted)

MuteInvariant == Typed /\ Parted /\ \A p \in People : Listed(p) /\ Shown(p)

----------------------------------------------------------------------------
(* Who speaks.                                                             *)

\* Neither a reply nor a join still pending
\* brings it back into the roster once its leave is ignored.
Farewell ==
  \A i \in DOMAIN Pending : Pending[i].kind = "leave" =>
    /\ Pending[i].seq <= list.boundary => Pending[i].who \notin list.found
    /\ Pending[i].seq <= ignoreThrough => Pending[i].who \notin present
    /\ \A j \in DOMAIN Pending :
         Pending[j].kind = "join" /\ Pending[j].who = Pending[i].who
           => Pending[j].seq < Pending[i].seq

\* p is speaking, or its end of speech is after the first i pending events.
Covered(i, p) ==
  \/ p \in speaking
  \/ \E j \in DOMAIN Pending : /\ j > i /\ Pending[j].who = p
                               /\ Pending[j].kind \in {"off", "leave"}
                               /\ Pending[j].seq > talkingIgnoreThrough

\* An earlier connection's events are outdated as soon as its boundary is stored,
\* and its speech forgotten when OnAMIStateChange returns.
Connections ==
  /\ connected \in BOOLEAN /\ link \in BOOLEAN
  /\ changing \in {"none", "boundary", "reset"}
  /\ link => connected
  /\ (connected /\ changing # "none") \/ (~connected /\ changing # "boundary")
       => talkingIgnoreThrough = received
  /\ ~connected /\ changing = "none"
       => talks \subseteq raced /\ (place = "checked" => hand.who \in raced)

\* The events wait in the order they were read.
Ordered == \A i, j \in DOMAIN Pending : i < j => Pending[i].seq < Pending[j].seq

\* What is shown, and what is about to be, ends: unless an end of its speech has
\* been lost, after which only a later beginning need be.
Covering ==
  Reading =>
    /\ place = "checked" /\ hand.who \notin raced => hand.seq > talkingIgnoreThrough
    /\ \A p \in talks \ raced : unheard[p] = 0 => Covered(0, p)
    /\ \A i \in DOMAIN Pending :
         /\ Pending[i].kind = "on" /\ Pending[i].seq > talkingIgnoreThrough
         /\ unheard[Pending[i].who] < Pending[i].seq
         => Covered(i, Pending[i].who)

Visible == talks \subseteq present /\ present \subseteq People

SpeechInvariant ==
  /\ Typed /\ Parted /\ Visible
  /\ Farewell /\ Connections /\ Ordered /\ Covering

----------------------------------------------------------------------------
(* How the pending events change.                                          *)

\* An event before the queue.
LEMMA InHand ==
  ASSUME NEW q \in Seq(EventRecord), NEW e \in EventRecord
  PROVE  /\ <<e>> \o q \in Seq(EventRecord) /\ Len(<<e>> \o q) = Len(q) + 1
         /\ (<<e>> \o q)[1] = e
         /\ \A i \in 1..Len(q) : (<<e>> \o q)[i + 1] = q[i]
<1> DEFINE s == <<e>>
<1>1. s \in Seq(EventRecord) /\ Len(s) = 1 /\ s[1] = e
  OBVIOUS
<1>2. Len(q) \in Nat
  BY LenProperties
<1> HIDE DEF s
<1>3. /\ s \o q \in Seq(EventRecord) /\ Len(s \o q) = 1 + Len(q)
      /\ \A i \in 1..(1 + Len(q)) : (s \o q)[i] = IF i <= 1 THEN s[i] ELSE q[i - 1]
  <2>1. /\ s \o q \in Seq(EventRecord) /\ Len(s \o q) = Len(s) + Len(q)
        /\ \A i \in 1..(Len(s) + Len(q)) : (s \o q)[i] = IF i <= Len(s) THEN s[i] ELSE q[i - Len(s)]
    BY <1>1, ConcatProperties
  <2> QED BY <1>1, <2>1
<1>4. (s \o q)[1] = e
  BY <1>1, <1>2, <1>3
<1>5. ASSUME NEW i \in 1..Len(q) PROVE (s \o q)[i + 1] = q[i]
  <2>1. i + 1 \in 1..(1 + Len(q)) /\ ~(i + 1 <= 1) /\ (i + 1) - 1 = i
    BY <1>2
  <2> QED BY <1>3, <2>1
<1> QED BY <1>2, <1>3, <1>4, <1>5 DEF s

\* What is pending starts with the event Run has, if it has one.
PendingIs ==
  /\ Pending \in Seq(EventRecord)
  /\ place = "select" => Pending = queue
  /\ place # "select" => /\ Len(Pending) = Len(queue) + 1 /\ Pending[1] = hand
                         /\ \A i \in 1..Len(queue) : Pending[i + 1] = queue[i]

LEMMA PendingNow ==
  ASSUME queue \in Seq(EventRecord), place # "select" => hand \in EventRecord
  PROVE  PendingIs
BY InHand DEF Pending, PendingIs

LEMMA PendingNext ==
  ASSUME queue' \in Seq(EventRecord), place' # "select" => hand' \in EventRecord
  PROVE  PendingIs'
BY InHand DEF Pending, PendingIs

\* r is q without its first element.
Handled(q, r) == Len(q) = Len(r) + 1 /\ \A i \in 1..Len(r) : r[i] = q[i + 1]

\* r is q with the first k events of the batch, numbered from n + 1.
Added(q, r, n, batch, k) ==
  /\ Len(r) = Len(q) + k /\ \A i \in 1..Len(q) : r[i] = q[i]
  /\ \A j \in 1..k : r[Len(q) + j] = [seq |-> n + j, kind |-> batch[j].kind,
                                     who |-> batch[j].who, muted |-> batch[j].muted]

Message == {e \in [kind : Kinds, who : People, muted : BOOLEAN] : Plain(e)}

\* The end of q's speech is in the batch, but not among its first k events.
Lost(batch, k, q) ==
  \E j \in (k + 1)..Len(batch) : batch[j].who = q /\ batch[j].kind \in {"off", "leave"}

\* What a step of the conference does to the events, if the client reads.
Reads(batch) ==
  \E k \in 0..Len(batch) :
    /\ Added(Pending, Pending', received, batch, k)
    /\ received' = received + Len(batch)
    /\ IF k = Len(batch) THEN missed' = missed ELSE missed' = "since"
    /\ \A q \in People : unheard'[q] = IF Lost(batch, k, q) THEN received' ELSE unheard[q]

\* And if it does not.
Misses == /\ missed' = "since" /\ ~Reading /\ received' = received /\ Pending' = Pending
          /\ unheard' = unheard

LEMMA SendReads ==
  ASSUME SpeakingAssumption, Typed, NEW batch \in Seq(Message), Send(batch),
         UNCHANGED <<handler, list, limits>>
  PROVE  Counted' /\ Queued' /\ ((Reads(batch) /\ Reading) \/ Misses)
<1> USE DEF handler, limits
<1>p. PendingIs
  BY PendingNow DEF Typed, Queued
<1>1. CASE ~Reading
  <2>1. UNCHANGED <<received, queue, unheard, hand, place>> /\ missed' = "since"
    BY <1>1 DEF Send, events
  <2>2. Pending' = Pending
    BY <2>1 DEF Pending
  <2> QED BY <1>1, <2>1, <2>2 DEF Misses, Typed, Counted, Queued
<1>2. CASE Reading
  <2> DEFINE b == Len(batch)
             k == IF b <= QueueSize - Len(queue) THEN b ELSE QueueSize - Len(queue)
             numbered == [i \in 1..b |-> [seq |-> received + i, kind |-> batch[i].kind,
                                         who |-> batch[i].who, muted |-> batch[i].muted]]
  <2>1. /\ received' = received + b /\ queue' = queue \o SubSeq(numbered, 1, k)
        /\ missed' = IF k < b THEN "since" ELSE missed
        /\ unheard' = [q \in People |-> IF Lost(batch, k, q) THEN received' ELSE unheard[q]]
    BY <1>2 DEF Send, Lost
  <2>2. b \in Nat /\ k \in 0..b /\ Len(queue) \in Nat /\ Len(queue) + k <= QueueSize
    BY LenProperties DEF Typed, Queued, SpeakingAssumption
  <2>3. /\ numbered \in Seq(EventRecord) /\ Len(numbered) = b
    <3>1. \A i \in 1..b : batch[i] \in Message
      BY ElementOfSeq
    <3> HIDE DEF b
    <3>2. numbered \in [1..b -> EventRecord]
      BY <3>1, <2>2 DEF Message, EventRecord, Typed, Counted, Plain
    <3> QED BY <3>2, <2>2
  <2> HIDE DEF b, k
  <2> DEFINE kept == SubSeq(numbered, 1, k)
  <2>4. /\ kept \in Seq(EventRecord) /\ Len(kept) = k
        /\ \A j \in 1..k : kept[j] = numbered[j]
    <3>1. \A j \in 1..k : numbered[j] \in EventRecord
      BY <2>2, <2>3, ElementOfSeq
    <3> HIDE DEF numbered
    <3> QED BY <2>2, <3>1, SubSeqProperties
  <2>5. \A j \in 1..k : kept[j] = [seq |-> received + j, kind |-> batch[j].kind,
                                  who |-> batch[j].who, muted |-> batch[j].muted]
    BY <2>4, <2>2
  <2>6. queue' = queue \o kept
    BY <2>1
  <2> HIDE DEF kept
  <2>7. /\ queue' \in Seq(EventRecord) /\ Len(queue') = Len(queue) + k
        /\ \A i \in 1..Len(queue) : queue'[i] = queue[i]
        /\ \A j \in 1..k : queue'[Len(queue) + j] = kept[j]
    <3>1. /\ queue' \in Seq(EventRecord) /\ Len(queue') = Len(queue) + k
          /\ \A i \in 1..(Len(queue) + k) :
               queue'[i] = IF i <= Len(queue) THEN queue[i] ELSE kept[i - Len(queue)]
      <4>1. queue \in Seq(EventRecord)
        BY DEF Typed, Queued
      <4>2. /\ queue \o kept \in Seq(EventRecord) /\ Len(queue \o kept) = Len(queue) + Len(kept)
            /\ \A i \in 1..(Len(queue) + Len(kept)) :
                 (queue \o kept)[i] = IF i <= Len(queue) THEN queue[i] ELSE kept[i - Len(queue)]
        BY <4>1, <2>4, ConcatProperties
      <4> QED BY <2>6, <2>4, <4>2
    <3>2. ASSUME NEW j \in 1..k PROVE queue'[Len(queue) + j] = kept[j]
      <4>1. Len(queue) + j \in 1..(Len(queue) + k) /\ (Len(queue) + j) - Len(queue) = j
            /\ ~(Len(queue) + j <= Len(queue))
        BY <2>2
      <4> QED BY <3>1, <4>1
    <3> QED BY <3>1, <3>2, <2>2
  <2>8. PendingIs'
    BY <2>7, PendingNext DEF Typed, Queued
  <2>9. Added(Pending, Pending', received, batch, k)
    <3>1. CASE place = "select"
      BY <1>p, <3>1, <2>5, <2>7, <2>8 DEF PendingIs, Added
    <3>2. CASE place # "select"
      <4>1. Len(Pending') = Len(Pending) + k
        BY <1>p, <3>2, <2>2, <2>7, <2>8 DEF PendingIs
      <4>2. ASSUME NEW i \in 1..Len(Pending) PROVE Pending'[i] = Pending[i]
        <5>1. CASE i = 1
          BY <1>p, <3>2, <2>8, <5>1 DEF PendingIs
        <5>2. CASE i # 1
          <6>1. i - 1 \in 1..Len(queue) /\ i = (i - 1) + 1 /\ i - 1 \in 1..Len(queue')
            BY <1>p, <3>2, <2>2, <2>7, <5>2 DEF PendingIs
          <6> QED BY <1>p, <3>2, <2>7, <2>8, <6>1, SMTT(30) DEF PendingIs
        <5> QED BY <5>1, <5>2
      <4>3. ASSUME NEW j \in 1..k PROVE Pending'[Len(Pending) + j] = kept[j]
        <5>1. /\ Len(queue) + j \in 1..Len(queue')
              /\ Len(Pending) + j = (Len(queue) + j) + 1
          <6>1. Len(Pending) = Len(queue) + 1
            BY <1>p, <3>2 DEF PendingIs
          <6> QED BY <6>1, <2>2, <2>7
        <5> QED BY <3>2, <2>7, <2>8, <5>1 DEF PendingIs
      <4> QED BY <4>1, <4>2, <4>3, <2>5 DEF Added
    <3> QED BY <3>1, <3>2
  <2>10. Reads(batch)
    <3>1. IF k = b THEN missed' = missed ELSE missed' = "since"
      BY <2>1, <2>2
    <3>2. \A q \in People : unheard'[q] = IF Lost(batch, k, q) THEN received' ELSE unheard[q]
      BY <2>1
    <3> QED BY <2>1, <2>2, <2>9, <3>1, <3>2 DEF Reads, b
  <2>11. Counted'
    <3>1. /\ received' \in Nat /\ received <= received' /\ missed' \in {"none", "before", "since"}
      BY <2>1, <2>2 DEF Counted, Typed
    <3>2. UNCHANGED <<list, ignoreThrough, talkingIgnoreThrough>>
      OBVIOUS
    <3>3. unheard' \in [People -> 0..received']
      BY <2>1, <2>2, <3>1 DEF Counted, Typed
    <3> QED BY <3>1, <3>2, <3>3 DEF Counted, Typed, ListRecord
  <2>12. \A i \in DOMAIN Pending' : Pending'[i].seq <= received'
    <3>1. /\ DOMAIN Pending = 1..Len(Pending) /\ DOMAIN Pending' = 1..Len(Pending')
          /\ Len(Pending) \in Nat
      BY <1>p, <2>8, LenProperties DEF PendingIs
    <3> SUFFICES ASSUME NEW i \in 1..Len(Pending') PROVE Pending'[i].seq <= received'
      BY <3>1
    <3>2. CASE i \in 1..Len(Pending)
      <4>1. Pending'[i] = Pending[i] /\ Pending[i].seq <= received /\ Pending[i] \in EventRecord
        BY <3>1, <3>2, <2>9, <1>p, ElementOfSeq DEF Added, Typed, Queued, PendingIs
      <4> QED BY <4>1, <2>1, <2>2 DEF EventRecord, Typed, Counted
    <3>3. CASE i \notin 1..Len(Pending)
      <4>1. PICK j \in 1..k : i = Len(Pending) + j
        <5>1. i - Len(Pending) \in 1..k
          BY <3>1, <3>3, <2>2, <2>9 DEF Added
        <5> QED BY <5>1, <3>1
      <4>2. Pending'[i].seq = received + j
        <5>1. Pending'[Len(Pending) + j] = [seq |-> received + j, kind |-> batch[j].kind,
                                            who |-> batch[j].who, muted |-> batch[j].muted]
          BY <2>9 DEF Added
        <5> QED BY <4>1, <5>1
      <4> QED BY <4>1, <4>2, <2>1, <2>2 DEF Typed, Counted
    <3> QED BY <3>2, <3>3
  <2>13. Queued'
    BY <2>2, <2>7, <2>12 DEF Queued, Typed
  <2> QED BY <1>2, <2>10, <2>11, <2>13 DEF Typed
<1> QED BY <1>1, <1>2

\* The step is about p alone, and the last events of each kind in the batch say
\* what it has done.
Tells(p, batch) ==
  /\ \A i \in 1..Len(batch) : batch[i].who = p
  /\ \A d : d # p => /\ d \in inside' <=> d \in inside
                     /\ d \in muted' <=> d \in muted
                     /\ d \in speaking' <=> d \in speaking
  /\ came \subseteq came' /\ (p \in inside' /\ p \in came => p \in inside)
  /\ \/ p \in inside' <=> p \in inside
     \/ \E i \in 1..Len(batch) : batch[i].kind \in Presence
  /\ \/ p \notin inside'
     \/ p \in inside /\ (p \in muted' <=> p \in muted)
     \/ \E i \in 1..Len(batch) : batch[i].kind \in Microphone
  /\ p \in speaking => \/ p \in speaking'
                       \/ \E i \in 1..Len(batch) : batch[i].kind \in {"off", "leave"}
  /\ \A i \in 1..Len(batch) :
       /\ batch[i].kind \in Presence => (batch[i].kind = "join" <=> p \in inside')
       /\ batch[i].kind \in Microphone /\ p \in inside' => (batch[i].muted <=> p \in muted')
       /\ batch[i].kind = "on" => p \in speaking'
       /\ batch[i].kind = "join" => p \notin came
       /\ batch[i].kind = "leave" => Len(batch) = 1 /\ p \in came' /\ p \notin inside'

LEMMA ConferenceTells ==
  ASSUME Typed, NEW p \in People,
         \/ Joins(p) \/ Leaves(p) \/ Speaks(p) \/ FallsSilent(p)
         \/ \E off \in BOOLEAN : Switch(p, off)
  PROVE  \E batch \in Seq(Message) :
           Send(batch) /\ Tells(p, batch) /\ Members' /\ UNCHANGED Environment
<1> USE DEF Presence, Microphone
<1> DEFINE Fits(kind) == /\ kind = "mute" => p \in muted'
                         /\ kind = "unmute" => p \notin muted'
<1>1. ASSUME NEW kind \in Kinds, Fits(kind)
      PROVE  /\ Event(kind, p) \in Message /\ Event(kind, p).kind = kind
             /\ Event(kind, p).who = p /\ (Event(kind, p).muted <=> p \in muted')
  <2> DEFINE m == p \in muted'
  <2>1. Event(kind, p) = [kind |-> kind, who |-> p, muted |-> m]
    BY DEF Event
  <2>2. m \in BOOLEAN
    OBVIOUS
  <2>3. Event(kind, p).muted = m
    <3> HIDE DEF m
    <3> QED BY <2>1, <2>2
  <2>4. Event(kind, p) \in Message /\ Event(kind, p).kind = kind /\ Event(kind, p).who = p
    <3>1. (kind = "mute" => m) /\ (kind = "unmute" => ~m)
      BY <1>1
    <3> HIDE DEF m
    <3> QED BY <2>1, <2>2, <3>1 DEF Message, Plain
  <2> QED BY <2>3, <2>4
<1>2. ASSUME NEW kind \in Kinds, Fits(kind)
      PROVE  LET b == <<Event(kind, p)>>
             IN  b \in Seq(Message) /\ Len(b) = 1 /\ b[1] = Event(kind, p)
  BY <1>1, <1>2
<1>3. ASSUME NEW kind \in Kinds, NEW other \in Kinds, Fits(kind), Fits(other)
      PROVE  LET b == <<Event(kind, p), Event(other, p)>>
             IN  b \in Seq(Message) /\ Len(b) = 2 /\ b[1] = Event(kind, p) /\ b[2] = Event(other, p)
  BY <1>1, <1>3
<1> HIDE DEF Presence, Microphone
<1>4. CASE Joins(p)
  <2> DEFINE b == <<Event("join", p)>>
  <2>1. b \in Seq(Message) /\ Len(b) = 1 /\ b[1].kind = "join" /\ b[1].who = p
        /\ (b[1].muted <=> p \in muted')
    BY <1>1, <1>2 DEF Kinds
  <2>2. Send(b)
    BY <1>4 DEF Joins
  <2> HIDE DEF b
  <2>3. Tells(p, b)
    BY <1>4, <2>1 DEF Joins, Tells, Presence, Microphone
  <2>4. Members' /\ UNCHANGED Environment
    BY <1>4 DEF Joins, Members, Typed
  <2> QED BY <2>1, <2>2, <2>3, <2>4
<1>5. CASE Leaves(p)
  <2> DEFINE b == <<Event("leave", p)>>
  <2>1. b \in Seq(Message) /\ Len(b) = 1 /\ b[1].kind = "leave" /\ b[1].who = p
    BY <1>1, <1>2 DEF Kinds
  <2>2. Send(b)
    BY <1>5 DEF Leaves
  <2> HIDE DEF b
  <2>3. Tells(p, b)
    BY <1>5, <2>1 DEF Leaves, Tells, Presence, Microphone, Typed, Members
  <2>4. Members' /\ UNCHANGED Environment
    BY <1>5 DEF Leaves, Members, Typed
  <2> QED BY <2>1, <2>2, <2>3, <2>4
<1>6. CASE Speaks(p)
  <2> DEFINE b == <<Event("on", p)>>
  <2>1. b \in Seq(Message) /\ Len(b) = 1 /\ b[1].kind = "on" /\ b[1].who = p
    BY <1>1, <1>2 DEF Kinds
  <2>2. Send(b)
    BY <1>6 DEF Speaks
  <2> HIDE DEF b
  <2>3. Tells(p, b)
    BY <1>6, <2>1 DEF Speaks, Tells, Presence, Microphone
  <2>4. Members' /\ UNCHANGED Environment
    BY <1>6 DEF Speaks, Members, Typed
  <2> QED BY <2>1, <2>2, <2>3, <2>4
<1>7. CASE FallsSilent(p)
  <2> DEFINE b == <<Event("off", p)>>
  <2>1. b \in Seq(Message) /\ Len(b) = 1 /\ b[1].kind = "off" /\ b[1].who = p
    BY <1>1, <1>2 DEF Kinds
  <2>2. Send(b)
    BY <1>7 DEF FallsSilent
  <2> HIDE DEF b
  <2>3. Tells(p, b)
    BY <1>7, <2>1 DEF FallsSilent, Tells, Presence, Microphone
  <2>4. Members' /\ UNCHANGED Environment
    BY <1>7 DEF FallsSilent, Members, Typed
  <2> QED BY <2>1, <2>2, <2>3, <2>4
<1>8. ASSUME NEW off \in BOOLEAN, Switch(p, off)
      PROVE  \E batch \in Seq(Message) :
               Send(batch) /\ Tells(p, batch) /\ Members' /\ UNCHANGED Environment
  <2>1. Members' /\ UNCHANGED Environment /\ UNCHANGED <<came, inside>> /\ p \in inside
    BY <1>8 DEF Switch, Members, Typed
  <2>2. CASE ~off
    <3> DEFINE b == <<Event("unmute", p)>>
    <3>1. Send(b) /\ muted' = muted \ {p} /\ UNCHANGED speaking
      BY <1>8, <2>2 DEF Switch
    <3>2. b \in Seq(Message) /\ Len(b) = 1 /\ b[1].kind = "unmute" /\ b[1].who = p
          /\ (b[1].muted <=> p \in muted')
      BY <3>1, <1>1, <1>2 DEF Kinds
    <3> HIDE DEF b
    <3>3. Tells(p, b)
      BY <2>1, <3>1, <3>2 DEF Tells, Presence, Microphone
    <3> QED BY <2>1, <3>1, <3>2, <3>3
  <2>3. CASE off /\ p \notin speaking
    <3> DEFINE b == <<Event("mute", p)>>
    <3>1. Send(b) /\ muted' = muted \union {p} /\ speaking' = speaking \ {p}
      BY <1>8, <2>3 DEF Switch
    <3>2. b \in Seq(Message) /\ Len(b) = 1 /\ b[1].kind = "mute" /\ b[1].who = p
          /\ (b[1].muted <=> p \in muted')
      BY <3>1, <1>1, <1>2 DEF Kinds
    <3> HIDE DEF b
    <3>3. Tells(p, b)
      BY <2>1, <2>3, <3>1, <3>2 DEF Tells, Presence, Microphone
    <3> QED BY <2>1, <3>1, <3>2, <3>3
  <2>4. CASE off /\ p \in speaking
    <3>1. /\ muted' = muted \union {p} /\ speaking' = speaking \ {p}
          /\ \/ Send(<<Event("mute", p), Event("off", p)>>)
             \/ Send(<<Event("off", p), Event("mute", p)>>)
      BY <1>8, <2>4 DEF Switch
    <3>2. ASSUME NEW kind \in {"mute", "off"}, NEW other \in {"mute", "off"} \ {kind},
                 Send(<<Event(kind, p), Event(other, p)>>)
          PROVE  \E batch \in Seq(Message) : Send(batch) /\ Tells(p, batch)
      <4> DEFINE b == <<Event(kind, p), Event(other, p)>>
      <4>1. b \in Seq(Message) /\ Len(b) = 2 /\ b[1].kind = kind /\ b[1].who = p
            /\ b[2].kind = other /\ b[2].who = p
            /\ (b[1].muted <=> p \in muted') /\ (b[2].muted <=> p \in muted')
        <5>1. kind \in Kinds /\ other \in Kinds /\ Fits(kind) /\ Fits(other)
          BY <3>1 DEF Kinds
        <5> QED BY <5>1, <1>1, <1>3
      <4>2. Send(b)
        BY <3>2
      <4> HIDE DEF b
      <4>3. /\ \A i \in 1..Len(b) : /\ b[i].who = p /\ (b[i].muted <=> p \in muted')
                                    /\ b[i].kind \in {"mute", "off"}
            /\ \E i \in 1..Len(b) : b[i].kind = "mute"
            /\ \E i \in 1..Len(b) : b[i].kind = "off"
        BY <4>1
      <4>4. Tells(p, b)
        BY <2>1, <3>1, <4>3 DEF Tells, Presence, Microphone
      <4> QED BY <4>1, <4>2, <4>4
    <3> QED BY <2>1, <3>1, <3>2
  <2> QED BY <2>2, <2>3, <2>4
<1> QED BY <1>4, <1>5, <1>6, <1>7, <1>8

----------------------------------------------------------------------------
(* Last words.                                                             *)

\* The last word of a longer queue is the batch's, if it has any.
LEMMA LastOfAdded ==
  ASSUME NEW q \in Seq(EventRecord), NEW r \in Seq(EventRecord), NEW batch \in Seq(Message),
         NEW m \in Nat, NEW n \in Nat, n <= m, Added(q, r, m, batch, Len(batch)),
         NEW p, NEW kinds
  PROVE  LET Mentions(j) == batch[j].who = p /\ batch[j].kind \in kinds
             last(s, i) == Bears(s[i], n, p, kinds) /\ Silent(s, i, n, p, kinds)
         IN  /\ Silent(r, 0, n, p, kinds) =>
                  Silent(q, 0, n, p, kinds) /\ \A j \in 1..Len(batch) : ~Mentions(j)
             /\ \A i \in DOMAIN r : last(r, i) =>
                  \/ /\ i \in DOMAIN q /\ r[i] = q[i] /\ last(q, i)
                     /\ \A j \in 1..Len(batch) : ~Mentions(j)
                  \/ \E j \in 1..Len(batch) :
                       Mentions(j) /\ r[i].kind = batch[j].kind /\ r[i].muted = batch[j].muted
<1> DEFINE Mentions(j) == batch[j].who = p /\ batch[j].kind \in kinds
           last(s, i) == Bears(s[i], n, p, kinds) /\ Silent(s, i, n, p, kinds)
<1>1. /\ Len(q) \in Nat /\ Len(batch) \in Nat /\ Len(r) = Len(q) + Len(batch)
      /\ DOMAIN q = 1..Len(q) /\ DOMAIN r = 1..Len(r)
      /\ \A i \in 1..Len(q) : r[i] = q[i]
  BY LenProperties DEF Added
<1>2. ASSUME NEW j \in 1..Len(batch)
      PROVE  /\ Len(q) + j \in DOMAIN r /\ Len(q) + j > Len(q)
             /\ r[Len(q) + j].kind = batch[j].kind /\ r[Len(q) + j].muted = batch[j].muted
             /\ Bears(r[Len(q) + j], n, p, kinds) <=> Mentions(j)
  <2>1. r[Len(q) + j] = [seq |-> m + j, kind |-> batch[j].kind,
                         who |-> batch[j].who, muted |-> batch[j].muted]
    BY DEF Added
  <2>2. m + j > n /\ Len(q) + j \in DOMAIN r /\ Len(q) + j > Len(q)
    BY <1>1
  <2> HIDE DEF Added
  <2> QED BY <2>1, <2>2 DEF Bears
<1>3. ASSUME NEW i \in 0..Len(q), Silent(r, i, n, p, kinds)
      PROVE  Silent(q, i, n, p, kinds) /\ \A j \in 1..Len(batch) : ~Mentions(j)
  <2>1. Silent(q, i, n, p, kinds)
    BY <1>1, <1>3 DEF Silent
  <2>2. ASSUME NEW j \in 1..Len(batch) PROVE ~Mentions(j)
    <3>1. Len(q) + j > i
      BY <1>1
    <3> QED BY <1>2, <1>3, <3>1 DEF Silent
  <2> QED BY <2>1, <2>2
<1>4. ASSUME NEW i \in DOMAIN r, last(r, i)
      PROVE  \/ /\ i \in DOMAIN q /\ r[i] = q[i] /\ last(q, i)
                /\ \A j \in 1..Len(batch) : ~Mentions(j)
             \/ \E j \in 1..Len(batch) :
                  Mentions(j) /\ r[i].kind = batch[j].kind /\ r[i].muted = batch[j].muted
  <2>1. CASE i \in 1..Len(q)
    <3>1. r[i] = q[i] /\ i \in 0..Len(q)
      BY <1>1, <2>1
    <3> QED BY <1>1, <1>3, <1>4, <2>1, <3>1
  <2>2. CASE i \notin 1..Len(q)
    <3>1. PICK j \in 1..Len(batch) : i = Len(q) + j
      <4>1. i - Len(q) \in 1..Len(batch) /\ i = Len(q) + (i - Len(q))
        BY <1>1, <2>2
      <4> QED BY <4>1
    <3> QED BY <1>2, <1>4, <3>1
  <2> QED BY <2>1, <2>2
<1> QED BY <1>1, <1>3, <1>4

\* Without its first element a queue has the same last word, unless that was it.
LEMMA LastOfHandled ==
  ASSUME NEW q \in Seq(EventRecord), NEW r \in Seq(EventRecord), Handled(q, r),
         NEW n, NEW p, NEW kinds
  PROVE  /\ 1 \in DOMAIN q
         /\ Silent(r, 0, n, p, kinds) => Silent(q, 1, n, p, kinds)
         /\ Silent(r, 0, n, p, kinds) /\ ~Bears(q[1], n, p, kinds) => Silent(q, 0, n, p, kinds)
         /\ \A i \in DOMAIN r : /\ i + 1 \in DOMAIN q /\ r[i] = q[i + 1]
                                /\ Silent(r, i, n, p, kinds) => Silent(q, i + 1, n, p, kinds)
<1>1. /\ Len(r) \in Nat /\ Len(q) = Len(r) + 1 /\ DOMAIN q = 1..Len(q) /\ DOMAIN r = 1..Len(r)
      /\ \A i \in 1..Len(r) : r[i] = q[i + 1]
  BY LenProperties DEF Handled
<1>2. ASSUME NEW i \in 0..Len(r), Silent(r, i, n, p, kinds)
      PROVE  Silent(q, i + 1, n, p, kinds)
  <2> SUFFICES ASSUME NEW j \in DOMAIN q, j > i + 1 PROVE ~Bears(q[j], n, p, kinds)
    BY DEF Silent
  <2>1. j - 1 \in DOMAIN r /\ j - 1 > i /\ (j - 1) + 1 = j
    BY <1>1
  <2> QED BY <1>1, <1>2, <2>1 DEF Silent
<1>3. ASSUME Silent(q, 1, n, p, kinds), ~Bears(q[1], n, p, kinds)
      PROVE  Silent(q, 0, n, p, kinds)
  BY <1>1, <1>3 DEF Silent
<1>4. Silent(r, 0, n, p, kinds) => Silent(q, 1, n, p, kinds)
  BY <1>1, <1>2
<1>5. \A i \in DOMAIN r : /\ i + 1 \in DOMAIN q /\ r[i] = q[i + 1]
                          /\ Silent(r, i, n, p, kinds) => Silent(q, i + 1, n, p, kinds)
  BY <1>1, <1>2
<1> QED BY <1>1, <1>3, <1>4, <1>5

\* What is said of a step of the conference keeps both claims.
LEMMA TellingKeeps ==
  ASSUME NEW q \in Seq(EventRecord), NEW r \in Seq(EventRecord), NEW batch \in Seq(Message),
         NEW m \in Nat, NEW n \in Nat, n <= m, Added(q, r, m, batch, Len(batch)),
         NEW p, Tells(p, batch), NEW d
  PROVE  /\ Words(q, n, d, inside, muted) => Words(r, n, d, inside', muted')
         /\ \A found, foundOff :
              Right(q, n, d, found, foundOff, inside, muted)
                => Right(r, n, d, found, foundOff, inside', muted')
<1> DEFINE Mentions(j, kinds) == batch[j].who = d /\ batch[j].kind \in kinds
           Unsaid(kinds) == \A j \in 1..Len(batch) : ~Mentions(j, kinds)
<1>1. Unsaid(Presence) => (d \in inside' <=> d \in inside)
  BY DEF Tells
<1>2. Unsaid(Microphone) /\ d \in inside' => d \in inside /\ (d \in muted' <=> d \in muted)
  BY DEF Tells
<1>3. ASSUME NEW j \in 1..Len(batch)
      PROVE  /\ Mentions(j, Presence) => (batch[j].kind = "join" <=> d \in inside')
             /\ Mentions(j, Microphone) /\ d \in inside' => (batch[j].muted <=> d \in muted')
  BY DEF Tells
<1>4. ASSUME NEW kinds
      PROVE  /\ Silent(r, 0, n, d, kinds) => Silent(q, 0, n, d, kinds) /\ Unsaid(kinds)
             /\ \A i \in DOMAIN r : Bears(r[i], n, d, kinds) /\ Silent(r, i, n, d, kinds) =>
                  \/ /\ i \in DOMAIN q /\ r[i] = q[i] /\ Unsaid(kinds)
                     /\ Bears(q[i], n, d, kinds) /\ Silent(q, i, n, d, kinds)
                  \/ \E j \in 1..Len(batch) :
                       /\ Mentions(j, kinds)
                       /\ r[i].kind = batch[j].kind /\ r[i].muted = batch[j].muted
  BY LastOfAdded
<1> HIDE DEF Unsaid
<1>5. ASSUME Words(q, n, d, inside, muted) PROVE Words(r, n, d, inside', muted')
  <2>1. ASSUME NEW i \in DOMAIN r, Bears(r[i], n, d, Presence), Silent(r, i, n, d, Presence)
        PROVE  r[i].kind = "join" <=> d \in inside'
    BY <1>1, <1>3, <1>4, <1>5, <2>1 DEF Words
  <2>2. ASSUME d \in inside',
               NEW i \in DOMAIN r, Bears(r[i], n, d, Microphone), Silent(r, i, n, d, Microphone)
        PROVE  r[i].muted <=> d \in muted'
    BY <1>2, <1>3, <1>4, <1>5, <2>2, SMTT(30) DEF Words
  <2> QED BY <2>1, <2>2 DEF Words
<1>6. ASSUME NEW found, NEW foundOff, Right(q, n, d, found, foundOff, inside, muted)
      PROVE  Right(r, n, d, found, foundOff, inside', muted')
  BY <1>1, <1>2, <1>4, <1>6 DEF Right
<1> QED BY <1>5, <1>6

\* An element that does not count or is of no such kind leaves what the rest says.
LEMMA DroppingKeeps ==
  ASSUME NEW q \in Seq(EventRecord), NEW r \in Seq(EventRecord), Handled(q, r),
         NEW n, NEW d, NEW there, NEW off
  PROVE  /\ Words(q, n, d, there, off) => Words(r, n, d, there, off)
         /\ ~Bears(q[1], n, d, Presence) /\ ~Bears(q[1], n, d, Microphone) =>
              \A found, foundOff : Right(q, n, d, found, foundOff, there, off)
                                     => Right(r, n, d, found, foundOff, there, off)
<1>1. ASSUME NEW kinds
      PROVE  /\ Silent(r, 0, n, d, kinds) /\ ~Bears(q[1], n, d, kinds) => Silent(q, 0, n, d, kinds)
             /\ \A i \in DOMAIN r : /\ i + 1 \in DOMAIN q /\ r[i] = q[i + 1]
                                    /\ Silent(r, i, n, d, kinds) => Silent(q, i + 1, n, d, kinds)
  BY LastOfHandled
<1>p. \A i \in DOMAIN r : /\ i + 1 \in DOMAIN q /\ r[i] = q[i + 1]
                          /\ Silent(r, i, n, d, Presence) => Silent(q, i + 1, n, d, Presence)
  BY <1>1
<1>m. \A i \in DOMAIN r : /\ i + 1 \in DOMAIN q /\ r[i] = q[i + 1]
                          /\ Silent(r, i, n, d, Microphone) => Silent(q, i + 1, n, d, Microphone)
  BY <1>1
<1>2. ASSUME Words(q, n, d, there, off) PROVE Words(r, n, d, there, off)
  <2>1. ASSUME NEW i \in DOMAIN r, Bears(r[i], n, d, Presence), Silent(r, i, n, d, Presence)
        PROVE  r[i].kind = "join" <=> d \in there
    <3>1. i + 1 \in DOMAIN q /\ r[i] = q[i + 1] /\ Silent(q, i + 1, n, d, Presence)
      BY <1>p, <2>1
    <3> QED BY <1>2, <2>1, <3>1 DEF Words
  <2>2. ASSUME d \in there,
               NEW i \in DOMAIN r, Bears(r[i], n, d, Microphone), Silent(r, i, n, d, Microphone)
        PROVE  r[i].muted <=> d \in off
    <3>1. i + 1 \in DOMAIN q /\ r[i] = q[i + 1] /\ Silent(q, i + 1, n, d, Microphone)
      BY <1>m, <2>2
    <3> QED BY <1>2, <2>2, <3>1 DEF Words
  <2> QED BY <2>1, <2>2 DEF Words
<1>3. ASSUME ~Bears(q[1], n, d, Presence), ~Bears(q[1], n, d, Microphone),
             NEW found, NEW foundOff, Right(q, n, d, found, foundOff, there, off)
      PROVE  Right(r, n, d, found, foundOff, there, off)
  BY <1>1, <1>3 DEF Right
<1> QED BY <1>2, <1>3

\* Events up to n say nothing.
LEMMA NothingSince ==
  ASSUME NEW q, NEW n, \A i \in DOMAIN q : ~(q[i].seq > n), NEW p, NEW there, NEW off
  PROVE  Words(q, n, p, there, off)
BY DEF Words, Bears

\* Applying an event that counts makes the roster right about what the rest is
\* silent on.  A mute is not applied to somebody the roster does not show, but
\* then somebody who is there is still to join.
LEMMA ApplyingKeeps ==
  ASSUME NEW q \in Seq(EventRecord), NEW r \in Seq(EventRecord), Handled(q, r),
         NEW n \in Nat, q[1].seq > n, q[1].kind \notin {"on", "off"}, Apply(q[1]), NEW d,
         NEW there, NEW off,
         \A i \in DOMAIN q : q[i].kind = "leave" => q[i].who \notin there,
         Words(q, n, d, there, off), Right(q, n, d, present, mutes, there, off)
  PROVE  Right(r, n, d, present', mutes', there, off)
<1> DEFINE e == q[1]
<1>1. ASSUME NEW kinds
      PROVE  /\ 1 \in DOMAIN q
             /\ Silent(r, 0, n, d, kinds) => Silent(q, 1, n, d, kinds)
             /\ Silent(r, 0, n, d, kinds) /\ ~Bears(e, n, d, kinds) => Silent(q, 0, n, d, kinds)
  BY LastOfHandled
<1>e. e \in EventRecord /\ e.kind \in {"join", "leave", "mute", "unmute"} /\ Plain(e)
  <2>1. e \in EventRecord
    BY <1>1, LenProperties, ElementOfSeq
  <2> QED BY <2>1 DEF EventRecord, Kinds
<1>2. ASSUME Silent(r, 0, n, d, Presence) PROVE d \in present' <=> d \in there
  <2>1. CASE Bears(e, n, d, Presence)
    <3>1. e.kind = "join" <=> d \in there
      BY <1>1, <1>2, <2>1 DEF Words
    <3> QED BY <1>e, <2>1, <3>1 DEF Apply, Bears, Presence
  <2>2. CASE ~Bears(e, n, d, Presence)
    <3>1. d \in present <=> d \in there
      BY <1>1, <1>2, <2>2 DEF Right
    <3>2. e.who # d \/ e.kind \notin {"join", "leave"}
      BY <2>2 DEF Bears, Presence
    <3> QED BY <1>e, <3>1, <3>2 DEF Apply
  <2> QED BY <2>1, <2>2
<1>3. ASSUME d \in there, Silent(r, 0, n, d, Microphone) PROVE d \in mutes' <=> d \in off
  \* There is no join left, so whoever is there is not to leave either.
  <2>1. e.kind # "join" /\ e.who = d => Silent(r, 0, n, d, Presence) /\ e.kind # "leave"
    <3> SUFFICES ASSUME e.kind # "join", e.who = d
                 PROVE  Silent(r, 0, n, d, Presence) /\ e.kind # "leave"
      OBVIOUS
    <3>1. e.kind # "leave"
      BY <1>1, <1>3
    <3>2. ASSUME NEW i \in DOMAIN r PROVE ~Bears(r[i], n, d, Presence)
      <4>1. r[i] = q[i + 1] /\ i + 1 \in DOMAIN q /\ i > 0
        BY LenProperties DEF Handled
      <4>2. ~Bears(r[i], n, d, Microphone)
        BY <1>3, <4>1 DEF Silent
      <4> QED BY <1>3, <4>1, <4>2 DEF Bears, Presence, Microphone
    <3> QED BY <3>1, <3>2 DEF Silent
  <2>2. CASE e.who # d
    <3>1. d \in mutes <=> d \in off
      BY <1>1, <1>3, <2>2 DEF Right, Bears
    <3> QED BY <1>e, <2>2, <3>1 DEF Apply
  <2>3. CASE e.who = d /\ e.kind \in Microphone
    <3>1. e.muted <=> d \in off
      BY <1>1, <1>3, <2>3 DEF Words, Bears
    <3>2. CASE e.kind = "join"
      BY <2>3, <3>1, <3>2 DEF Apply
    <3>3. CASE e.kind = "unmute"
      BY <1>e, <2>3, <3>1, <3>3 DEF Apply, Plain
    <3>4. CASE e.kind = "mute"
      <4>1. d \in present
        BY <1>1, <1>3, <2>1, <2>3, <3>4 DEF Right, Bears, Presence
      <4> QED BY <1>e, <2>3, <3>1, <3>4, <4>1 DEF Apply, Plain
    <3> QED BY <2>3, <3>2, <3>3, <3>4 DEF Microphone
  <2> QED BY <1>e, <2>1, <2>2, <2>3 DEF Microphone
<1> QED BY <1>2, <1>3 DEF Right

----------------------------------------------------------------------------
(* The steps, by what they do to the pending events.                       *)

\* The participants do something, at Asterisk.
Telling == \E p \in People, batch \in Seq(Message) :
             /\ Tells(p, batch) /\ ((Reads(batch) /\ Reading) \/ Misses)
             /\ UNCHANGED Environment

\* Run is done with an event.
Dropping == /\ place # "select" /\ place' = "select" /\ Handled(Pending, Pending')
            /\ received' = received

Same == Pending' = Pending /\ received' = received

Drains == IF place # "select" /\ place' = "select" THEN Dropping ELSE Same

LEMMA ConferenceTyped ==
  ASSUME SpeakingAssumption, Typed, NEW p \in People,
         \/ Joins(p) \/ Leaves(p) \/ Speaks(p) \/ FallsSilent(p)
         \/ \E off \in BOOLEAN : Switch(p, off)
  PROVE  Typed' /\ Telling
<1>1. PICK batch \in Seq(Message) :
             Send(batch) /\ Tells(p, batch) /\ Members' /\ UNCHANGED Environment
  BY ConferenceTells
<1>2. Counted' /\ Queued' /\ ((Reads(batch) /\ Reading) \/ Misses)
  BY <1>1, SendReads DEF Environment
<1> QED BY <1>1, <1>2 DEF Typed, Telling

LEMMA MutingTyped ==
  ASSUME SpeakingAssumption, Typed, AsteriskObeys
  PROVE  Typed' /\ (Telling \/ (Same /\ UNCHANGED <<asterisk, missed, unheard, Environment>>))
<1>1. CASE request.who \in inside
  <2>1. Switch(request.who, request.to) /\ request.who \in People
    BY <1>1 DEF AsteriskObeys, Typed, Members
  <2>2. ASSUME NEW p \in People, NEW off, Switch(p, off) PROVE \E o \in BOOLEAN : Switch(p, o)
    <3>1. CASE off
      <4>1. Switch(p, TRUE)
        BY <2>2, <3>1 DEF Switch
      <4> QED BY <4>1
    <3>2. CASE ~off
      <4>1. Switch(p, FALSE)
        BY <2>2, <3>2 DEF Switch
      <4> QED BY <4>1
    <3> QED BY <3>1, <3>2
  <2> QED BY <2>1, <2>2, ConferenceTyped
<1>2. CASE request.who \notin inside
  <2>1. UNCHANGED <<asterisk, events, missed, unheard, Environment>>
    BY <1>2 DEF AsteriskObeys
  <2>2. UNCHANGED <<place, hand, queue, received>>
    BY <2>1 DEF Environment, events, handler
  <2>3. Same
    BY <2>2 DEF Same, Pending
  <2> QED BY <2>1, <2>2, <2>3 DEF Typed, Members, Counted, Queued, Environment, asterisk, limits,
                                  events, Same
<1> QED BY <1>1, <1>2

LEMMA DropTyped ==
  ASSUME Typed, place # "select", place' = "select", UNCHANGED <<queue, received>>
  PROVE  Queued' /\ Dropping
<1>1. PendingIs
  BY PendingNow DEF Typed, Queued
<1>2. PendingIs'
  BY PendingNext DEF Typed, Queued
<1>3. Pending' = queue
  BY <1>2 DEF PendingIs
<1>4. Handled(Pending, Pending')
  BY <1>1, <1>3 DEF PendingIs, Handled
<1>5. \A i \in DOMAIN Pending' : Pending'[i].seq <= received'
  <2> SUFFICES ASSUME NEW i \in DOMAIN queue PROVE queue[i].seq <= received
    BY <1>3
  <2>1. i \in 1..Len(queue) /\ Len(queue) \in Nat
    BY LenProperties DEF Typed, Queued
  <2>2. i + 1 \in DOMAIN Pending /\ Pending[i + 1] = queue[i]
    BY <1>1, <2>1, LenProperties DEF PendingIs
  <2> QED BY <2>2 DEF Typed, Queued
<1> QED BY <1>4, <1>5 DEF Queued, Typed, Dropping

LEMMA TakeTyped == ASSUME SpeakingAssumption, Typed, Take PROVE Typed' /\ Same
<1>1. PendingIs
  BY PendingNow DEF Typed, Queued
<1>2. /\ place = "select" /\ queue # <<>> /\ place' = "taken"
      /\ hand' = Head(queue) /\ queue' = Tail(queue)
      /\ UNCHANGED <<asterisk, received, limits, list, missed, unheard>>
  BY DEF Take, history
<1>3. /\ queue \in Seq(EventRecord) /\ Len(queue) \in Nat
      /\ hand' \in EventRecord /\ queue' \in Seq(EventRecord)
      /\ Len(queue) = Len(queue') + 1
      /\ \A i \in 1..Len(queue') : queue'[i] = queue[i + 1]
  BY <1>2, HeadTailProperties, LenProperties DEF Typed, Queued
<1>4. hand' = queue[1]
  BY <1>2, <1>3
<1>5. PendingIs'
  BY <1>3, PendingNext
<1>6. Pending' = Pending
  <2>1. /\ Pending = queue /\ Pending' \in Seq(EventRecord) /\ Len(Pending') = Len(queue)
        /\ Pending'[1] = queue[1]
    BY <1>1, <1>2, <1>3, <1>4, <1>5 DEF PendingIs
  <2>2. ASSUME NEW i \in 1..Len(queue) PROVE Pending'[i] = queue[i]
    <3>1. CASE i = 1
      BY <2>1, <3>1
    <3>2. CASE i # 1
      <4>1. i - 1 \in 1..Len(queue') /\ (i - 1) + 1 = i
        BY <1>3, <3>2
      <4> QED BY <1>2, <1>3, <1>5, <4>1 DEF PendingIs
    <3> QED BY <3>1, <3>2
  <2> QED BY <1>3, <2>1, <2>2, SeqEqual
<1>7. Len(queue') <= QueueSize /\ Len(queue') \in Nat
  BY <1>3, LenProperties DEF Typed, Queued, SpeakingAssumption
<1>8. Queued'
  BY <1>2, <1>3, <1>6, <1>7 DEF Typed, Queued
<1> QED BY <1>2, <1>6, <1>8 DEF Typed, Members, Counted, Same, asterisk, limits

LEMMA HandlingTyped ==
  ASSUME Typed, CheckTalking \/ SetTalking \/ HandleEvent
  PROVE  Typed' /\ UNCHANGED asterisk /\ Drains
<1>1. UNCHANGED <<asterisk, queue, received, limits, list, missed>> /\ place # "select"
  BY DEF CheckTalking, SetTalking, HandleEvent, events, history
<1>u. unheard' \in [People -> 0..received']
  BY <1>1 DEF CheckTalking, SetTalking, HandleEvent, history, Typed, Counted
<1>2. CASE place' = "select"
  <2>1. Queued' /\ Dropping
    BY <1>1, <1>2, DropTyped
  <2> QED BY <1>1, <1>u, <1>2, <2>1 DEF Typed, Members, Counted, asterisk, limits, Drains
<1>3. CASE place' # "select"
  <2>1. CheckTalking /\ place' = "checked" /\ UNCHANGED hand
    BY <1>3 DEF CheckTalking, SetTalking, HandleEvent
  <2>2. Same
    BY <1>1, <1>3, <2>1 DEF Same, Pending
  <2> QED BY <1>1, <1>u, <2>1, <2>2 DEF Typed, Members, Counted, Queued, Same, asterisk,
                                  limits, CheckTalking, Drains
<1> QED BY <1>2, <1>3

\* What is left is done by the client, or about a list or a request.
Elsewhere ==
  \/ LinkBreaks \/ Connection \/ Resync \/ ListTimesOut \/ Listing \/ Refresh
  \/ \E p \in People, to \in BOOLEAN : SetMuted(p, to)
  \/ RequestTimesOut

LEMMA ElsewhereTyped ==
  ASSUME Typed, Elsewhere
  PROVE  Typed' /\ UNCHANGED <<asterisk, handler, queue>> /\ Same /\ Drains
<1> USE DEF asterisk, handler, events, limits, history, client, roster, Typed, Counted
<1>1. UNCHANGED <<asterisk, handler, queue, received>>
  BY DEF Elsewhere, LinkBreaks, Connection, ClearSession, SetSession, StoreBoundary, ResetTalking,
         Resync, ListStart, ListTimesOut, Listing, AsteriskLists, ListFinish, ListFails, Refresh,
         SetMuted, RequestTimesOut
<1>2. Same /\ Drains
  BY <1>1 DEF Same, Pending, Drains
<1>u. unheard' \in [People -> 0..received']
  BY <1>1 DEF Elsewhere, LinkBreaks, Connection, ClearSession, SetSession, StoreBoundary,
         ResetTalking, Resync, ListStart, ListTimesOut, Listing, AsteriskLists, ListFinish,
         ListFails, Refresh, SetMuted, RequestTimesOut
<1>3. CASE LinkBreaks \/ Connection \/ RequestTimesOut
           \/ \E p \in People, to \in BOOLEAN : SetMuted(p, to)
  <2>1. list' = list \/ ClearSession
    BY <1>3 DEF LinkBreaks, Connection, SetSession, StoreBoundary,
         ResetTalking, RequestTimesOut, SetMuted
  <2>2. list' \in ListRecord /\ list'.boundary = list.boundary /\ (list.pc = "idle" => list'.pc = "idle")
    BY <2>1 DEF ClearSession, ListRecord
  <2>3. UNCHANGED <<ignoreThrough, missed>> /\ talkingIgnoreThrough' \in {talkingIgnoreThrough, received}
    BY <1>3 DEF LinkBreaks, Connection, ClearSession, SetSession, StoreBoundary, ResetTalking,
                RequestTimesOut, SetMuted
  <2> QED BY <1>1, <1>u, <1>2, <2>2, <2>3 DEF Members, Queued, Same
<1>4. CASE Resync \/ Refresh
  <2>1. CASE \E by \in {"run", "user"} : ListStart(by)
    <3>1. PICK by \in {"run", "user"} : ListStart(by)
      BY <2>1
    <3>2. NoList \in ListRecord
      BY DEF NoList, ListRecord
    <3>3. list' \in ListRecord /\ list'.boundary = received /\ list'.pc = "asked"
      BY <3>1, <3>2 DEF ListStart, ListRecord
    <3>4. UNCHANGED <<ignoreThrough, talkingIgnoreThrough>> /\ place # "checked"
          /\ missed' \in {"none", "before", "since"}
      BY <3>1 DEF ListStart
    <3> QED BY <1>1, <1>u, <1>2, <3>3, <3>4 DEF Members, Queued, Same
  <2>2. CASE UNCHANGED <<list, limits, missed>>
    BY <1>1, <1>u, <1>2, <2>2 DEF Members, Queued, Same
  <2> QED BY <1>4, <2>1, <2>2 DEF Resync, Refresh
<1>5. CASE ListTimesOut \/ AsteriskLists
  <2>1. UNCHANGED <<limits, missed>> /\ list.pc = "asked"
    BY <1>5 DEF ListTimesOut, AsteriskLists
  <2>2. list' \in ListRecord /\ list'.boundary = list.boundary
    BY <1>5 DEF ListTimesOut, AsteriskLists, ListRecord, Members
  <2> QED BY <1>1, <1>u, <1>2, <2>1, <2>2 DEF Members, Queued, Same
<1>6. CASE ListFinish \/ ListFails
  <2>1. NoList \in ListRecord /\ NoList.boundary = 0 /\ NoList.pc = "idle"
    BY DEF NoList, ListRecord
  <2>2. list' = NoList /\ missed' \in {"none", "before", "since"}
        /\ ignoreThrough' \in {ignoreThrough, list.boundary} /\ UNCHANGED talkingIgnoreThrough
    BY <1>6 DEF ListFinish, ListFails, Boundary
  <2> QED BY <1>1, <1>u, <1>2, <2>1, <2>2 DEF Members, Queued, Same, ListRecord
<1> QED BY <1>1, <1>2, <1>3, <1>4, <1>5, <1>6 DEF Elsewhere, Listing

\* Every step that is not a step of the participants.
Inside == Take \/ CheckTalking \/ SetTalking \/ HandleEvent \/ Elsewhere

LEMMA StepTyped ==
  ASSUME SpeakingAssumption, Typed, Next
  PROVE  /\ Typed'
         /\ \/ Telling
            \/ Same /\ UNCHANGED <<asterisk, missed, unheard, Environment>>
            \/ Inside /\ UNCHANGED asterisk /\ Drains
<1>1. CASE Conference
  BY <1>1, ConferenceTyped DEF Conference, SwitchesItself
<1>2. CASE AsteriskObeys
  BY <1>2, MutingTyped
<1>3. CASE Handling
  BY <1>3, TakeTyped, HandlingTyped DEF Handling, Inside, Take, Drains
<1>4. CASE Elsewhere
  BY <1>4, ElsewhereTyped DEF Inside
<1> QED BY <1>1, <1>2, <1>3, <1>4 DEF Next, Elsewhere, Muting

----------------------------------------------------------------------------
(* MuteInvariant is kept.                                                  *)

\* Whoever is there in the queue that grows has not left before.
LEMMA PartedTelling ==
  ASSUME Typed, Typed', Parted, Telling
  PROVE  Parted'
<1>1. PICK p \in People, batch \in Seq(Message) :
             Tells(p, batch) /\ ((Reads(batch) /\ Reading) \/ Misses)
  BY DEF Telling
<1>2. \A d : d \in came \ inside => d \in came' \ inside'
  BY <1>1 DEF Tells
<1>3. CASE Misses
  BY <1>2, <1>3 DEF Misses, Parted
<1>4. CASE Reads(batch)
  <2>1. PICK k \in 0..Len(batch) : Added(Pending, Pending', received, batch, k)
    BY <1>4 DEF Reads
  <2>2. /\ Pending \in Seq(EventRecord) /\ Pending' \in Seq(EventRecord)
        /\ Len(Pending) \in Nat /\ Len(batch) \in Nat
        /\ DOMAIN Pending = 1..Len(Pending) /\ DOMAIN Pending' = 1..Len(Pending')
        /\ Len(Pending') = Len(Pending) + k
    BY <2>1, PendingNow, PendingNext, LenProperties DEF Typed, Queued, PendingIs, Added
  <2> SUFFICES ASSUME NEW i \in 1..Len(Pending'), Pending'[i].kind = "leave"
               PROVE  Pending'[i].who \in came' \ inside'
    BY <2>2 DEF Parted
  <2>3. CASE i \in 1..Len(Pending)
    BY <1>2, <2>1, <2>2, <2>3 DEF Added, Parted
  <2>4. CASE i \notin 1..Len(Pending)
    <3>1. PICK j \in 1..k : i = Len(Pending) + j
      <4>1. i - Len(Pending) \in 1..k /\ i = Len(Pending) + (i - Len(Pending))
        BY <2>2, <2>4
      <4> QED BY <4>1
    <3>2. Pending'[Len(Pending) + j] = [seq |-> received + j, kind |-> batch[j].kind,
                                        who |-> batch[j].who, muted |-> batch[j].muted]
      BY <2>1 DEF Added
    <3>3. Pending'[i].kind = batch[j].kind /\ Pending'[i].who = batch[j].who /\ j \in 1..Len(batch)
      BY <2>2, <3>1, <3>2
    <3> QED BY <1>1, <3>3 DEF Tells
  <2> QED BY <2>3, <2>4
<1> QED BY <1>1, <1>3, <1>4

LEMMA MuteTelling ==
  ASSUME MuteInvariant, Typed', Telling
  PROVE  MuteInvariant'
<1> USE DEF MuteInvariant
<1>1. PICK p \in People, batch \in Seq(Message) :
             /\ Tells(p, batch) /\ ((Reads(batch) /\ Reading) \/ Misses)
             /\ UNCHANGED Environment
  BY DEF Telling
<1>2. Parted'
  BY PartedTelling
<1>3. CASE missed' = "since"
  BY <1>2, <1>3 DEF Listed, Shown
<1>4. CASE missed' # "since"
  <2>1. Added(Pending, Pending', received, batch, Len(batch)) /\ missed' = missed
    <3>1. Len(batch) \in Nat
      BY LenProperties
    <3> QED BY <1>1, <1>4, <3>1 DEF Reads, Misses
  <2>2. Pending \in Seq(EventRecord) /\ Pending' \in Seq(EventRecord) /\ received \in Nat
    BY PendingNow, PendingNext DEF Typed, Queued, PendingIs, Counted
  <2>3. ASSUME NEW n \in Nat, n <= received, NEW d
        PROVE  /\ Words(Pending, n, d, inside, muted) => Words(Pending', n, d, inside', muted')
               /\ \A found, foundOff :
                    Right(Pending, n, d, found, foundOff, inside, muted)
                      => Right(Pending', n, d, found, foundOff, inside', muted')
    BY <1>1, <2>1, <2>2, <2>3, TellingKeeps
  <2>4. UNCHANGED <<list, ignoreThrough, present, mutes>>
    BY <1>1 DEF Environment, limits, roster
  <2>5. /\ list.boundary \in Nat /\ list.boundary <= received
        /\ ignoreThrough \in Nat /\ ignoreThrough <= received
    BY DEF Typed, Counted, ListRecord
  <2>6. ASSUME NEW d \in People PROVE Listed(d)'
    BY <2>1, <2>3, <2>4, <2>5 DEF Listed
  <2>7. ASSUME NEW d \in People PROVE Shown(d)'
    BY <2>1, <2>3, <2>4, <2>5 DEF Shown
  <2> QED BY <1>2, <2>6, <2>7
<1> QED BY <1>3, <1>4

LEMMA PartedInside ==
  ASSUME Typed, Typed', Parted, UNCHANGED asterisk, Drains
  PROVE  Parted'
<1>1. UNCHANGED <<came, inside>>
  BY DEF asterisk
<1>2. CASE Same
  BY <1>1, <1>2 DEF Same, Parted
<1>3. CASE Dropping
  <2>1. Pending \in Seq(EventRecord) /\ Pending' \in Seq(EventRecord)
    BY PendingNow, PendingNext DEF Typed, Queued, PendingIs
  <2>2. \A i \in DOMAIN Pending' : i + 1 \in DOMAIN Pending /\ Pending'[i] = Pending[i + 1]
    BY <1>3, <2>1, LenProperties DEF Dropping, Handled
  <2> QED BY <1>1, <2>2 DEF Parted
<1> QED BY <1>2, <1>3 DEF Drains

LEMMA MuteHandling ==
  ASSUME MuteInvariant, Typed', Take \/ CheckTalking \/ SetTalking \/ HandleEvent,
         UNCHANGED asterisk, Drains
  PROVE  MuteInvariant'
<1> USE DEF MuteInvariant, asterisk, limits, roster, history
<1>1. Parted'
  BY PartedInside
<1>2. UNCHANGED <<list, ignoreThrough, missed>>
  BY DEF Take, CheckTalking, SetTalking, HandleEvent
<1>3. CASE ~(place # "select" /\ place' = "select")
  <2>0. Same
    BY <1>3 DEF Drains
  <2>1. UNCHANGED <<present, mutes>>
    BY <1>3 DEF Take, CheckTalking, SetTalking, HandleEvent
  <2> QED BY <1>1, <1>2, <2>0, <2>1 DEF Same, Listed, Shown
<1>4. CASE place # "select" /\ place' = "select"
  <2>0. Dropping
    BY <1>4 DEF Drains
  <2>1. /\ Pending \in Seq(EventRecord) /\ Pending' \in Seq(EventRecord)
        /\ Handled(Pending, Pending') /\ Pending[1] = hand
    BY <2>0, PendingNow, PendingNext DEF Typed, Queued, PendingIs, Dropping
  <2>2. ASSUME NEW n, NEW d
        PROVE  /\ Words(Pending, n, d, inside, muted) => Words(Pending', n, d, inside, muted)
               /\ ~Bears(hand, n, d, Presence) /\ ~Bears(hand, n, d, Microphone) =>
                    \A found, foundOff : Right(Pending, n, d, found, foundOff, inside, muted)
                                           => Right(Pending', n, d, found, foundOff, inside, muted)
    BY <2>1, DroppingKeeps
  <2>3. CASE HandleEvent
    <3>1. \A d \in People : Listed(d)'
      BY <1>2, <2>3 DEF HandleEvent, Listed
    <3>2. ASSUME NEW d \in People PROVE Shown(d)'
      <4>1. CASE hand.seq <= ignoreThrough
        <5>1. UNCHANGED <<present, mutes>>
          BY <2>3, <4>1 DEF HandleEvent
        <5>2. ~Bears(hand, ignoreThrough, d, Presence) /\ ~Bears(hand, ignoreThrough, d, Microphone)
          <6>1. hand.seq \in Nat /\ ignoreThrough \in Nat
            BY <1>4 DEF Typed, Queued, Counted, EventRecord
          <6> QED BY <4>1, <6>1 DEF Bears
        <5> QED BY <1>2, <2>2, <5>1, <5>2 DEF Shown
      <4>2. CASE ~(hand.seq <= ignoreThrough)
        <5>1. Apply(hand) /\ hand.kind \notin {"on", "off"}
          BY <2>3, <4>2 DEF HandleEvent
        <5>2. ignoreThrough \in Nat /\ hand.seq > ignoreThrough
          <6>1. hand.seq \in Nat /\ ignoreThrough \in Nat
            BY <1>4 DEF Typed, Queued, Counted, EventRecord
          <6> QED BY <4>2, <6>1
        <5>3. \A i \in DOMAIN Pending : Pending[i].kind = "leave" => Pending[i].who \notin inside
          BY DEF Parted
        <5>4. missed = "none" => Right(Pending', ignoreThrough, d, present', mutes', inside, muted)
          BY <2>1, <5>1, <5>2, <5>3, ApplyingKeeps DEF Shown
        <5> QED BY <1>2, <2>2, <5>4 DEF Shown
      <4> QED BY <4>1, <4>2
    <3> QED BY <1>1, <3>1, <3>2
  <2>4. CASE CheckTalking \/ SetTalking
    <3>1. hand.kind \in {"on", "off"} /\ UNCHANGED <<present, mutes>>
      BY <2>4 DEF CheckTalking, SetTalking, Typed, Queued
    <3>2. \A n, d : ~Bears(hand, n, d, Presence) /\ ~Bears(hand, n, d, Microphone)
      BY <3>1 DEF Bears, Presence, Microphone
    <3>3. ASSUME NEW d \in People PROVE Listed(d)' /\ Shown(d)'
      BY <1>2, <2>2, <3>1, <3>2 DEF Listed, Shown
    <3> QED BY <1>1, <3>3
  <2>5. ~Take
    BY <1>4 DEF Take
  <2> QED BY <2>3, <2>4, <2>5
<1> QED BY <1>3, <1>4

LEMMA MuteElsewhere ==
  ASSUME MuteInvariant, Typed', Elsewhere, UNCHANGED asterisk, Same, Drains
  PROVE  MuteInvariant'
<1> USE DEF MuteInvariant, asterisk, limits, roster, history
<1>1. Parted'
  BY PartedInside
<1>2. UNCHANGED <<Pending, inside, muted>>
  BY DEF Same
<1>3. CASE LinkBreaks \/ Connection \/ RequestTimesOut \/ ListTimesOut
           \/ (\E p \in People, to \in BOOLEAN : SetMuted(p, to))
  <2>1. /\ UNCHANGED <<ignoreThrough, missed, present, mutes>>
        /\ list' = list \/ list'.pc = "broken"
    BY <1>3 DEF LinkBreaks, Connection, ClearSession, SetSession, StoreBoundary, ResetTalking,
                RequestTimesOut, ListTimesOut, SetMuted, Typed, Counted, ListRecord
  <2> QED BY <1>1, <1>2, <2>1 DEF Listed, Shown
<1>4. CASE Resync \/ Refresh
  <2>1. CASE \E by \in {"run", "user"} : ListStart(by)
    <3>1. /\ list'.pc = "asked" /\ list'.boundary = received
          /\ UNCHANGED <<ignoreThrough, present, mutes>>
          /\ missed' = IF missed = "since" THEN "before" ELSE missed
      BY <2>1 DEF ListStart, NoList
    <3>2. \A i \in DOMAIN Pending : ~(Pending[i].seq > received)
      <4>1. ASSUME NEW i \in DOMAIN Pending
                PROVE Pending[i].seq <= received /\ Pending[i].seq \in Nat
        BY PendingNow, LenProperties, ElementOfSeq DEF PendingIs, Typed, Queued, EventRecord
      <4> QED BY <4>1 DEF Typed, Counted
    <3>3. \A d : Words(Pending, received, d, inside, muted)
      BY <3>2, NothingSince
    <3> QED BY <1>1, <1>2, <3>1, <3>3 DEF Listed, Shown
  <2>2. CASE UNCHANGED <<list, ignoreThrough, missed, present, mutes>>
    BY <1>1, <1>2, <2>2 DEF Listed, Shown
  <2> QED BY <1>4, <2>1, <2>2 DEF Resync, Refresh
<1>5. CASE AsteriskLists
  <2>1. /\ list.pc = "asked" /\ list'.pc = "answered" /\ list'.boundary = list.boundary
        /\ list'.found = inside /\ list'.mutes = muted
        /\ UNCHANGED <<ignoreThrough, missed, present, mutes>>
    BY <1>5 DEF AsteriskLists, Typed, Counted, ListRecord
  <2>2. \A n, d : Right(Pending, n, d, inside, muted, inside, muted)
    BY DEF Right
  <2> QED BY <1>1, <1>2, <2>1, <2>2 DEF Listed, Shown
<1>6. CASE ListFinish
  <2>1. /\ list.pc = "answered" /\ ignoreThrough' = list.boundary
        /\ present' = list.found /\ mutes' = list.mutes
        /\ missed' = (IF missed = "before" THEN "none" ELSE missed) /\ list'.pc = "idle"
    BY <1>6 DEF ListFinish, Boundary, ListedMutes, NoList
  <2> QED BY <1>1, <1>2, <2>1 DEF Listed, Shown
<1>7. CASE ListFails
  <2>1. /\ UNCHANGED <<ignoreThrough, present, mutes>> /\ list'.pc = "idle"
        /\ missed' = (IF missed = "before" THEN "since" ELSE missed)
    BY <1>7 DEF ListFails, NoList
  <2> QED BY <1>1, <1>2, <2>1 DEF Listed, Shown
<1> QED BY <1>3, <1>4, <1>5, <1>6, <1>7 DEF Elsewhere, Listing

LEMMA InitTyped == ASSUME SpeakingAssumption, Init PROVE Typed /\ Pending = <<>>
<1> USE DEF Init, SpeakingAssumption
<1>1. Pending = <<>> /\ DOMAIN Pending = {}
  BY DEF Pending
<1>2. NoList \in ListRecord /\ NoList.boundary = 0
  BY DEF NoList, ListRecord
<1>3. queue \in Seq(EventRecord) /\ Len(queue) = 0
  OBVIOUS
<1> QED BY <1>1, <1>2, <1>3 DEF Typed, Members, Counted, Queued

LEMMA MuteInit == ASSUME SpeakingAssumption, Init PROVE MuteInvariant
BY InitTyped DEF Init, NoList, MuteInvariant, Parted, Listed, Shown

LEMMA MuteStep ==
  ASSUME SpeakingAssumption, MuteInvariant, [Next]_vars
  PROVE  MuteInvariant'
<1>1. CASE Next
  <2>1. /\ Typed'
        /\ \/ Telling
           \/ Same /\ UNCHANGED <<asterisk, missed, unheard, Environment>>
           \/ Inside /\ UNCHANGED asterisk /\ Drains
    BY <1>1, StepTyped DEF MuteInvariant
  <2>2. CASE Same /\ UNCHANGED <<asterisk, missed, unheard, Environment>>
    BY <2>1, <2>2 DEF Same, asterisk, Environment, limits, roster, MuteInvariant, Parted, Listed,
                      Shown
  <2>3. CASE Elsewhere
    BY <2>1, <2>3, ElsewhereTyped, MuteElsewhere DEF MuteInvariant
  <2> QED BY <2>1, <2>2, <2>3, MuteTelling, MuteHandling DEF Inside
<1>2. CASE UNCHANGED vars
  <2>1. UNCHANGED <<queue, hand, place>>
    BY <1>2 DEF vars, events, handler
  <2>2. Pending' = Pending
    BY <2>1 DEF Pending
  <2> QED BY <1>2, <2>2 DEF vars, asterisk, events, handler, limits, roster, history,
            MuteInvariant, Typed, Members, Counted, Queued, Parted, Listed, Shown
<1> QED BY <1>1, <1>2

\* There is a last one: of the elements after each, some have fewest.
LEMMA LastExists ==
  ASSUME NEW n \in Nat, NEW T, T \subseteq 1..n, T # {}
  PROVE  \E i \in T : \A j \in T : i >= j
<1> DEFINE After(i) == {j \in T : j > i}
           F == {After(i) : i \in T}
<1>1. F \subseteq FiniteSubsetsOf(1..n) /\ F # {}
  <2>1. IsFiniteSet(1..n)
    BY FS_Interval
  <2>2. \A S \in SUBSET (1..n) : IsFiniteSet(S)
    BY <2>1, FS_Subset
  <2> QED BY <2>2 DEF FiniteSubsetsOf
<1>2. PICK s \in F : \A t \in F : <<t, s>> \notin StrictSubsetOrdering(1..n)
  <2> HIDE DEF F
  <2>1. IsWellFoundedOn(StrictSubsetOrdering(1..n), FiniteSubsetsOf(1..n))
    BY FS_StrictSubsetOrderingWellFounded
  <2> QED BY <1>1, <2>1, WFMin
<1>3. PICK i \in T : s = After(i)
  OBVIOUS
<1>4. ASSUME NEW j \in T, j > i PROVE FALSE
  <2>1. After(j) \subseteq After(i) /\ After(j) # After(i)
    <3>1. j \in After(i) /\ j \notin After(j)
      BY <1>4
    <3>2. \A k \in T : k > j => k > i
      BY <1>4
    <3> QED BY <3>1, <3>2
  <2>2. After(i) \subseteq 1..n
    OBVIOUS
  <2>3. <<After(j), s>> \in StrictSubsetOrdering(1..n)
    BY <1>3, <2>1, <2>2 DEF StrictSubsetOrdering
  <2> QED BY <1>2, <2>3
<1>5. \A j \in T : i >= j
  BY <1>4
<1> QED BY <1>5

LEMMA LastNews ==
  ASSUME Typed, NEW p, NEW kinds
  PROVE  /\ News(p, kinds) = {} => Silent(Pending, 0, ignoreThrough, p, kinds)
         /\ News(p, kinds) # {} =>
              \E i \in DOMAIN Pending :
                /\ Last(p, kinds) = Pending[i] /\ Bears(Pending[i], ignoreThrough, p, kinds)
                /\ Silent(Pending, i, ignoreThrough, p, kinds)
<1>1. \A i : i \in News(p, kinds) <=> /\ i \in DOMAIN Pending
                                     /\ Bears(Pending[i], ignoreThrough, p, kinds)
  BY DEF News, Bears
<1>2. DOMAIN Pending = 1..Len(Pending) /\ Len(Pending) \in Nat
  BY PendingNow, LenProperties DEF Typed, Queued, PendingIs
<1>3. ASSUME News(p, kinds) = {} PROVE Silent(Pending, 0, ignoreThrough, p, kinds)
  BY <1>1, <1>3 DEF Silent
<1>4. ASSUME News(p, kinds) # {}
      PROVE  \E i \in DOMAIN Pending :
               /\ Last(p, kinds) = Pending[i] /\ Bears(Pending[i], ignoreThrough, p, kinds)
               /\ Silent(Pending, i, ignoreThrough, p, kinds)
  <2>1. News(p, kinds) \subseteq 1..Len(Pending)
    BY <1>1, <1>2
  <2>2. \E i \in News(p, kinds) : \A j \in News(p, kinds) : i >= j
    BY <1>2, <1>4, <2>1, LastExists
  <2> DEFINE i == CHOOSE i \in News(p, kinds) : \A j \in News(p, kinds) : i >= j
  <2>3. i \in News(p, kinds) /\ \A j \in News(p, kinds) : i >= j
    BY <2>2
  <2>4. Last(p, kinds) = Pending[i]
    BY DEF Last
  <2> HIDE DEF i
  <2>5. Silent(Pending, i, ignoreThrough, p, kinds)
    <3> SUFFICES ASSUME NEW j \in DOMAIN Pending, j > i,
                        Bears(Pending[j], ignoreThrough, p, kinds)
                 PROVE  FALSE
      BY DEF Silent
    <3>1. j \in News(p, kinds) /\ i \in 1..Len(Pending)
      BY <1>1, <2>1, <2>3
    <3> QED BY <1>2, <2>3, <3>1
  <2> QED BY <1>1, <2>3, <2>4, <2>5
<1> QED BY <1>3, <1>4

LEMMA MuteFollows == ASSUME MuteInvariant PROVE MuteMatchesConference
<1> SUFFICES ASSUME missed = "none", NEW p \in People
             PROVE  /\ WillBePresent(p) <=> p \in inside
                    /\ p \in inside => (WillBeMuted(p) <=> p \in muted)
  BY DEF MuteMatchesConference
<1>1. /\ Words(Pending, ignoreThrough, p, inside, muted)
      /\ Right(Pending, ignoreThrough, p, present, mutes, inside, muted)
  BY DEF MuteInvariant, Shown
<1>2. ASSUME NEW kinds
      PROVE  /\ News(p, kinds) = {} => Silent(Pending, 0, ignoreThrough, p, kinds)
             /\ News(p, kinds) # {} =>
                  \E i \in DOMAIN Pending :
                    /\ Last(p, kinds) = Pending[i] /\ Bears(Pending[i], ignoreThrough, p, kinds)
                    /\ Silent(Pending, i, ignoreThrough, p, kinds)
  BY LastNews DEF MuteInvariant
<1>3. WillBePresent(p) <=> p \in inside
  <2>1. WillBePresent(p) <=> IF News(p, Presence) = {} THEN p \in present
                             ELSE Last(p, Presence).kind = "join"
    BY DEF WillBePresent, Presence
  <2>2. CASE News(p, Presence) = {}
    BY <1>1, <1>2, <2>1, <2>2 DEF Right
  <2>3. CASE News(p, Presence) # {}
    <3>1. PICK i \in DOMAIN Pending :
            /\ Last(p, Presence) = Pending[i] /\ Bears(Pending[i], ignoreThrough, p, Presence)
            /\ Silent(Pending, i, ignoreThrough, p, Presence)
      BY <1>2, <2>3
    <3> QED BY <1>1, <2>1, <2>3, <3>1 DEF Words
  <2> QED BY <2>2, <2>3
<1>4. ASSUME p \in inside PROVE WillBeMuted(p) <=> p \in muted
  <2>1. WillBeMuted(p) <=> IF News(p, Microphone) = {} THEN p \in mutes
                           ELSE Last(p, Microphone).muted
    BY DEF WillBeMuted, Microphone
  <2>2. CASE News(p, Microphone) = {}
    BY <1>1, <1>2, <1>4, <2>1, <2>2 DEF Right
  <2>3. CASE News(p, Microphone) # {}
    <3>1. PICK i \in DOMAIN Pending :
            /\ Last(p, Microphone) = Pending[i] /\ Bears(Pending[i], ignoreThrough, p, Microphone)
            /\ Silent(Pending, i, ignoreThrough, p, Microphone)
      BY <1>2, <2>3
    <3> QED BY <1>1, <1>4, <2>1, <2>3, <3>1 DEF Words
  <2> QED BY <2>2, <2>3
<1> QED BY <1>3, <1>4

\* Once the queue is handled the roster shows who is there and who is muted, for
\* any participants, queue and faults: the boundary of a list (Service.List,
\* Client.EventSequence) neither drops an event the reply has not seen nor lets
\* one through that it has.
THEOREM MuteFollowsConference == Spec => []MuteMatchesConference
<1>1. Spec => []MuteInvariant
  BY SpeakingAssumption, MuteInit, MuteStep, PTL DEF Spec
<1> QED BY <1>1, MuteFollows, PTL

----------------------------------------------------------------------------
(* SpeechInvariant is kept.                                                *)

\* The pending events and where the queue that grows has them.
LEMMA ReadsShape ==
  ASSUME Typed, Typed', NEW batch \in Seq(Message), NEW k \in 0..Len(batch),
         Added(Pending, Pending', received, batch, k)
  PROVE  /\ Len(Pending) \in Nat /\ Len(batch) \in Nat
         /\ DOMAIN Pending = 1..Len(Pending) /\ DOMAIN Pending' = 1..(Len(Pending) + k)
         /\ \A i \in 1..Len(Pending) :
              Pending'[i] = Pending[i] /\ Pending[i].seq \in Nat /\ Pending[i].seq <= received
         /\ \A i \in DOMAIN Pending' : i \notin 1..Len(Pending) =>
              \E j \in 1..k : /\ i = Len(Pending) + j
                              /\ Pending'[i].seq = received + j
                              /\ Pending'[i].kind = batch[j].kind
                              /\ Pending'[i].who = batch[j].who
         /\ \A j \in 1..k : /\ Len(Pending) + j \in DOMAIN Pending'
                            /\ Len(Pending) + j > Len(Pending)
                            /\ Pending'[Len(Pending) + j].seq = received + j
                            /\ Pending'[Len(Pending) + j].kind = batch[j].kind
                            /\ Pending'[Len(Pending) + j].who = batch[j].who
<1>1. /\ Pending \in Seq(EventRecord) /\ Pending' \in Seq(EventRecord)
      /\ Len(Pending) \in Nat /\ Len(batch) \in Nat
      /\ DOMAIN Pending = 1..Len(Pending) /\ DOMAIN Pending' = 1..Len(Pending')
      /\ Len(Pending') = Len(Pending) + k
  BY PendingNow, PendingNext, LenProperties DEF Typed, Queued, PendingIs, Added
<1>2. ASSUME NEW j \in 1..k
      PROVE  /\ Len(Pending) + j \in DOMAIN Pending'
             /\ Len(Pending) + j > Len(Pending)
             /\ Pending'[Len(Pending) + j].seq = received + j
             /\ Pending'[Len(Pending) + j].kind = batch[j].kind
             /\ Pending'[Len(Pending) + j].who = batch[j].who
  <2>1. Pending'[Len(Pending) + j] = [seq |-> received + j, kind |-> batch[j].kind,
                                      who |-> batch[j].who, muted |-> batch[j].muted]
    BY DEF Added
  <2> QED BY <1>1, <2>1
<1>3. ASSUME NEW i \in DOMAIN Pending', i \notin 1..Len(Pending)
      PROVE  \E j \in 1..k : /\ i = Len(Pending) + j
                             /\ Pending'[i].seq = received + j
                             /\ Pending'[i].kind = batch[j].kind
                             /\ Pending'[i].who = batch[j].who
  <2>1. i - Len(Pending) \in 1..k /\ i = Len(Pending) + (i - Len(Pending))
    BY <1>1, <1>3
  <2> QED BY <1>2, <2>1
<1>4. ASSUME NEW i \in 1..Len(Pending)
      PROVE  Pending'[i] = Pending[i] /\ Pending[i].seq \in Nat /\ Pending[i].seq <= received
  <2>1. Pending[i] \in EventRecord
    BY <1>1, ElementOfSeq
  <2> QED BY <1>1, <2>1 DEF EventRecord, Added, Typed, Queued
<1> QED BY <1>1, <1>2, <1>3, <1>4

LEMMA SpeechTelling ==
  ASSUME SpeechInvariant, Typed', Telling
  PROVE  SpeechInvariant'
<1> USE DEF SpeechInvariant
<1>1. PICK p \in People, batch \in Seq(Message) :
             /\ Tells(p, batch) /\ ((Reads(batch) /\ Reading) \/ Misses)
             /\ UNCHANGED Environment
  BY DEF Telling
<1>2. Parted'
  BY PartedTelling
<1>3. UNCHANGED <<link, connected, changing, hand, place, present, talks, ignoreThrough,
                  talkingIgnoreThrough, list, raced>>
  BY <1>1 DEF Environment, client, handler, roster, limits
<1>4. CASE Misses
  BY <1>2, <1>3, <1>4 DEF Misses, Visible, Farewell, Connections, Ordered, Covering, Reading
<1>5. CASE Reads(batch) /\ Reading
  <2>1. PICK k \in 0..Len(batch) :
          /\ Added(Pending, Pending', received, batch, k)
          /\ received' = received + Len(batch)
          /\ \A q \in People : unheard'[q] = IF Lost(batch, k, q) THEN received' ELSE unheard[q]
    BY <1>5 DEF Reads
  <2> DEFINE n == Len(Pending)
  <2>2. /\ n \in Nat /\ Len(batch) \in Nat
        /\ DOMAIN Pending = 1..n /\ DOMAIN Pending' = 1..(n + k)
        /\ \A i \in 1..n :
             Pending'[i] = Pending[i] /\ Pending[i].seq \in Nat /\ Pending[i].seq <= received
        /\ \A i \in DOMAIN Pending' : i \notin 1..n =>
             \E j \in 1..k : /\ i = n + j
                             /\ Pending'[i].seq = received + j
                             /\ Pending'[i].kind = batch[j].kind
                             /\ Pending'[i].who = batch[j].who
        /\ \A j \in 1..k : /\ n + j \in DOMAIN Pending' /\ n + j > n
                           /\ Pending'[n + j].seq = received + j
                           /\ Pending'[n + j].kind = batch[j].kind
                           /\ Pending'[n + j].who = batch[j].who
    BY <2>1, ReadsShape
  <2> HIDE DEF n
  <2>3. /\ received \in Nat /\ list.boundary \in Nat /\ ignoreThrough \in Nat
        /\ talkingIgnoreThrough \in Nat /\ list.boundary <= received
        /\ ignoreThrough <= received /\ talkingIgnoreThrough <= received
    BY DEF Typed, Counted, ListRecord
  <2>4. Farewell'
    <3> SUFFICES ASSUME NEW i \in DOMAIN Pending', Pending'[i].kind = "leave"
                 PROVE  /\ Pending'[i].seq <= list.boundary => Pending'[i].who \notin list.found
                        /\ Pending'[i].seq <= ignoreThrough => Pending'[i].who \notin present
                        /\ \A j \in DOMAIN Pending' :
                             Pending'[j].kind = "join" /\ Pending'[j].who = Pending'[i].who
                               => Pending'[j].seq < Pending'[i].seq
      BY <1>3 DEF Farewell
    <3>1. CASE i \in 1..n
      <4>1. /\ Pending[i].kind = "leave" /\ Pending'[i] = Pending[i] /\ i \in DOMAIN Pending
            /\ Pending[i].who \in came
        BY <2>2, <3>1 DEF Parted
      <4>2. ASSUME NEW j \in DOMAIN Pending', Pending'[j].kind = "join",
                   Pending'[j].who = Pending'[i].who
            PROVE  Pending'[j].seq < Pending'[i].seq
        <5>1. CASE j \in 1..n
          BY <2>2, <4>1, <4>2, <5>1 DEF Farewell
        <5>2. CASE j \notin 1..n
          <6>1. PICK m \in 1..k : Pending'[j].kind = batch[m].kind /\ Pending'[j].who = batch[m].who
            BY <2>2, <5>2
          <6>2. m \in 1..Len(batch)
            BY <2>2
          <6> QED BY <1>1, <4>1, <4>2, <6>1, <6>2 DEF Tells
        <5> QED BY <5>1, <5>2
      <4> QED BY <4>1, <4>2 DEF Farewell
    <3>2. CASE i \notin 1..n
      <4>1. PICK m \in 1..k : /\ i = n + m /\ Pending'[i].seq = received + m
                             /\ Pending'[i].kind = batch[m].kind
        BY <2>2, <3>2
      <4>2. Len(batch) = 1 /\ m = 1 /\ k = 1
        <5>1. m \in 1..Len(batch)
          BY <2>2
        <5>2. Len(batch) = 1
          BY <1>1, <4>1, <5>1 DEF Tells
        <5> QED BY <5>1, <5>2, <2>2
      <4>3. ASSUME NEW j \in DOMAIN Pending', Pending'[j].kind = "join"
            PROVE  Pending'[j].seq < Pending'[i].seq
        <5>1. j \in 1..n
          <6>1. j # i
            BY <4>3
          <6> QED BY <2>2, <4>1, <4>2, <6>1
        <5>2. Pending'[j].seq \in Nat /\ Pending'[j].seq <= received
          BY <2>2, <5>1
        <5>3. Pending'[i].seq = received + m /\ m \in Nat /\ m > 0
          BY <2>2, <4>1
        <5> QED BY <2>3, <5>2, <5>3
      <4> QED BY <2>3, <4>1, <4>3
    <3> QED BY <3>1, <3>2
  <2>5. Connections'
    BY <1>3, <1>5 DEF Connections, Reading
  <2>6. ASSUME NEW i \in 0..n, NEW q, ~Lost(batch, k, q), Covered(i, q)
        PROVE  Covered(i, q)'
    <3>1. CASE q \in speaking
      <4>1. CASE q \in speaking'
        BY <4>1 DEF Covered
      <4>2. CASE q \notin speaking'
        <5>1. q = p
          BY <1>1, <3>1, <4>2 DEF Tells
        <5>2. PICK j \in 1..Len(batch) : batch[j].kind \in {"off", "leave"} /\ batch[j].who = p
          BY <1>1, <3>1, <4>2, <5>1 DEF Tells
        <5>3. j \in 1..k
          BY <2>2, <2>6, <5>1, <5>2 DEF Lost
        <5>4. /\ n + j \in DOMAIN Pending' /\ n + j > i /\ received + j > talkingIgnoreThrough
              /\ Pending'[n + j].seq = received + j /\ Pending'[n + j].kind = batch[j].kind
              /\ Pending'[n + j].who = batch[j].who
          BY <2>2, <2>3, <5>3, SMTT(30)
        <5> QED BY <1>3, <5>1, <5>2, <5>4 DEF Covered
      <4> QED BY <4>1, <4>2
    <3>2. CASE q \notin speaking
      <4>1. PICK j \in DOMAIN Pending : /\ j > i /\ Pending[j].who = q
                                       /\ Pending[j].kind \in {"off", "leave"}
                                       /\ Pending[j].seq > talkingIgnoreThrough
        BY <2>6, <3>2 DEF Covered
      <4>2. j \in DOMAIN Pending' /\ Pending'[j] = Pending[j]
        BY <2>2
      <4> QED BY <1>3, <4>1, <4>2 DEF Covered
    <3> QED BY <3>1, <3>2
  <2>7. Covering'
    <3>1. ASSUME NEW q \in talks \ raced, unheard'[q] = 0
          PROVE  Covered(0, q)'
      <4>1. q \in People
        BY DEF Visible
      <4>2. ~Lost(batch, k, q) /\ unheard[q] = 0
        <5>1. Lost(batch, k, q) => received' > 0
          BY <2>1, <2>2, <2>3 DEF Lost
        <5> QED BY <2>1, <3>1, <4>1, <5>1
      <4>3. Covered(0, q)
        BY <1>5, <3>1, <4>2 DEF Covering
      <4> QED BY <2>2, <2>6, <4>2, <4>3
    <3>2. ASSUME NEW i \in DOMAIN Pending', Pending'[i].kind = "on",
                 Pending'[i].seq > talkingIgnoreThrough,
                 unheard'[Pending'[i].who] < Pending'[i].seq
          PROVE  Covered(i, Pending[i].who)'
      <4>1. CASE i \in 1..n
        <5>1. /\ Pending'[i] = Pending[i] /\ i \in DOMAIN Pending /\ i \in 0..n
              /\ Pending[i].seq \in Nat /\ Pending[i].seq <= received
          BY <2>2, <4>1
        <5>2. Pending[i].who \in People
          BY <5>1, PendingNow, ElementOfSeq, LenProperties
             DEF Typed, Queued, PendingIs, EventRecord
        <5>3. ~Lost(batch, k, Pending[i].who)
          BY <2>1, <2>2, <2>3, <3>2, <5>1, <5>2
        <5>4. Covered(i, Pending[i].who)
          BY <1>5, <2>1, <3>2, <5>1, <5>2, <5>3 DEF Covering
        <5>5. \A q : ~Lost(batch, k, q) /\ Covered(i, q) => Covered(i, q)'
          BY <2>6, <5>1
        <5> QED BY <5>1, <5>3, <5>4, <5>5
      <4>2. CASE i \notin 1..n
        <5>1. PICK j \in 1..k : Pending'[i].kind = batch[j].kind /\ Pending'[i].who = batch[j].who
          BY <2>2, <4>2
        <5>2. j \in 1..Len(batch)
          BY <2>2
        <5>3. Pending'[i].who \in speaking'
          BY <1>1, <3>2, <5>1, <5>2 DEF Tells
        <5> QED BY <5>3 DEF Covered
      <4> QED BY <4>1, <4>2
    <3> QED BY <1>3, <1>5, <3>1, <3>2 DEF Covering
  <2>8. Ordered'
    <3> SUFFICES ASSUME NEW i \in DOMAIN Pending', NEW j \in DOMAIN Pending', i < j
                 PROVE  Pending'[i].seq < Pending'[j].seq
      BY DEF Ordered
    <3>1. CASE j \in 1..n
      <4>1. i \in 1..n
        BY <2>2, <3>1
      <4> QED BY <2>2, <3>1, <4>1 DEF Ordered
    <3>2. CASE j \notin 1..n
      <4>1. PICK m \in 1..k : j = n + m /\ Pending'[j].seq = received + m
        BY <2>2, <3>2
      <4>2. CASE i \in 1..n
        BY <2>2, <2>3, <4>1, <4>2
      <4>3. CASE i \notin 1..n
        <5>1. PICK l \in 1..k : i = n + l /\ Pending'[i].seq = received + l
          BY <2>2, <4>3
        <5> QED BY <2>2, <2>3, <4>1, <5>1
      <4> QED BY <4>2, <4>3
    <3> QED BY <3>1, <3>2
  <2> QED BY <1>2, <1>3, <2>4, <2>5, <2>7, <2>8 DEF Visible
<1> QED BY <1>1, <1>4, <1>5

\* The pending events without the one that was handled.
LEMMA DropShape ==
  ASSUME Typed, Typed', Dropping
  PROVE  /\ 1 \in DOMAIN Pending /\ Pending[1] = hand
         /\ \A i \in DOMAIN Pending' :
              i \in Nat /\ i + 1 \in DOMAIN Pending /\ Pending'[i] = Pending[i + 1]
         /\ \A j \in DOMAIN Pending : j # 1 => /\ j \in Nat /\ j > 1 /\ j - 1 \in DOMAIN Pending'
                                            /\ Pending'[j - 1] = Pending[j]
<1>1. /\ Pending \in Seq(EventRecord) /\ Pending' \in Seq(EventRecord)
      /\ Len(Pending) = Len(Pending') + 1 /\ Len(Pending') \in Nat /\ Pending[1] = hand
      /\ DOMAIN Pending = 1..Len(Pending) /\ DOMAIN Pending' = 1..Len(Pending')
      /\ \A i \in 1..Len(Pending') : Pending'[i] = Pending[i + 1]
  BY PendingNow, PendingNext, LenProperties DEF Typed, Queued, PendingIs, Dropping, Handled
<1>2. ASSUME NEW j \in DOMAIN Pending, j # 1
      PROVE  /\ j \in Nat /\ j > 1 /\ j - 1 \in DOMAIN Pending' /\ Pending'[j - 1] = Pending[j]
  <2>1. j - 1 \in 1..Len(Pending') /\ (j - 1) + 1 = j
    BY <1>1, <1>2
  <2> QED BY <1>1, <2>1
<1> QED BY <1>1, <1>2

\* What is covered stays so, unless the event handled is the end that covers it.
LEMMA CoveredDropping ==
  ASSUME Typed, Typed', Dropping, UNCHANGED <<speaking, talkingIgnoreThrough>>,
         NEW i \in Nat, NEW q, Covered(i, q),
         i = 0 => \/ hand.who # q \/ hand.kind \notin {"off", "leave"}
                  \/ ~(hand.seq > talkingIgnoreThrough)
  PROVE  \E m \in Nat : m + 1 >= i /\ (i = 0 => m = 0) /\ (i > 0 => m = i - 1) /\ Covered(m, q)'
<1> DEFINE m == IF i = 0 THEN 0 ELSE i - 1
<1>1. m \in Nat /\ m + 1 >= i /\ (i = 0 => m = 0) /\ (i > 0 => m = i - 1)
  OBVIOUS
<1>2. Covered(m, q)'
  <2>1. CASE q \in speaking
    BY <2>1 DEF Covered
  <2>2. CASE q \notin speaking
    <3>1. PICK j \in DOMAIN Pending : /\ j > i /\ Pending[j].who = q
                                     /\ Pending[j].kind \in {"off", "leave"}
                                     /\ Pending[j].seq > talkingIgnoreThrough
      BY <2>2 DEF Covered
    <3>2. j # 1
      <4>1. CASE i = 0
        BY <3>1, <4>1, DropShape
      <4>2. CASE i # 0
        BY <3>1, <4>2
      <4> QED BY <4>1, <4>2
    <3>3. j - 1 \in DOMAIN Pending' /\ Pending'[j - 1] = Pending[j] /\ j - 1 > m
      BY <3>1, <3>2, DropShape
    <3> HIDE DEF m
    <3> QED BY <3>1, <3>3 DEF Covered
  <2> QED BY <2>1, <2>2
<1> QED BY <1>1, <1>2

LEMMA SpeechDropping ==
  ASSUME SpeechInvariant, Typed', CheckTalking \/ SetTalking \/ HandleEvent,
         UNCHANGED asterisk, Dropping
  PROVE  SpeechInvariant'
<1> USE DEF SpeechInvariant, asterisk, limits, roster, history, client
<1>1. Parted'
  <2>1. Drains
    BY DEF Drains, Dropping
  <2> QED BY <2>1, PartedInside
<1>2. /\ 1 \in DOMAIN Pending /\ Pending[1] = hand /\ place' = "select"
      /\ \A i \in DOMAIN Pending' :
           i \in Nat /\ i + 1 \in DOMAIN Pending /\ Pending'[i] = Pending[i + 1]
  BY DropShape DEF Dropping
<1>3. UNCHANGED <<link, connected, changing, received, ignoreThrough, talkingIgnoreThrough, list,
                  inside, speaking>>
  BY DEF CheckTalking, SetTalking, HandleEvent, Dropping
<1>e. hand \in EventRecord
  BY DEF Typed, Queued, Dropping
<1>d. /\ hand.seq \in Nat /\ hand.who \in People /\ talkingIgnoreThrough \in Nat
      /\ unheard \in [People -> 0..received] /\ received \in Nat
  BY <1>e DEF EventRecord, Typed, Counted

\* What the event in hand says is applied and counts.
<1> DEFINE Counts == SetTalking /\ Heard(hand)
<1>c. IF Counts
      THEN /\ raced' = raced \ {hand.who}
           /\ unheard' = [unheard EXCEPT ![hand.who] =
                            IF unheard[hand.who] < hand.seq THEN 0 ELSE unheard[hand.who]]
      ELSE UNCHANGED <<unheard, raced>>
  BY DEF CheckTalking, SetTalking, HandleEvent
<1> HIDE DEF Counts
<1>4. \A q \in present' \ present :
        hand.kind = "join" /\ hand.who = q /\ ~(hand.seq <= ignoreThrough)
  <2>1. CASE CheckTalking \/ SetTalking
    BY <2>1 DEF CheckTalking, SetTalking
  <2>2. CASE HandleEvent
    BY <2>2 DEF HandleEvent, Apply
  <2> QED BY <2>1, <2>2
<1>5. Farewell'
  <2> SUFFICES ASSUME NEW i \in DOMAIN Pending', Pending'[i].kind = "leave"
               PROVE  /\ Pending'[i].seq <= list.boundary => Pending'[i].who \notin list.found
                      /\ Pending'[i].seq <= ignoreThrough => Pending'[i].who \notin present'
                      /\ \A j \in DOMAIN Pending' :
                           Pending'[j].kind = "join" /\ Pending'[j].who = Pending'[i].who
                             => Pending'[j].seq < Pending'[i].seq
    BY <1>3 DEF Farewell
  <2>1. Pending'[i] = Pending[i + 1] /\ i + 1 \in DOMAIN Pending
    BY <1>2
  <2>2. /\ Pending[i + 1].seq <= list.boundary => Pending[i + 1].who \notin list.found
        /\ Pending[i + 1].seq <= ignoreThrough => Pending[i + 1].who \notin present
        /\ \A j \in DOMAIN Pending :
             Pending[j].kind = "join" /\ Pending[j].who = Pending[i + 1].who
               => Pending[j].seq < Pending[i + 1].seq
    BY <2>1 DEF Farewell
  <2>3. ASSUME Pending[i + 1].seq <= ignoreThrough, Pending[i + 1].who \in present' PROVE FALSE
    <3>1. hand.kind = "join" /\ hand.who = Pending[i + 1].who /\ ~(hand.seq <= ignoreThrough)
      BY <1>4, <2>2, <2>3
    <3>2. hand.seq < Pending[i + 1].seq
      BY <1>2, <2>2, <3>1
    <3>3. hand.seq \in Nat /\ Pending[i + 1].seq \in Nat /\ ignoreThrough \in Nat
      BY <1>2, <2>1, PendingNow, LenProperties, ElementOfSeq
         DEF Typed, Queued, Counted, PendingIs, EventRecord
    <3> QED BY <2>3, <3>1, <3>2, <3>3
  <2>4. ASSUME NEW j \in DOMAIN Pending', Pending'[j].kind = "join",
                            Pending'[j].who = Pending'[i].who
        PROVE  Pending'[j].seq < Pending'[i].seq
    BY <1>2, <2>1, <2>2, <2>4
  <2> QED BY <2>1, <2>2, <2>3, <2>4
<1>6. /\ talks' \subseteq present'
      /\ \A q \in talks' \ talks : /\ SetTalking /\ place = "checked" /\ q = hand.who
                                   /\ hand.kind = "on"
  <2>1. CASE CheckTalking
    BY <2>1 DEF CheckTalking, Visible
  <2>2. CASE SetTalking
    <3>1. UNCHANGED present /\ place = "checked"
      BY <2>2 DEF SetTalking
    <3> QED BY <2>2, <3>1 DEF SetTalking, Visible
  <2>3. CASE HandleEvent
    BY <2>3 DEF HandleEvent, Apply, Visible
  <2> QED BY <2>1, <2>2, <2>3
<1>6a. Visible'
  BY <1>4, <1>6, <1>d DEF Visible
<1>7. Connections'
  BY <1>2, <1>3, <1>6, <1>c DEF Connections, Counts, Heard
<1>8. ASSUME Reading, NEW q \in talks \intersect talks', hand.who = q,
             hand.kind \in {"off", "leave"}, hand.seq > talkingIgnoreThrough
      PROVE  FALSE
  <2>1. CASE CheckTalking
    BY <1>2, <1>8, <2>1 DEF CheckTalking, Heard, Reading
  <2>2. CASE SetTalking
    BY <1>8, <2>2 DEF SetTalking, Visible
  <2>3. CASE HandleEvent
    <3>1. hand.kind = "leave"
      BY <1>8, <2>3 DEF HandleEvent
    <3>2. CASE hand.seq <= ignoreThrough
      BY <1>2, <1>8, <3>1, <3>2 DEF Farewell, Visible
    <3>3. CASE ~(hand.seq <= ignoreThrough)
      BY <1>8, <2>3, <3>1, <3>3 DEF HandleEvent, Apply
    <3> QED BY <3>2, <3>3
  <2> QED BY <2>1, <2>2, <2>3
<1>9. ASSUME Reading PROVE Covering'
  <2>1. ASSUME NEW q \in talks' \ raced', unheard'[q] = 0 PROVE Covered(0, q)'
    <3>1. CASE Counts /\ q = hand.who
      <4>1. SetTalking /\ hand.seq > talkingIgnoreThrough
        BY <3>1 DEF Counts, Heard
      <4>2. hand.kind = "on"
        BY <2>1, <3>1, <4>1 DEF SetTalking, Visible
      <4>3. unheard[hand.who] < hand.seq
        BY <1>c, <1>d, <2>1, <3>1, <4>1
      <4>4. Covered(1, q)
        BY <1>2, <1>9, <3>1, <4>1, <4>2, <4>3 DEF Covering
      <4>5. \E m \in Nat : m = 1 - 1 /\ Covered(m, q)'
        BY <1>3, <4>4, CoveredDropping
      <4> QED BY <4>5
    <3>2. CASE ~(Counts /\ q = hand.who)
      <4>1. q \notin raced
        BY <1>c, <2>1, <3>2
      <4>2. unheard[q] = 0
        BY <1>c, <1>d, <2>1, <3>2, <1>6a DEF Visible
      <4>3. q \in talks
        <5> SUFFICES ASSUME q \notin talks PROVE FALSE
          OBVIOUS
        <5>1. SetTalking /\ place = "checked" /\ q = hand.who
          BY <1>6, <2>1
        <5>2. hand.seq > talkingIgnoreThrough /\ connected
          BY <1>9, <4>1, <5>1 DEF Covering, Reading
        <5> QED BY <3>2, <5>1, <5>2 DEF Counts, Heard
      <4>4. Covered(0, q)
        BY <1>9, <4>1, <4>2, <4>3 DEF Covering
      <4>5. \/ hand.who # q \/ hand.kind \notin {"off", "leave"}
            \/ ~(hand.seq > talkingIgnoreThrough)
        BY <1>8, <1>9, <2>1, <4>3
      <4> QED BY <1>3, <4>4, <4>5, CoveredDropping
    <3> QED BY <3>1, <3>2
  <2>2. ASSUME NEW i \in DOMAIN Pending', Pending'[i].kind = "on",
               Pending'[i].seq > talkingIgnoreThrough,
               unheard'[Pending'[i].who] < Pending'[i].seq
        PROVE  Covered(i, Pending[i].who)'
    <3>1. i \in Nat /\ i + 1 \in DOMAIN Pending /\ Pending'[i] = Pending[i + 1]
      BY <1>2
    <3>2. unheard[Pending'[i].who] < Pending'[i].seq
      <4>1. Pending'[i] \in EventRecord
        BY <3>1, PendingNow, ElementOfSeq, LenProperties DEF Typed, Queued, PendingIs
      <4>2. hand.seq < Pending'[i].seq
        <5>1. 1 < i + 1
          <6>1. i >= 1
            BY <2>2, PendingNext, LenProperties DEF Typed, Queued, PendingIs
          <6> QED BY <3>1, <6>1
        <5> QED BY <1>2, <3>1, <5>1 DEF Ordered
      <4> QED BY <1>c, <1>d, <2>2, <4>1, <4>2 DEF EventRecord
    <3>3. Covered(i + 1, Pending'[i].who)
      BY <1>9, <2>2, <3>1, <3>2 DEF Covering
    <3>4. ASSUME NEW q, Covered(i + 1, q) PROVE Covered(i, q)'
      <4>1. \E m \in Nat : m = (i + 1) - 1 /\ Covered(m, q)'
        BY <1>3, <3>1, <3>4, CoveredDropping
      <4> QED BY <3>1, <4>1
    <3> QED BY <3>3, <3>4
  <2> QED BY <1>2, <1>3, <2>1, <2>2 DEF Covering
<1>10. Covering'
  BY <1>3, <1>9 DEF Covering, Reading
<1>11. Ordered'
  <2> SUFFICES ASSUME NEW i \in DOMAIN Pending', NEW j \in DOMAIN Pending', i < j
               PROVE  Pending'[i].seq < Pending'[j].seq
    BY DEF Ordered
  <2>1. i + 1 < j + 1
    BY <1>2
  <2> QED BY <1>2, <2>1 DEF Ordered
<1> QED BY <1>1, <1>5, <1>6a, <1>7, <1>10, <1>11

\* Steps that leave the pending events alone and show nobody new.
LEMMA SpeechUnheard ==
  ASSUME SpeechInvariant, Typed', UNCHANGED asterisk, Same, Parted', Farewell', Connections',
         UNCHANGED <<talkingIgnoreThrough, unheard, raced>>, Reading' => Reading,
         talks' \subseteq talks, Visible',
         place' = "checked" => \/ place = "checked" /\ hand' = hand
                               \/ hand'.seq > talkingIgnoreThrough
  PROVE  SpeechInvariant'
<1>1. UNCHANGED <<Pending, speaking>>
  BY DEF Same, asterisk
<1>2. \A i, q : Covered(i, q) => Covered(i, q)'
  BY <1>1 DEF Covered
<1>3. Covering' /\ Ordered'
  BY <1>1, <1>2 DEF SpeechInvariant, Covering, Ordered
<1> QED BY <1>3 DEF SpeechInvariant

LEMMA SpeechTake ==
  ASSUME SpeechInvariant, Typed', Take \/ CheckTalking, UNCHANGED asterisk, Drains, Same
  PROVE  SpeechInvariant'
<1> USE DEF asterisk, limits, roster, history, client
<1>1. UNCHANGED <<link, connected, changing, received, present, talks, ignoreThrough,
                  talkingIgnoreThrough, list, unheard, raced, inside, came>>
  BY DEF Take, CheckTalking, Same
<1>2. Parted' /\ UNCHANGED Pending
  BY PartedInside DEF SpeechInvariant, Same
<1>3. Farewell'
  BY <1>1, <1>2 DEF Farewell, SpeechInvariant
<1>4. place' = "checked" => hand' = hand /\ connected /\ hand.seq > talkingIgnoreThrough
  BY DEF Take, CheckTalking, Heard
<1>5. Connections'
  BY <1>1, <1>4 DEF Connections, SpeechInvariant
<1>6. Reading' => Reading
  BY <1>1 DEF Reading
<1>7. talks' \subseteq talks /\ Visible'
  BY <1>1 DEF SpeechInvariant, Visible
<1>8. place' = "checked" => hand'.seq > talkingIgnoreThrough
  BY <1>4
<1> QED BY <1>1, <1>2, <1>3, <1>5, <1>6, <1>7, <1>8, SpeechUnheard

LEMMA SpeechConnection ==
  ASSUME SpeechInvariant, Typed', UNCHANGED <<asterisk, handler, queue>>, Same, Drains,
         LinkBreaks \/ Connection
  PROVE  SpeechInvariant'
<1> USE DEF SpeechInvariant, asterisk, handler, limits, roster, history, client, events
<1>1. Parted' /\ UNCHANGED <<Pending, received, place, hand, present, ignoreThrough>>
  BY PartedInside DEF Same, LinkBreaks, Connection, ClearSession, SetSession, StoreBoundary,
                      ResetTalking
<1>2. list'.boundary = list.boundary /\ list'.found = list.found
  BY DEF LinkBreaks, Connection, ClearSession, SetSession, StoreBoundary, ResetTalking, Typed,
         Counted, ListRecord
<1>3. Farewell'
  BY <1>1, <1>2 DEF Farewell
<1>o. Ordered'
  BY <1>1 DEF Ordered
<1>4. CASE LinkBreaks
  <2>1. link' = FALSE /\ UNCHANGED <<connected, changing, talks, talkingIgnoreThrough, raced>>
    BY <1>4 DEF LinkBreaks
  <2>2. Connections'
    BY <1>1, <2>1 DEF Connections
  <2>3. Covering'
    BY <2>1 DEF Covering, Reading
  <2> QED BY <1>1, <1>3, <1>o, <2>1, <2>2, <2>3 DEF Visible
<1>5. CASE ClearSession
  <2>1. /\ ~link /\ connected' = FALSE /\ changing' = "boundary"
        /\ UNCHANGED <<link, talks, talkingIgnoreThrough, raced>>
    BY <1>5 DEF ClearSession
  <2>2. Connections' /\ Covering'
    BY <1>1, <2>1 DEF Connections, Covering, Reading
  <2> QED BY <1>1, <1>3, <1>o, <2>1, <2>2 DEF Visible
<1>6. CASE SetSession
  <2>1. /\ ~connected /\ changing = "none" /\ link' = TRUE /\ connected' = TRUE
        /\ changing' = "boundary" /\ UNCHANGED <<talks, talkingIgnoreThrough, raced>>
    BY <1>6 DEF SetSession
  <2>2. Connections' /\ Covering'
    BY <1>1, <2>1 DEF Connections, Covering, Reading
  <2> QED BY <1>1, <1>3, <1>o, <2>1, <2>2 DEF Visible
<1>7. CASE StoreBoundary
  <2>1. /\ changing' = "reset" /\ talkingIgnoreThrough' = received
        /\ UNCHANGED <<link, connected, talks, raced>>
    BY <1>7 DEF StoreBoundary
  <2>2. Connections'
    BY <1>1, <2>1 DEF Connections
  <2>3. Covering'
    BY <2>1 DEF Covering, Reading
  <2> QED BY <1>1, <1>3, <1>o, <2>1, <2>2, <2>3 DEF Visible
<1>8. CASE ResetTalking
  <2>1. /\ changing = "reset" /\ changing' = "none" /\ talks' = {}
        /\ place = "checked" => hand.who \in raced'
        /\ UNCHANGED <<link, connected, talkingIgnoreThrough>>
    BY <1>8 DEF ResetTalking
  <2>2. talkingIgnoreThrough = received
    BY <2>1 DEF Connections
  <2>3. \A i \in DOMAIN Pending : ~(Pending[i].seq > talkingIgnoreThrough)
    <3>1. ASSUME NEW i \in DOMAIN Pending PROVE Pending[i].seq <= received /\ Pending[i].seq \in Nat
      BY PendingNow, LenProperties, ElementOfSeq DEF PendingIs, Typed, Queued, EventRecord
    <3> QED BY <2>2, <3>1 DEF Typed, Counted
  <2>4. Connections'
    BY <1>1, <2>1, <2>2 DEF Connections
  <2>5. Covering'
    BY <1>1, <2>1, <2>3 DEF Covering
  <2> QED BY <1>1, <1>3, <1>o, <2>1, <2>4, <2>5 DEF Visible
<1> QED BY <1>4, <1>5, <1>6, <1>7, <1>8 DEF Connection

LEMMA SpeechElsewhere ==
  ASSUME SpeechInvariant, Typed', Elsewhere, UNCHANGED <<asterisk, handler, queue>>, Same, Drains
  PROVE  SpeechInvariant'
<1> USE DEF asterisk, handler, limits, roster, history, client
<1>1. CASE LinkBreaks \/ Connection
  BY <1>1, SpeechConnection
<1>2. CASE ~(LinkBreaks \/ Connection)
  <2>1. /\ UNCHANGED <<link, connected, changing, talkingIgnoreThrough, unheard, raced>>
        /\ talks' \subseteq talks /\ Visible'
    <3>1. CASE ListFinish
      BY <3>1 DEF ListFinish, ListedMutes, Visible, SpeechInvariant, Typed, Counted, ListRecord
    <3>2. CASE ~ListFinish
      BY <1>2, <3>2 DEF Elsewhere, Resync, ListStart, ListTimesOut, Listing, AsteriskLists,
         ListFails, Refresh, SetMuted, RequestTimesOut, SpeechInvariant, Visible
    <3> QED BY <3>1, <3>2
  <2>2. Parted' /\ UNCHANGED <<Pending, received, place, hand>>
    BY PartedInside DEF Same, SpeechInvariant
  <2>3. Farewell'
    <3>1. CASE ListFinish
      <4>1. ignoreThrough' = list.boundary /\ present' = list.found /\ list'.found = {}
        BY <3>1 DEF ListFinish, Boundary, NoList
      <4> QED BY <2>2, <4>1 DEF Farewell, SpeechInvariant
    <3>2. CASE AsteriskLists
      <4>1. /\ list'.found = inside /\ UNCHANGED <<ignoreThrough, present>>
        BY <3>2 DEF AsteriskLists, SpeechInvariant, Typed, Counted, ListRecord
      <4> QED BY <2>2, <4>1 DEF Farewell, SpeechInvariant, Parted
    <3>3. CASE ~ListFinish /\ ~AsteriskLists
      <4>1. UNCHANGED <<ignoreThrough, present>>
        BY <1>2, <3>3 DEF Elsewhere, Resync, ListStart, ListTimesOut, Listing, ListFails, Refresh,
                          SetMuted, RequestTimesOut
      <4>2. list'.found = {} \/ (list'.found = list.found /\ list'.boundary = list.boundary)
        <5>1. CASE UNCHANGED list
          BY <5>1
        <5>2. CASE ListTimesOut
          BY <5>2 DEF ListTimesOut, SpeechInvariant, Typed, Counted, ListRecord
        <5>3. CASE \E by \in {"run", "user"} : ListStart(by)
          BY <5>3 DEF ListStart, NoList
        <5>4. CASE ListFails
          BY <5>4 DEF ListFails, NoList
        <5> QED BY <1>2, <3>3, <5>1, <5>2, <5>3, <5>4
                DEF Elsewhere, Resync, Listing, Refresh, SetMuted, RequestTimesOut
      <4> QED BY <2>2, <4>1, <4>2 DEF Farewell, SpeechInvariant
    <3> QED BY <3>1, <3>2, <3>3
  <2>4. Connections'
    BY <2>1, <2>2 DEF Connections, SpeechInvariant
  <2>5. Reading' => Reading
    BY <2>1 DEF Reading
  <2> QED BY <2>1, <2>2, <2>3, <2>4, <2>5, SpeechUnheard
<1> QED BY <1>1, <1>2

LEMMA SpeechInit == ASSUME SpeakingAssumption, Init PROVE SpeechInvariant
BY InitTyped DEF Init, SpeechInvariant, Parted, Visible, Farewell, Connections, Ordered, Covering

LEMMA SpeechStep ==
  ASSUME SpeakingAssumption, SpeechInvariant, [Next]_vars
  PROVE  SpeechInvariant'
<1>t. Typed
  BY DEF SpeechInvariant
<1>1. CASE Next
  <2>1. /\ Typed'
        /\ \/ Telling
           \/ Same /\ UNCHANGED <<asterisk, missed, unheard, Environment>>
           \/ Inside /\ UNCHANGED asterisk /\ Drains
    BY <1>1, <1>t, StepTyped
  <2>2. CASE Same /\ UNCHANGED <<asterisk, missed, unheard, Environment>>
    <3>1. UNCHANGED <<link, connected, changing, hand, place, present, talks, ignoreThrough,
                      talkingIgnoreThrough, list, raced, unheard, Pending, received, came, inside>>
      BY <2>2 DEF Same, asterisk, Environment, client, handler, roster, limits
    <3>2. Parted' /\ Farewell' /\ Connections' /\ (Reading' => Reading)
      BY <3>1 DEF SpeechInvariant, Parted, Farewell, Connections, Reading
    <3>3. talks' \subseteq talks /\ Visible'
      BY <3>1 DEF SpeechInvariant, Visible
    <3> QED BY <2>1, <2>2, <3>1, <3>2, <3>3, SpeechUnheard
  <2>3. CASE Elsewhere
    BY <1>t, <2>1, <2>3, ElsewhereTyped, SpeechElsewhere
  <2>4. CASE Inside /\ ~Elsewhere /\ UNCHANGED asterisk /\ Drains
    <3>1. CASE place # "select" /\ place' = "select"
      <4>1. Dropping
        BY <2>4, <3>1 DEF Drains
      <4>2. ~Take
        BY <3>1 DEF Take
      <4> QED BY <2>1, <2>4, <4>1, <4>2, SpeechDropping DEF Inside
    <3>2. CASE ~(place # "select" /\ place' = "select")
      <4>1. Same
        BY <2>4, <3>2 DEF Drains
      <4>2. Take \/ CheckTalking
        BY <2>4, <3>2 DEF Inside, SetTalking, HandleEvent
      <4> QED BY <2>1, <2>4, <4>1, <4>2, SpeechTake
    <3> QED BY <3>1, <3>2
  <2> QED BY <2>1, <2>2, <2>3, <2>4, SpeechTelling
<1>2. CASE UNCHANGED vars
  <2>1. UNCHANGED <<queue, hand, place>>
    BY <1>2 DEF vars, events, handler
  <2>2. Pending' = Pending
    BY <2>1 DEF Pending
  <2> QED BY <1>2, <2>2 DEF vars, asterisk, client, events, handler, limits, roster, history,
            SpeechInvariant, Typed, Members, Counted, Queued, Parted, Visible, Farewell,
            Connections, Ordered, Covering, Covered, Reading
<1> QED BY <1>1, <1>2

LEMMA SpeechFollows == ASSUME SpeechInvariant PROVE SpeechEnds
<1> SUFFICES ASSUME link = connected, changing = "none", NEW p \in talks \ raced
             PROVE  /\ connected
                    /\ \/ p \in speaking
                       \/ \E i \in DOMAIN Pending : /\ Pending[i].who = p
                                                    /\ Pending[i].kind \in {"off", "leave"}
                                                    /\ Pending[i].seq > talkingIgnoreThrough
                       \/ unheard[p] > 0
  BY DEF SpeechEnds
<1>1. connected
  BY DEF SpeechInvariant, Connections
<1>2. unheard[p] \in Nat
  BY DEF SpeechInvariant, Visible, Typed, Counted
<1>3. unheard[p] = 0 => Covered(0, p)
  BY <1>1 DEF SpeechInvariant, Covering, Reading
<1> QED BY <1>1, <1>2, <1>3 DEF Covered

\* Once a change of the connection has been handled, whoever is shown speaking
\* speaks or the end of the speech is still to be handled, and nobody is shown
\* speaking without a connection, for any participants, queue and faults
\* (OnAMIStateChange, Roster.ResetTalking, handleEvent): but for a participant
\* whose speech was told by an event that the change overtook between its check
\* and SetTalking, or whose end of speech did not fit in the queue, and for these
\* only until an event read since tells of their speech.
THEOREM SpeechAlwaysEnds == Spec => []SpeechEnds
<1>1. Spec => []SpeechInvariant
  BY SpeakingAssumption, SpeechInit, SpeechStep, PTL DEF Spec
<1> QED BY <1>1, SpeechFollows, PTL

----------------------------------------------------------------------------
(* The type invariant.                                                     *)

\* The roster and the requests.
Rosters ==
  /\ speaking \subseteq inside \ muted
  /\ present \subseteq People /\ mutes \subseteq present /\ talks \subseteq present \ mutes
  /\ list.mutes \subseteq list.found

Requests ==
  /\ request \in [pc : {"idle", "sent", "obeyed", "refreshing"},
                  who : People \union {NoRequest.who}, to : BOOLEAN]
  /\ request.pc # "idle" => request.who \in People
  /\ request.pc = "refreshing" <=> list.pc # "idle" /\ list.by = "user"

Bounded == faults \in 0..MaxFaults /\ received <= MaxEvents /\ raced \subseteq People

Complete == Rosters /\ Requests /\ Bounded

\* The steps of a participant at Asterisk.
LEMMA ConferenceComplete ==
  ASSUME SpeakingAssumption, Typed, Rosters, Bounded, NEW p \in People,
         \/ Joins(p) \/ Leaves(p) \/ Speaks(p) \/ FallsSilent(p)
         \/ \E off \in BOOLEAN : Switch(p, off)
  PROVE  Rosters' /\ Bounded'
<1>1. PICK batch \in Seq(Message) :
        Send(batch) /\ Tells(p, batch) /\ Members' /\ UNCHANGED Environment
  BY ConferenceTells
<1>2. UNCHANGED <<present, mutes, talks, list, faults, raced>>
  BY <1>1 DEF Environment, roster
<1>3. speaking' \subseteq inside' \ muted'
  BY DEF Rosters, Typed, Members, Joins, Leaves, Speaks, FallsSilent, Switch
<1>4. received' <= MaxEvents
  BY <1>1 DEF Send, events, Bounded, Reading
<1> QED BY <1>2, <1>3, <1>4 DEF Rosters, Bounded

\* An event of Run's.
LEMMA HandlingComplete ==
  ASSUME Typed, Complete, Take \/ CheckTalking \/ SetTalking \/ HandleEvent
  PROVE  Complete'
<1> USE DEF asterisk, client, limits, history, roster, events
<1>1. UNCHANGED <<asterisk, received, list, request, faults>> /\ raced' \subseteq raced
  BY DEF Take, CheckTalking, SetTalking, HandleEvent
<1>2. present' \subseteq People /\ mutes' \subseteq present' /\ talks' \subseteq present' \ mutes'
  <2>1. CASE Take \/ CheckTalking
    BY <2>1 DEF Take, CheckTalking, Complete, Rosters
  <2>2. CASE SetTalking
    BY <2>2 DEF SetTalking, Complete, Rosters
  <2>3. CASE HandleEvent
    <3>1. hand \in EventRecord /\ hand.kind \in {"join", "leave", "mute", "unmute"}
          /\ hand.who \in People
      BY <2>3 DEF HandleEvent, Typed, Queued, EventRecord, Kinds
    <3>2. UNCHANGED roster \/ Apply(hand)
      BY <2>3 DEF HandleEvent
    <3>3. CASE Apply(hand) /\ hand.kind = "join"
      BY <3>1, <3>3 DEF Apply, Complete, Rosters
    <3>4. CASE Apply(hand) /\ hand.kind = "leave"
      BY <3>1, <3>4 DEF Apply, Complete, Rosters
    <3>5. CASE Apply(hand) /\ hand.kind = "mute"
      BY <3>1, <3>5 DEF Apply, Complete, Rosters
    <3>6. CASE Apply(hand) /\ hand.kind = "unmute"
      BY <3>1, <3>6 DEF Apply, Complete, Rosters
    <3> QED BY <3>1, <3>2, <3>3, <3>4, <3>5, <3>6 DEF Complete, Rosters
  <2> QED BY <2>1, <2>2, <2>3
<1> QED BY <1>1, <1>2 DEF Complete, Rosters, Requests, Bounded

\* The client, the lists and the requests.
LEMMA ElsewhereComplete ==
  ASSUME SpeakingAssumption, Typed, Complete, Elsewhere
  PROVE  Complete'
<1> USE DEF asterisk, client, limits, history, roster, events, handler,
            NoList, NoRequest, Complete, Rosters, Requests, Bounded, Typed, Counted, SpeakingAssumption
<1>1. CASE LinkBreaks \/ SetSession \/ StoreBoundary
  BY <1>1 DEF LinkBreaks, SetSession, StoreBoundary
<1>2. CASE ClearSession
  BY <1>2 DEF ClearSession, ListRecord
<1>3. CASE ResetTalking
  BY <1>3 DEF ResetTalking, Queued, EventRecord
<1>4. CASE Resync
  BY <1>4 DEF Resync, ListStart
<1>5. CASE Refresh
  <2>1. CASE ListStart("user") /\ request' = [request EXCEPT !.pc = "refreshing"]
    <3>1. /\ list'.pc = "asked" /\ list'.by = "user" /\ list'.mutes = {}
          /\ UNCHANGED <<asterisk, client, events, handler, roster, limits, faults, unheard, raced>>
      BY <2>1 DEF ListStart
    <3>2. request.pc = "obeyed" /\ request'.pc = "refreshing"
      BY <1>5, <2>1 DEF Refresh
    <3> QED BY <2>1, <3>1, <3>2
  <2>2. CASE list.pc = "idle" /\ request' = NoRequest
             /\ UNCHANGED <<asterisk, client, events, handler, roster, limits, list, faults, history>>
    BY <2>2
  <2> QED BY <1>5, <2>1, <2>2 DEF Refresh
<1>6. CASE ListTimesOut
  BY <1>6 DEF ListTimesOut, ListRecord
<1>7. CASE AsteriskLists
  BY <1>7 DEF AsteriskLists, ListRecord, Members
<1>8. CASE ListFinish
  BY <1>8 DEF ListFinish, ListRecord, ListedMutes, Returned
<1>9. CASE ListFails
  BY <1>9 DEF ListFails, Returned
<1>10. ASSUME NEW p \in People, NEW to \in BOOLEAN, SetMuted(p, to) PROVE Complete'
  BY <1>10 DEF SetMuted
<1>11. CASE RequestTimesOut
  BY <1>11 DEF RequestTimesOut
<1> QED
  BY <1>1, <1>2, <1>3, <1>4, <1>5, <1>6, <1>7, <1>8, <1>9, <1>10, <1>11
     DEF Elsewhere, Connection, Listing

LEMMA CompleteStep ==
  ASSUME SpeakingAssumption, Typed, Complete, [Next]_vars
  PROVE  Complete'
<1>1. ASSUME NEW p \in People,
             Joins(p) \/ Leaves(p) \/ Speaks(p) \/ FallsSilent(p) \/ SwitchesItself(p)
      PROVE  Complete'
  <2>1. Rosters' /\ Bounded'
    BY <1>1, ConferenceComplete DEF SwitchesItself, Complete
  <2>2. UNCHANGED <<request, list>>
    BY <1>1 DEF Joins, Leaves, Speaks, FallsSilent, SwitchesItself, Switch, Environment
  <2> QED BY <2>1, <2>2 DEF Complete, Requests
<1>2. CASE AsteriskObeys
  <2>1. CASE request.who \in inside
    <3>1. Switch(request.who, request.to) /\ request.who \in People /\ request.to \in BOOLEAN
      BY <1>2, <2>1 DEF AsteriskObeys, Typed, Members, Complete, Requests
    <3>2. Rosters' /\ Bounded'
      BY <3>1, ConferenceComplete DEF Complete
    <3>3. list' = list /\ request.pc = "sent" /\ request' = [request EXCEPT !.pc = "obeyed"]
      BY <1>2, <2>1, <3>1 DEF AsteriskObeys, Switch, Environment
    <3> QED BY <3>1, <3>2, <3>3 DEF Complete, Requests
  <2>2. CASE request.who \notin inside
    <3>1. /\ request.pc = "sent" /\ request' = NoRequest
          /\ UNCHANGED <<asterisk, received, roster, list, faults, raced, unheard>>
      BY <1>2, <2>2 DEF AsteriskObeys, Environment, events
    <3>2. Rosters' /\ Bounded'
      BY <3>1 DEF asterisk, roster, Complete, Rosters, Bounded
    <3>3. Requests'
      BY <3>1 DEF NoRequest, Complete, Requests
    <3> QED BY <3>2, <3>3 DEF Complete
  <2> QED BY <2>1, <2>2
<1>3. CASE UNCHANGED vars
  BY <1>3 DEF vars, asterisk, events, roster, history, Complete, Rosters, Requests, Bounded
<1> QED
  BY <1>1, <1>2, <1>3, HandlingComplete, ElsewhereComplete
     DEF Next, Conference, Handling, Elsewhere, Muting

\* The roster shows nobody muted or speaking who is not in it, nor both at once
\* (Roster.Add, SetMuted, SetTalking and Replace keep it among themselves), and
\* SetMuted waits for a List exactly while it holds syncMu for one.
THEOREM SpeakingTypeCorrect == Spec => []TypeOK
<1>1. Init => SpeechInvariant /\ Complete
  BY SpeakingAssumption, SpeechInit
     DEF Init, NoList, NoRequest, Complete, Rosters, Requests, Bounded, SpeakingAssumption
<1>2. SpeechInvariant /\ Complete /\ [Next]_vars => SpeechInvariant' /\ Complete'
  BY SpeakingAssumption, SpeechStep, CompleteStep DEF SpeechInvariant
<1>3. SpeechInvariant /\ Complete => TypeOK
  <2> SUFFICES ASSUME SpeechInvariant, Complete PROVE TypeOK
    OBVIOUS
  <2> DEFINE R == [seq : Nat, kind : Kinds, who : People, muted : BOOLEAN]
  <2>1. EventRecord \subseteq R
    BY DEF EventRecord
  <2>2. queue \in Seq(R) /\ (place # "select" => hand \in R)
    <3>1. queue \in Seq(EventRecord) /\ (place # "select" => hand \in EventRecord)
      BY DEF SpeechInvariant, Typed, Queued
    <3>2. Len(queue) \in Nat /\ queue \in [1..Len(queue) -> EventRecord]
      BY <3>1, LenProperties
    <3> HIDE DEF R
    <3>3. queue \in [1..Len(queue) -> R]
      BY <2>1, <3>2
    <3>4. queue \in Seq(R)
      BY <3>2, <3>3, SeqDef
    <3> QED BY <2>1, <3>1, <3>4
  <2>3. received \in 0..MaxEvents
    BY SpeakingAssumption DEF SpeechInvariant, Typed, Counted, Complete, Bounded, SpeakingAssumption
  <2>4. list \in [pc : {"idle", "asked", "answered", "broken"}, by : {"run", "user"},
                  boundary : 0..received, found : SUBSET People, mutes : SUBSET People]
    BY DEF SpeechInvariant, Typed, Counted, ListRecord
  <2> HIDE DEF R
  <2>5. ignoreThrough \in 0..received /\ talkingIgnoreThrough \in 0..received
    BY DEF SpeechInvariant, Typed, Counted
  <2> QED
    BY <2>2, <2>3, <2>4, <2>5 DEF R, TypeOK, SpeechInvariant, Typed, Members, Counted, Queued,
         Connections, Complete, Rosters, Requests, Bounded
<1> QED BY <1>1, <1>2, <1>3, PTL DEF Spec
=============================================================================
