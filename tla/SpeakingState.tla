---------------------------- MODULE SpeakingState ----------------------------
(***************************************************************************)
(* Who is muted and who is speaking: the microphones of one room's roster. *)
(* internal/conference/mute.go and roster.go, the parts of service.go that *)
(* handle their events and change the roster, and how the AMI client       *)
(* (internal/ami/client.go) numbers what it reads and reports changes of   *)
(* the connection.                                                         *)
(*                                                                         *)
(* The mute is in every ConfbridgeList, speech is in none: it is known     *)
(* from events alone, and forgotten when the connection changes.  Four     *)
(* goroutines meet in the roster: the client's, which reads packets and    *)
(* runs OnAMIStateChange; Service.Run, which handles events and resyncs;   *)
(* and a user's SetMuted.  syncMu is held from "checked" on and while a    *)
(* list is in progress.                                                    *)
(*                                                                         *)
(* A packet counts as read when Asterisk sends it, and only events are     *)
(* numbered: a reply comes between two of them.  What happens in the       *)
(* conference while the client changes state happens after it: the packet  *)
(* waits in the socket.  A uniqueid joins once.                            *)
(***************************************************************************)
EXTENDS Integers, Sequences, FiniteSets

CONSTANTS
  People,
  Early,        \* those in the conference before the program starts
  QueueSize,    \* the room's event queue: 256 in the code
  MaxEvents,    \* bound: events read
  MaxFaults     \* bound: connections and replies lost

ASSUME SpeakingAssumption ==
  Early \subseteq People /\ QueueSize \in Nat \ {0} /\ MaxEvents \in Nat /\ MaxFaults \in Nat

VARIABLES
  came, inside, muted, speaking,   \* Asterisk: who has joined so far, who is
                                   \* there, whose microphone is off, who speaks
  link,                  \* the connection works
  connected,             \* Client.Connected()
  changing,              \* where OnAMIStateChange is
  received,              \* Client.EventSequence()
  queue,                 \* events read and not yet taken
  hand, place,           \* the event Run handles, and where it is
  present, mutes, talks, \* Roster: the participants, Muted, Talking
  ignoreThrough, talkingIgnoreThrough,
  list,                  \* the List in progress
  request,               \* a user's SetMuted
  faults,                \* bound
  missed,                \* history, see AsteriskLink: an event was lost since the
                         \* last complete list began
  unheard,               \* history: what had been read when the queue had no room
                         \* for the end of a speech; 0 if it had, or has been
                         \* told of the participant's speech since
  raced                  \* history: whose speech an event tells that was checked
                         \* before the connection changed and is applied after,
                         \* until one of the new connection tells otherwise

asterisk == <<came, inside, muted, speaking>>
client   == <<link, connected, changing>>
events   == <<received, queue>>
handler  == <<hand, place>>
roster   == <<present, mutes, talks>>
limits   == <<ignoreThrough, talkingIgnoreThrough>>
history  == <<missed, unheard, raced>>
vars == <<asterisk, client, events, handler, roster, limits, list, request, faults, history>>

Kinds == {"join", "leave", "mute", "unmute", "on", "off"}
Nothing == [seq |-> 0, kind |-> "off", who |-> CHOOSE p \in People : TRUE, muted |-> FALSE]
NoList == [pc |-> "idle", by |-> "run", boundary |-> 0, found |-> {}, mutes |-> {}]
NoRequest == [pc |-> "idle", who |-> CHOOSE p \in People : TRUE, to |-> FALSE]

Reading == link /\ connected /\ changing = "none"

\* Nobody is shown muted or speaking who is not shown, or both at once, and a
\* request is refreshing exactly while the List in progress is its own.
TypeOK ==
  /\ came \subseteq People /\ inside \subseteq came
  /\ muted \subseteq inside /\ speaking \subseteq inside \ muted
  /\ link \in BOOLEAN /\ connected \in BOOLEAN /\ changing \in {"none", "boundary", "reset"}
  /\ received \in 0..MaxEvents
  /\ queue \in Seq([seq : Nat, kind : Kinds, who : People, muted : BOOLEAN])
  /\ Len(queue) <= QueueSize
  /\ place \in {"select", "taken", "checked"}
  /\ place # "select" => hand \in [seq : Nat, kind : Kinds, who : People, muted : BOOLEAN]
  /\ present \subseteq People /\ mutes \subseteq present /\ talks \subseteq present \ mutes
  /\ ignoreThrough \in 0..received /\ talkingIgnoreThrough \in 0..received
  /\ list \in [pc : {"idle", "asked", "answered", "broken"}, by : {"run", "user"},
               boundary : 0..received, found : SUBSET People, mutes : SUBSET People]
  /\ list.mutes \subseteq list.found
  /\ request \in [pc : {"idle", "sent", "obeyed", "refreshing"},
                  who : People \union {NoRequest.who}, to : BOOLEAN]
  /\ request.pc # "idle" => request.who \in People
  /\ request.pc = "refreshing" <=> list.pc # "idle" /\ list.by = "user"
  /\ faults \in 0..MaxFaults
  /\ missed \in {"none", "before", "since"} /\ unheard \in [People -> 0..received]
  /\ raced \subseteq People

----------------------------------------------------------------------------
(* The conference, and how the client reads what it sends.                 *)

Event(kind, p) == [kind |-> kind, who |-> p, muted |-> p \in muted']

\* route: what does not fit in the queue is dropped.  With the connection gone
\* nothing arrives.
Send(batch) ==
  IF Reading
  THEN LET kept == IF Len(batch) <= QueueSize - Len(queue) THEN Len(batch)
                   ELSE QueueSize - Len(queue)
           numbered == [i \in 1..Len(batch) |->
                          [seq |-> received + i, kind |-> batch[i].kind,
                           who |-> batch[i].who, muted |-> batch[i].muted]]
       IN  /\ received + Len(batch) <= MaxEvents
           /\ received' = received + Len(batch)
           /\ queue' = queue \o SubSeq(numbered, 1, kept)
           /\ missed' = IF kept < Len(batch) THEN "since" ELSE missed
           /\ unheard' = [p \in People |->
                IF \E i \in kept + 1 .. Len(batch) :
                     batch[i].who = p /\ batch[i].kind \in {"off", "leave"}
                THEN received' ELSE unheard[p]]
  ELSE /\ ~link \/ ~connected
       /\ missed' = "since" /\ UNCHANGED <<events, unheard>>

Environment == <<client, handler, roster, limits, list, faults, raced>>

Joins(p) ==
  /\ p \notin came /\ came' = came \union {p} /\ inside' = inside \union {p}
  /\ muted' \in {muted, muted \union {p}}
  /\ Send(<<Event("join", p)>>)
  /\ UNCHANGED <<speaking, request, Environment>>

Leaves(p) ==
  /\ p \in inside /\ inside' = inside \ {p}
  /\ muted' = muted \ {p} /\ speaking' = speaking \ {p}
  /\ Send(<<Event("leave", p)>>)
  /\ UNCHANGED <<came, request, Environment>>

Speaks(p) ==
  /\ p \in inside \ (muted \union speaking) /\ speaking' = speaking \union {p}
  /\ UNCHANGED <<came, inside, muted>>
  /\ Send(<<Event("on", p)>>)
  /\ UNCHANGED <<request, Environment>>

FallsSilent(p) ==
  /\ p \in speaking /\ speaking' = speaking \ {p}
  /\ UNCHANGED <<came, inside, muted>>
  /\ Send(<<Event("off", p)>>)
  /\ UNCHANGED <<request, Environment>>

\* A microphone that is switched off ends the speech, which is reported too.
Switch(p, off) ==
  /\ p \in inside
  /\ IF off
     THEN /\ muted' = muted \union {p} /\ speaking' = speaking \ {p}
          /\ IF p \in speaking
             THEN \/ Send(<<Event("mute", p), Event("off", p)>>)
                  \/ Send(<<Event("off", p), Event("mute", p)>>)
             ELSE Send(<<Event("mute", p)>>)
     ELSE /\ muted' = muted \ {p} /\ Send(<<Event("unmute", p)>>) /\ UNCHANGED speaking
  /\ UNCHANGED <<came, inside, Environment>>

\* By the participant, or another program.
SwitchesItself(p) == Switch(p, p \notin muted) /\ UNCHANGED request

----------------------------------------------------------------------------
(* The connection: Client.setSession and clearSession, and in the same     *)
(* goroutine Service.OnAMIStateChange.                                     *)

LinkBreaks ==
  /\ Reading /\ faults < MaxFaults
  /\ link' = FALSE /\ faults' = faults + 1
  /\ UNCHANGED <<asterisk, connected, changing, events, handler, roster, limits, list,
                 request, history>>

\* Closing the session fails the actions that wait for a reply.
ClearSession ==
  /\ connected /\ ~link /\ changing = "none"
  /\ connected' = FALSE /\ changing' = "boundary"
  /\ list' = [list EXCEPT !.pc = IF @ = "asked" THEN "broken" ELSE @]
  /\ request' = IF request.pc = "sent" THEN NoRequest ELSE request
  /\ UNCHANGED <<asterisk, link, events, handler, roster, limits, faults, history>>

SetSession ==
  /\ ~connected /\ changing = "none"
  /\ link' = TRUE /\ connected' = TRUE /\ changing' = "boundary"
  /\ UNCHANGED <<asterisk, events, handler, roster, limits, list, request, faults, history>>

StoreBoundary ==
  /\ changing = "boundary" /\ changing' = "reset"
  /\ talkingIgnoreThrough' = received
  /\ UNCHANGED <<asterisk, link, connected, events, handler, roster, ignoreThrough, list,
                 request, faults, history>>

\* Roster.ResetTalking
ResetTalking ==
  /\ changing = "reset" /\ changing' = "none"
  /\ talks' = {}
  /\ unheard' = [p \in People |-> 0]
  /\ raced' = IF place = "checked" THEN {hand.who} ELSE {}
  /\ UNCHANGED <<asterisk, link, connected, events, handler, present, mutes, limits, list,
                 request, faults, missed>>

----------------------------------------------------------------------------
(* Service.handleEvent.                                                    *)

Take ==
  /\ place = "select" /\ queue # <<>> /\ ~(list.pc # "idle" /\ list.by = "run")
  /\ hand' = Head(queue) /\ queue' = Tail(queue) /\ place' = "taken"
  /\ UNCHANGED <<asterisk, client, received, roster, limits, list, request, faults, history>>

\* Plausible slip: only the connection is asked for.
HeardAtAll(e) == connected

\* Speech is not bound to the last list, only to the connection it was heard on.
Heard(e) == connected /\ e.seq > talkingIgnoreThrough

CheckTalking ==
  /\ place = "taken" /\ list.pc = "idle" /\ hand.kind \in {"on", "off"}
  /\ IF Heard(hand) THEN place' = "checked" /\ UNCHANGED hand
     ELSE place' = "select" /\ hand' = Nothing
  /\ UNCHANGED <<asterisk, client, events, roster, limits, list, request, faults, history>>

\* Roster.SetTalking
SetTalking ==
  /\ place = "checked"
  /\ talks' = IF hand.who \in present
              THEN IF hand.kind = "on" /\ hand.who \notin mutes
                   THEN talks \union {hand.who} ELSE talks \ {hand.who}
              ELSE talks
  /\ IF Heard(hand)
     THEN /\ raced' = raced \ {hand.who}
          /\ unheard' = [unheard EXCEPT ![hand.who] = IF @ < hand.seq THEN 0 ELSE @]
     ELSE UNCHANGED <<raced, unheard>>
  /\ place' = "select" /\ hand' = Nothing
  /\ UNCHANGED <<asterisk, client, events, present, mutes, limits, list, request, faults,
                 missed>>

\* Roster.Add, Remove and SetMuted.
Apply(e) ==
  CASE e.kind = "join" ->
         /\ present' = present \union {e.who}
         /\ mutes' = IF e.muted THEN mutes \union {e.who} ELSE mutes \ {e.who}
         /\ talks' = IF e.muted THEN talks \ {e.who} ELSE talks
    [] e.kind = "leave" ->
         present' = present \ {e.who} /\ mutes' = mutes \ {e.who} /\ talks' = talks \ {e.who}
    [] e.kind = "mute" ->
         /\ UNCHANGED present
         /\ mutes' = mutes \union ({e.who} \intersect present)
         /\ talks' = talks \ {e.who}
    [] OTHER -> mutes' = mutes \ {e.who} /\ UNCHANGED <<present, talks>>

\* Everything else is bound to the last list.
HandleEvent ==
  /\ place = "taken" /\ list.pc = "idle" /\ hand.kind \notin {"on", "off"}
  /\ IF hand.seq <= ignoreThrough THEN UNCHANGED roster ELSE Apply(hand)
  /\ place' = "select" /\ hand' = Nothing
  /\ UNCHANGED <<asterisk, client, events, limits, list, request, faults, history>>

----------------------------------------------------------------------------
(* Service.List, and SetMuted, which ends with one.                        *)

ListStart(by) ==
  /\ list.pc = "idle" /\ place # "checked" /\ connected
  /\ list' = [NoList EXCEPT !.pc = "asked", !.by = by, !.boundary = received]
  /\ missed' = IF missed = "since" THEN "before" ELSE missed
  /\ UNCHANGED <<asterisk, client, events, handler, roster, limits, faults, unheard, raced>>

\* On a tick, or when Run learns of a new connection.
Resync == place = "select" /\ ListStart("run") /\ UNCHANGED request

AsteriskLists ==
  /\ list.pc = "asked" /\ Reading
  /\ list' = [list EXCEPT !.pc = "answered", !.found = inside, !.mutes = muted]
  /\ UNCHANGED <<asterisk, client, events, handler, roster, limits, request, faults, history>>

\* The reply is late.
ListTimesOut ==
  /\ list.pc = "asked" /\ faults < MaxFaults /\ faults' = faults + 1
  /\ list' = [list EXCEPT !.pc = "broken"]
  /\ UNCHANGED <<asterisk, client, events, handler, roster, limits, request, history>>

\* SetMuted returns when its refresh has, whatever that found.
Returned == IF list.by = "user" THEN NoRequest ELSE request

\* Plausible slip: the boundary is what has been read when the list is complete.
CompleteBoundary == received
Boundary == list.boundary

\* Plausible slip: who is known keeps the microphone as it was, like the join time.
KeptMutes == (mutes \intersect list.found) \union (list.mutes \ present)
ListedMutes == list.mutes

\* Roster.Replace: who was speaking still is, unless muted.  Nobody in the room is
\* an error on the wire, and clears the roster.
ListFinish ==
  /\ list.pc = "answered"
  /\ ignoreThrough' = Boundary
  /\ present' = list.found /\ mutes' = ListedMutes
  /\ talks' = (talks \intersect list.found) \ ListedMutes
  /\ missed' = IF missed = "before" THEN "none" ELSE missed
  /\ list' = NoList /\ request' = Returned
  /\ UNCHANGED <<asterisk, client, events, handler, talkingIgnoreThrough, faults, unheard,
                 raced>>

ListFails ==
  /\ list.pc = "broken"
  /\ missed' = IF missed = "before" THEN "since" ELSE missed
  /\ list' = NoList /\ request' = Returned
  /\ UNCHANGED <<asterisk, client, events, handler, roster, limits, faults, unheard, raced>>

SetMuted(p, to) ==
  /\ request.pc = "idle" /\ p \in present /\ connected
  /\ request' = [pc |-> "sent", who |-> p, to |-> to]
  /\ UNCHANGED <<asterisk, client, events, handler, roster, limits, list, faults, history>>

\* Asterisk does it, or has nobody to do it to.
AsteriskObeys ==
  /\ request.pc = "sent" /\ Reading
  /\ IF request.who \in inside
     THEN /\ Switch(request.who, request.to)
          /\ request' = [request EXCEPT !.pc = "obeyed"]
     ELSE request' = NoRequest /\ UNCHANGED <<asterisk, events, missed, unheard, Environment>>

RequestTimesOut ==
  /\ request.pc = "sent" /\ faults < MaxFaults /\ faults' = faults + 1
  /\ request' = NoRequest
  /\ UNCHANGED <<asterisk, client, events, handler, roster, limits, list, history>>

Refresh ==
  /\ request.pc = "obeyed"
  /\ \/ ListStart("user") /\ request' = [request EXCEPT !.pc = "refreshing"]
     \/ /\ list.pc = "idle" /\ place # "checked" /\ ~connected
        /\ request' = NoRequest
        /\ UNCHANGED <<asterisk, client, events, handler, roster, limits, list, faults,
                       history>>

----------------------------------------------------------------------------
Init ==
  /\ came = Early /\ inside = Early /\ muted \in SUBSET Early /\ speaking = {}
  /\ link = TRUE /\ connected = TRUE /\ changing = "none"
  /\ received = 0 /\ queue = <<>> /\ hand = Nothing /\ place = "select"
  /\ present = {} /\ mutes = {} /\ talks = {}
  /\ ignoreThrough = 0 /\ talkingIgnoreThrough = 0
  /\ list = NoList /\ request = NoRequest
  /\ faults = 0 /\ missed = "since"
  /\ unheard = [p \in People |-> 0] /\ raced = {}

Conference ==
  \E p \in People : Joins(p) \/ Leaves(p) \/ Speaks(p) \/ FallsSilent(p) \/ SwitchesItself(p)
Connection == ClearSession \/ SetSession \/ StoreBoundary \/ ResetTalking
Handling == Take \/ CheckTalking \/ SetTalking \/ HandleEvent
Listing == AsteriskLists \/ ListFinish \/ ListFails
Muting == AsteriskObeys \/ Refresh

Next ==
  \/ Conference \/ LinkBreaks \/ Connection \/ Handling \/ Resync \/ ListTimesOut \/ Listing
  \/ \E p \in People, to \in BOOLEAN : SetMuted(p, to)
  \/ Muting \/ RequestTimesOut

Spec == Init /\ [][Next]_vars

\* Goroutines run, the client reconnects, replies come or time out, and the
\* ticker keeps ticking while Run is busy with something else.
FairSpec ==
  /\ Spec
  /\ WF_vars(Connection) /\ WF_vars(Handling) /\ WF_vars(Listing) /\ WF_vars(Muting)
  /\ SF_vars(Resync)

----------------------------------------------------------------------------
(* Properties.                                                             *)

Pending == IF place = "select" THEN queue ELSE <<hand>> \o queue

\* The last thing of these kinds that will be said of a participant.
News(p, kinds) == {i \in DOMAIN Pending : /\ Pending[i].who = p /\ Pending[i].kind \in kinds
                                          /\ Pending[i].seq > ignoreThrough}
Last(p, kinds) == Pending[CHOOSE i \in News(p, kinds) : \A j \in News(p, kinds) : i >= j]

WillBePresent(p) ==
  LET kinds == {"join", "leave"}
  IN  IF News(p, kinds) = {} THEN p \in present ELSE Last(p, kinds).kind = "join"

WillBeMuted(p) ==
  LET kinds == {"join", "mute", "unmute"}
  IN  IF News(p, kinds) = {} THEN p \in mutes ELSE Last(p, kinds).muted

\* Once the queue is handled the roster shows who is there and whose microphone
\* is off, unless an event was lost since the last list began: no list is newer
\* than an event it lets Run apply, or older than one it makes it ignore (List's
\* boundary, EventSequence).
MuteMatchesConference ==
  missed = "none" =>
    \A p \in People : /\ WillBePresent(p) <=> p \in inside
                     /\ p \in inside => (WillBeMuted(p) <=> p \in muted)

\* Once a change of the connection has been handled, who is shown speaking speaks,
\* or the end of the speech is still to be handled; nobody is without a connection
\* (OnAMIStateChange, ResetTalking, handleEvent).  Two displays may be wrong, and
\* each only until an event read since tells of the participant's speech: that of
\* an event whose check the change of the connection overtook, which
\* IndicatorWaitsForEvent shows, and that of a speech whose end the full queue
\* dropped, which no list repairs.
SpeechEnds ==
  link = connected /\ changing = "none" =>
    \A p \in talks \ raced :
      /\ connected
      /\ \/ p \in speaking
         \/ \E i \in DOMAIN Pending : /\ Pending[i].who = p
                                      /\ Pending[i].kind \in {"off", "leave"}
                                      /\ Pending[i].seq > talkingIgnoreThrough
         \/ unheard[p] > 0

\* What the README says: "After AMI reconnects, the speaking indicator waits for a
\* new activity event."  On a connection nobody comes to be shown speaking by an
\* event of an earlier one.  The code checks the event and shows it in two steps.
IndicatorWaitsForEvent ==
  [][Reading => \A p \in talks' \ talks : hand.seq > talkingIgnoreThrough]_vars

\* Whatever is lost, the roster comes to show who is there and whose microphone
\* is off, for as long as nothing changes.
MuteConverges == <>[](present = inside /\ mutes = muted)
=============================================================================
