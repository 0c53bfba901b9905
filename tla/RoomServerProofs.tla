--------------------------- MODULE RoomServerProofs ---------------------------
(***************************************************************************)
(* RoomServer for any number of browsers and users and any buffer.         *)
(*                                                                         *)
(* AccessIsHeld: a handler between its checks and their use is one of      *)
(* Readers; what changes grants or the room waits for Readers to be empty, *)
(* and what changes accounts and sessions without the lock marks the       *)
(* handlers it overtakes.  The invariant follows a handler through the two *)
(* checks of validSession.                                                 *)
(*                                                                         *)
(* The fan-out: what a browser shows, the payload it is about to write and *)
(* its queue, in this order, never decrease, and for a client they end in  *)
(* the hub's last, which never falls behind what has been announced.       *)
(***************************************************************************)
EXTENDS RoomServer, FiniteSetTheorems, SequenceTheorems, TLAPS

----------------------------------------------------------------------------
(* Access.                                                                 *)

\* The variables the argument is about.
AccessTypes ==
  /\ at \in [Browsers -> Places]
  /\ command \in [Browsers -> {"none", "authenticated", "admitted"}]

\* After the first check the session is live, after the second the user has
\* access too; a command is admitted only with access.
Held ==
  \A b \in Browsers :
    /\ at[b] \in {"authenticated", "checked"} /\ <<b, "socket">> \notin unsettled
         => Authenticated(b)
    /\ at[b] = "checked" /\ <<b, "socket">> \notin unsettled
         => Allowed(UserOf[b])
    /\ command[b] = "admitted" /\ <<b, "command">> \notin unsettled
         => Allowed(UserOf[b])

AccessInvariant == AccessTypes /\ Held

\* Nothing is checked at the start.
LEMMA AccessInit == Init => AccessInvariant
  BY DEF Init, AccessInvariant, AccessTypes, Held, Places

\* The steps of one handler or command leave everyone's access as it is, and
\* move one browser to a place where its own check has just succeeded.
LEMMA HandlerStep ==
  ASSUME AccessInvariant, NEW b \in Browsers,
         Request(b) \/ Handler(b) \/ Leave(b) \/ Command(b)
  PROVE  AccessInvariant'
<1> USE DEF AccessInvariant, AccessTypes, Held, Authenticated, Allowed, Places,
            InUse, access, source, hub, sockets, idleVars, Goto
<1>1. CASE Request(b)         BY <1>1 DEF Request
<1>2. CASE Enter(b)           BY <1>2 DEF Enter
<1>3. CASE Subscribe(b)       BY <1>3 DEF Subscribe, Join, Register
<1>4. CASE Receive(b)         BY <1>4 DEF Receive
<1>5. CASE Authenticate(b)    BY <1>5 DEF Authenticate
<1>6. CASE CheckAccess(b)     BY <1>6 DEF CheckAccess
<1>7. CASE Write(b)           BY <1>7 DEF Write
<1>8. CASE WriteFails(b)      BY <1>8 DEF WriteFails
<1>9. CASE Tick(b)            BY <1>9 DEF Tick
<1>10. CASE ChannelEnds(b)    BY <1>10 DEF ChannelEnds
<1>11. CASE Unsubscribe(b)    BY <1>11 DEF Unsubscribe
<1>12. CASE Leave(b)          BY <1>12 DEF Leave
<1>13. CASE Send(b)           BY <1>13 DEF Send
<1>14. CASE Admit(b)          BY <1>14 DEF Admit
<1>15. CASE Finish(b)         BY <1>15 DEF Finish
<1> QED
  BY <1>1, <1>2, <1>3, <1>4, <1>5, <1>6, <1>7, <1>8, <1>9, <1>10, <1>11, <1>12,
     <1>13, <1>14, <1>15 DEF Handler, Command

\* What changes accounts or sessions marks whoever was checked before; what
\* changes grants or the room finds nobody between a check and its use.
LEMMA AccessStep ==
  ASSUME ServerAssumption, AccessInvariant,
         \/ DeleteRoom
         \/ \E b \in Browsers : Login(b) \/ Logout(b)
         \/ \E u \in Users : UpdateUser(u)
         \/ \E us \in SUBSET Users : SetGrants(us)
  PROVE  AccessInvariant'
<1> USE DEF AccessInvariant, AccessTypes, Held, elsewhere, sockets
<1>1. ASSUME NEW b \in Browsers, Login(b) PROVE AccessInvariant'
  BY <1>1 DEF Login, Accounts!SignIn, Authenticated, Allowed
<1>2. ASSUME NEW b \in Browsers, Logout(b) PROVE AccessInvariant'
  BY <1>2 DEF Logout, Accounts!SignOut, Authenticated, Allowed, Unsettle, InUse
<1>3. ASSUME NEW u \in Users, UpdateUser(u) PROVE AccessInvariant'
  <2>1. /\ logins' = {b \in logins : UserOf[b] # u}
        /\ Unsettle({b \in Browsers : UserOf[b] = u})
        /\ at' = at /\ command' = command /\ room' = room /\ granted' = granted
        /\ \A v \in Users \ {u} : /\ v \in enabled' <=> v \in enabled
                                  /\ v \in admins' <=> v \in admins
    BY <1>3 DEF UpdateUser, Accounts!Change
  <2>2. ASSUME NEW b \in Browsers, UserOf[b] = u
        PROVE  /\ at[b] \in InUse => <<b, "socket">> \in unsettled'
               /\ command[b] = "admitted" => <<b, "command">> \in unsettled'
    BY <2>1, <2>2 DEF Unsettle
  <2>3. ASSUME NEW b \in Browsers, UserOf[b] # u
        PROVE  /\ Authenticated(b)' <=> Authenticated(b)
               /\ Allowed(UserOf[b])' <=> Allowed(UserOf[b])
    <3>1. UserOf[b] \in Users \ {u}
      BY <2>3 DEF ServerAssumption
    <3> QED
      BY <2>1, <2>3, <3>1 DEF Authenticated, Allowed
  <2>4. unsettled \subseteq unsettled'
    BY <2>1 DEF Unsettle
  <2> QED
    BY <2>1, <2>2, <2>3, <2>4 DEF InUse
<1>4. ASSUME NEW us \in SUBSET Users, SetGrants(us) PROVE AccessInvariant'
  BY <1>4 DEF SetGrants, Readers, InUse
<1>5. CASE DeleteRoom
  BY <1>5 DEF DeleteRoom, Readers, InUse
<1> QED
  BY <1>1, <1>2, <1>3, <1>4, <1>5

\* Publishing, closing and stopping touch neither access nor the handlers.
LEMMA OtherStep ==
  ASSUME AccessInvariant,
         Change \/ Publication \/ Closing \/ Stop \/ UNCHANGED vars
  PROVE  AccessInvariant'
<1> USE DEF AccessInvariant, AccessTypes, Held, Authenticated, Allowed, access,
            source, hub, sockets
<1>1. CASE Change              BY <1>1 DEF Change
<1>2. CASE Capture             BY <1>2 DEF Capture
<1>3. ASSUME NEW s \in publishing, Broadcast(s) PROVE AccessInvariant'
  BY <1>3 DEF Broadcast
<1>4. CASE EndSubscription     BY <1>4 DEF EndSubscription
<1>5. CASE CloseHub            BY <1>5 DEF CloseHub
<1>6. CASE Stop                BY <1>6 DEF Stop
<1>7. CASE UNCHANGED vars      BY <1>7 DEF vars
<1> QED
  BY <1>1, <1>2, <1>3, <1>4, <1>5, <1>6, <1>7 DEF Publication, Closing

\* However many browsers and users there are, a snapshot is written and a
\* command runs only with the access that was checked, unless the account or
\* its session changed meanwhile (Manager.Admission in handleWebSocket,
\* handleRoomRequest and handleAdminRooms).
THEOREM AccessIsAlwaysHeld == Spec => []AccessIsHeld
<1>1. AccessInvariant /\ [Next]_vars => AccessInvariant'
  BY ServerAssumption, HandlerStep, AccessStep, OtherStep DEF Next
<1>2. AccessInvariant => AccessIsHeld
  BY DEF AccessInvariant, AccessTypes, Held, AccessIsHeld, Valid
<1> QED
  BY AccessInit, <1>1, <1>2, PTL DEF Spec

----------------------------------------------------------------------------
(* The shape of the state, and who is told.                                *)

\* Handlers between Hub.Subscribe and Hub.remove.
Subscribed == {"loop", "closing"} \union InUse

\* What the database and the commands hold.
AccessShape ==
  /\ room \in {"open", "deleting", "deleted"}
  /\ enabled \subseteq Users /\ admins \subseteq Users /\ granted \subseteq Users
  /\ logins \subseteq Browsers
  /\ command \in [Browsers -> {"none", "authenticated", "admitted"}]
  /\ changes \in 0..MaxChanges
  /\ unsettled \subseteq Browsers \X {"socket", "command"}

\* At most one snapshot is being published, and a room that has a server was given
\* one to replay.
SourceShape ==
  /\ version \in 1..MaxVersion /\ unpublished \in 0..MaxVersion /\ unpublished < version
  /\ publishing \subseteq 1..MaxVersion /\ \A s, t \in publishing : s = t
  /\ last \in 0..MaxVersion /\ (server # "none" => last # 0)

\* A handler gets past handleRoomRequest only once the room has its Server.
HandlerShape ==
  /\ server \in {"none", "open", "unsubscribed", "closed"} /\ stopping \in BOOLEAN
  /\ at \in [Browsers -> Places]
  /\ payload \in [Browsers -> 0..MaxVersion] /\ shown \in [Browsers -> 0..MaxVersion]
  /\ \A b \in Browsers : at[b] \notin {"idle", "requested"} => server # "none"

\* A handler that subscribed is a client or its channel is closed, never both.
HubShape ==
  /\ clients \subseteq Browsers /\ ended \subseteq Browsers
  /\ \A b \in clients : at[b] \in Subscribed /\ server \notin {"none", "closed"}
  /\ \A b \in ended : at[b] \in Subscribed /\ b \notin clients
  /\ \A b \in Browsers : at[b] \in {"loop"} \union InUse /\ b \notin clients => b \in ended

\* No channel holds more than its buffer.
QueueShape ==
  /\ queue \in [Browsers -> Seq(1..MaxVersion)]
  /\ \A b \in Browsers : Len(queue[b]) <= BufferSize

ServerInvariant == AccessShape /\ SourceShape /\ HandlerShape /\ HubShape /\ QueueShape

\* The shapes give the type invariant.
LEMMA ServerTypeOK == ASSUME ServerInvariant PROVE TypeOK
<1>1. Cardinality(publishing) <= 1
  <2>1. CASE publishing = {}
    BY <2>1, FS_EmptySet
  <2>2. CASE publishing # {}
    <3>1. PICK s \in publishing : TRUE
      BY <2>2
    <3>2. publishing = {s}
      BY <3>1 DEF ServerInvariant, SourceShape
    <3>3. Cardinality({s}) = 1
      BY FS_Singleton
    <3> QED BY <3>2, <3>3
  <2> QED BY <2>1, <2>2
<1>2. clients \subseteq {b \in Browsers : at[b] \in {"loop", "closing"} \union InUse}
  BY DEF ServerInvariant, HubShape, Subscribed
<1>3. ended \subseteq Browsers \ clients /\ (server \in {"none", "closed"} => clients = {})
  BY DEF ServerInvariant, HubShape
<1> QED BY <1>1, <1>2, <1>3 DEF ServerInvariant, TypeOK, AccessShape,
                  SourceShape, HandlerShape, QueueShape

\* Hub.Subscribe adds a client whose queue holds one payload; after Hub.Close it
\* closes the channel instead.
LEMMA SubscribeKeepsServer ==
  ASSUME ServerAssumption, ServerInvariant, NEW b \in Browsers, Subscribe(b)
  PROVE  ServerInvariant'
<1>1. /\ at[b] = "accepted" /\ at' = [at EXCEPT ![b] = "loop"]
      /\ shown' = [shown EXCEPT ![b] = 0]
      /\ UNCHANGED <<access, source, server, stopping, last, payload, command, unsettled>>
  BY DEF Subscribe
<1>2. AccessShape' /\ SourceShape'
  BY <1>1 DEF ServerInvariant, AccessShape, SourceShape, access, source
<1>3. HandlerShape'
  BY <1>1 DEF ServerInvariant, HandlerShape, Places, ServerAssumption
<1>4. server # "none" /\ last \in 1..MaxVersion
  BY <1>1 DEF ServerInvariant, SourceShape, HandlerShape, ServerAssumption
<1>5. CASE server # "closed"
  <2>1. /\ clients' = clients \union {b} /\ queue' = [queue EXCEPT ![b] = <<last>>]
        /\ ended' = ended
    BY <1>5 DEF Subscribe, Join, Register
  <2>2. HubShape'
    BY <1>1, <1>4, <1>5, <2>1 DEF ServerInvariant, HandlerShape, HubShape, Subscribed, InUse
  <2>3. <<last>> \in Seq(1..MaxVersion) /\ Len(<<last>>) = 1
    BY <1>4
  <2>4. QueueShape'
    BY <2>1, <2>3 DEF ServerInvariant, QueueShape, ServerAssumption
  <2> QED BY <1>2, <1>3, <2>2, <2>4 DEF ServerInvariant
<1>6. CASE server = "closed"
  <2>1. /\ ended' = ended \union {b} /\ queue' = [queue EXCEPT ![b] = <<>>]
        /\ clients' = clients
    BY <1>6 DEF Subscribe, Join
  <2>2. HubShape'
    BY <1>1, <1>6, <2>1 DEF ServerInvariant, HandlerShape, HubShape, Subscribed, InUse
  <2>4. QueueShape'
    BY <2>1 DEF ServerInvariant, QueueShape, ServerAssumption
  <2> QED BY <1>2, <1>3, <2>2, <2>4 DEF ServerInvariant
<1> QED BY <1>5, <1>6

\* Hub.Broadcast appends only to a queue that has room, and closes the channel of
\* every client it drops.
LEMMA BroadcastKeepsServer ==
  ASSUME ServerAssumption, ServerInvariant, NEW s \in publishing, Broadcast(s)
  PROVE  ServerInvariant'
<1>1. /\ publishing' = publishing \ {s}
      /\ UNCHANGED <<access, version, unpublished, server, stopping, at, payload,
                     shown, command, unsettled>>
  BY DEF Broadcast
<1>2. AccessShape' /\ HandlerShape'
  BY <1>1 DEF ServerInvariant, AccessShape, HandlerShape, access
<1>3. CASE server = "closed"
  <2>1. UNCHANGED <<last, clients, ended, queue>>
    BY <1>3 DEF Broadcast
  <2> QED
    BY <1>1, <1>2, <2>1 DEF ServerInvariant, SourceShape, HubShape, QueueShape
<1>4. CASE server # "closed"
  <2>1. /\ last' = s /\ clients' = {b \in clients : ~Full(b)}
        /\ ended' = ended \union {b \in clients : Full(b)}
        /\ queue' = [b \in Browsers |-> IF b \in clients /\ ~Full(b)
                                        THEN Append(queue[b], s) ELSE queue[b]]
    BY <1>4 DEF Broadcast, Evict
  <2>2. s \in 1..MaxVersion
    BY DEF ServerInvariant, SourceShape
  <2>3. SourceShape'
    BY <1>1, <2>1, <2>2 DEF ServerInvariant, SourceShape
  <2>4. HubShape'
    BY <1>1, <2>1 DEF ServerInvariant, HubShape
  <2>5. ASSUME NEW b \in Browsers
        PROVE  /\ queue'[b] \in Seq(1..MaxVersion) /\ Len(queue'[b]) <= BufferSize
    <3>1. queue[b] \in Seq(1..MaxVersion) /\ Len(queue[b]) <= BufferSize
      BY DEF ServerInvariant, QueueShape
    <3>2. CASE b \in clients /\ ~Full(b)
      <4>1. queue'[b] = Append(queue[b], s)
        BY <2>1, <3>2
      <4> QED BY <2>2, <3>1, <3>2, <4>1 DEF Full, ServerAssumption
    <3>3. CASE ~(b \in clients /\ ~Full(b))
      BY <2>1, <3>1, <3>3
    <3> QED BY <3>2, <3>3
  <2>6. QueueShape'
    BY <2>1, <2>5 DEF QueueShape
  <2> QED BY <1>2, <2>3, <2>4, <2>6 DEF ServerInvariant
<1> QED BY <1>3, <1>4

\* The steps of one handler or command keep the shape of the server.
LEMMA HandlerKeepsServer ==
  ASSUME ServerAssumption, ServerInvariant, NEW b \in Browsers,
         Request(b) \/ Handler(b) \/ Leave(b) \/ Command(b)
  PROVE  ServerInvariant'
<1> USE DEF ServerInvariant, AccessShape, SourceShape, HandlerShape, HubShape,
            QueueShape, Places, InUse, Subscribed, ServerAssumption, access, source, hub, sockets, idleVars, Goto
<1>1. CASE Request(b)         BY <1>1 DEF Request
<1>2. CASE Enter(b)
  <2>1. CASE ~Allowed(UserOf[b])      BY <1>2, <2>1, ZenonT(60) DEF Enter
  <2>2. CASE Allowed(UserOf[b]) /\ server = "none"
    <3>1. last' = version /\ server' = "open" /\ at' = [at EXCEPT ![b] = "accepted"]
          /\ UNCHANGED <<access, source, stopping, clients, queue, ended, payload, shown,
                         command, unsettled>>
      BY <1>2, <2>2 DEF Enter
    <3>2. clients = {} /\ at[b] = "requested"
      BY <1>2, <2>2 DEF Enter
    <3> QED BY <3>1, <3>2
  <2>3. CASE Allowed(UserOf[b]) /\ server # "none"
    <3>1. at' = [at EXCEPT ![b] = "accepted"]
          /\ UNCHANGED <<access, source, server, last, stopping, clients, queue, ended,
                         payload, shown, command, unsettled>>
      BY <1>2, <2>3 DEF Enter
    <3>2. at[b] = "requested" BY <1>2 DEF Enter
    <3> QED BY <3>1, <2>3, <3>2
  <2> QED BY <2>1, <2>2, <2>3
<1>3. CASE Subscribe(b)       BY <1>3, SubscribeKeepsServer
<1>4. CASE Receive(b)
  <2>1. /\ Head(queue[b]) \in 1..MaxVersion /\ Tail(queue[b]) \in Seq(1..MaxVersion)
        /\ Len(Tail(queue[b])) = Len(queue[b]) - 1
    BY <1>4, HeadTailProperties DEF Receive
  <2>2. QueueShape'
    BY <1>4, <2>1 DEF Receive
  <2>3. AccessShape' /\ SourceShape' /\ HandlerShape'
    BY <1>4, <2>1 DEF Receive
  <2>4. HubShape'
    BY <1>4 DEF Receive
  <2> QED BY <2>2, <2>3, <2>4
<1>5. CASE Authenticate(b)    BY <1>5 DEF Authenticate
<1>6. CASE CheckAccess(b)     BY <1>6 DEF CheckAccess
<1>7. CASE Write(b)           BY <1>7 DEF Write
<1>8. CASE WriteFails(b)      BY <1>8 DEF WriteFails
<1>9. CASE Tick(b)            BY <1>9 DEF Tick
<1>10. CASE ChannelEnds(b)    BY <1>10 DEF ChannelEnds
<1>11. CASE Unsubscribe(b)
  <2>1. /\ queue' \in [Browsers -> Seq(1..MaxVersion)]
        /\ \A c \in Browsers : Len(queue'[c]) <= BufferSize
    BY <1>11 DEF Unsubscribe
  <2> QED BY <1>11, <2>1, SMTT(30) DEF Unsubscribe
<1>12. CASE Leave(b)          BY <1>12 DEF Leave
<1>13. CASE Send(b)           BY <1>13 DEF Send
<1>14. CASE Admit(b)          BY <1>14 DEF Admit
<1>15. CASE Finish(b)         BY <1>15 DEF Finish
<1> QED
  BY <1>1, <1>2, <1>3, <1>4, <1>5, <1>6, <1>7, <1>8, <1>9, <1>10, <1>11, <1>12,
     <1>13, <1>14, <1>15 DEF Handler, Command

\* At the start there is no server, no handler and no client.
LEMMA ServerInit == ASSUME ServerAssumption, Init PROVE ServerInvariant
<1> USE DEF Init
<1>1. AccessShape
  BY DEF AccessShape
<1>2. SourceShape
  BY DEF SourceShape, ServerAssumption
<1>3. HandlerShape
  <2>1. 0 \in 0..MaxVersion /\ "idle" \in Places
    BY DEF ServerAssumption, Places
  <2> QED BY <2>1 DEF HandlerShape
<1>4. HubShape
  BY DEF HubShape, InUse
<1>5. QueueShape
  BY DEF QueueShape, ServerAssumption
<1> QED BY <1>1, <1>2, <1>3, <1>4, <1>5 DEF ServerInvariant

\* So do publishing, closing, the database and the shutdown.
LEMMA OtherKeepsServer ==
  ASSUME ServerAssumption, ServerInvariant,
         \/ DeleteRoom \/ Change \/ Publication \/ Closing \/ Stop \/ UNCHANGED vars
         \/ \E b \in Browsers : Login(b) \/ Logout(b)
         \/ \E u \in Users : UpdateUser(u)
         \/ \E us \in SUBSET Users : SetGrants(us)
  PROVE  ServerInvariant'
<1> USE DEF ServerInvariant, AccessShape, SourceShape, HandlerShape, HubShape,
            QueueShape, Places, InUse, Subscribed, ServerAssumption, access, source, hub, sockets, elsewhere
<1>1. ASSUME NEW b \in Browsers, Login(b) PROVE ServerInvariant'
  BY <1>1 DEF Login, Accounts!SignIn
<1>2. ASSUME NEW b \in Browsers, Logout(b) PROVE ServerInvariant'
  BY <1>2 DEF Logout, Accounts!SignOut, Unsettle
<1>3. ASSUME NEW u \in Users, UpdateUser(u) PROVE ServerInvariant'
  BY <1>3 DEF UpdateUser, Accounts!Change, Unsettle
<1>4. ASSUME NEW us \in SUBSET Users, SetGrants(us) PROVE ServerInvariant'
  BY <1>4 DEF SetGrants
<1>5. CASE DeleteRoom   BY <1>5 DEF DeleteRoom
<1>6. CASE Change   BY <1>6 DEF Change
<1>7. CASE Capture
  <2>1. Cardinality({}) = 0 /\ Cardinality({version}) = 1 BY FS_EmptySet, FS_Singleton
  <2> QED BY <1>7, <2>1 DEF Capture
<1>8. ASSUME NEW s \in publishing, Broadcast(s) PROVE ServerInvariant'
  BY <1>8, BroadcastKeepsServer
<1>9. CASE EndSubscription     BY <1>9 DEF EndSubscription
<1>10. CASE CloseHub            BY <1>10 DEF CloseHub
<1>11. CASE Stop                BY <1>11 DEF Stop
<1>12. CASE UNCHANGED vars      BY <1>12 DEF vars
<1> QED
  BY <1>1, <1>2, <1>3, <1>4, <1>5, <1>6, <1>7, <1>8, <1>9, <1>10,
     <1>11, <1>12 DEF Publication, Closing

----------------------------------------------------------------------------
(* What the service announces and what a browser is given.                 *)

\* What the service has announced.
Announced ==
  /\ last <= version /\ \A s \in publishing : last <= s /\ s <= version
  /\ server = "open" /\ unpublished = 0 =>
       IF publishing = {} THEN last = version ELSE version \in publishing

\* What one browser has been given: shown, payload and queue in this order.
Given(b) ==
  /\ at[b] \notin InUse \union {"closing"} => payload[b] = 0
  /\ at[b] \in InUse => payload[b] # 0 /\ shown[b] <= payload[b]
  /\ \A i \in 1..Len(queue[b]) :
       /\ shown[b] <= queue[b][i] /\ payload[b] <= queue[b][i]
       /\ \A j \in 1..i : queue[b][j] <= queue[b][i]
  /\ b \in clients =>
       /\ shown[b] <= last /\ payload[b] <= last
       /\ \A i \in 1..Len(queue[b]) : queue[b][i] <= last
       /\ at[b] # "closing" => Newest(b) = last

DeliveryInvariant == Announced /\ \A b \in Browsers : Given(b)

\* What a browser has been given stays when nothing of it changes.
LEMMA SameGiven ==
  ASSUME NEW b \in Browsers, Given(b),
         at'[b] = at[b], payload'[b] = payload[b], shown'[b] = shown[b], queue'[b] = queue[b],
         b \in clients' => b \in clients /\ last' = last
  PROVE  Given(b)'
  BY DEF Given, Newest

\* A payload is received.
LEMMA ReceiveDelivers ==
  ASSUME ServerAssumption, ServerInvariant, DeliveryInvariant, NEW b \in Browsers, Receive(b)
  PROVE  Given(b)'
<1> DEFINE q == queue[b]  p == Head(q)
<1>1. /\ at[b] = "loop" /\ q # <<>> /\ at'[b] = "locked" /\ payload'[b] = p
      /\ queue'[b] = Tail(q) /\ shown' = shown /\ clients' = clients /\ last' = last
  BY DEF Receive, Goto, ServerInvariant, HandlerShape, QueueShape, hub
<1>2. q \in Seq(1..MaxVersion) /\ Len(q) \in Nat /\ shown[b] \in Nat /\ last \in Nat
  BY DEF ServerInvariant, HandlerShape, QueueShape, SourceShape
<1>3. /\ p = q[1] /\ p \in 1..MaxVersion /\ Len(q) >= 1
      /\ Len(Tail(q)) = Len(q) - 1
      /\ \A i \in 1..Len(Tail(q)) : Tail(q)[i] = q[i + 1]
  BY <1>1, <1>2, HeadTailProperties
<1>4. Given(b)
  BY DEF DeliveryInvariant
<1> HIDE DEF q, p
<1>5. p # 0 /\ shown[b] <= p /\ \A i \in 1..Len(q) : p <= q[i]
  BY <1>2, <1>3, <1>4 DEF Given, q
<1>6. b \in clients => p <= last /\ shown[b] <= last /\ q[Len(q)] = last
  BY <1>1, <1>2, <1>3, <1>4 DEF Given, Newest, q
<1>7. b \in clients' => Newest(b)' = last'
  <2>1. CASE Tail(q) = <<>>
    BY <1>1, <1>2, <1>3, <1>5, <1>6, <2>1 DEF Newest
  <2>2. CASE Tail(q) # <<>>
    <3>1. Len(Tail(q)) \in 1..Len(Tail(q))
      BY <1>2, <1>3, <2>2
    <3> QED
      BY <1>1, <1>2, <1>3, <1>6, <2>2, <3>1 DEF Newest
  <2> QED BY <2>1, <2>2
<1>8. \A i \in 1..Len(Tail(q)) :
       /\ shown[b] <= Tail(q)[i] /\ p <= Tail(q)[i]
       /\ \A j \in 1..i : Tail(q)[j] <= Tail(q)[i]
       /\ b \in clients => Tail(q)[i] <= last
  BY <1>2, <1>3, <1>4, <1>5 DEF Given, q
<1> QED
  BY <1>1, <1>5, <1>6, <1>7, <1>8 DEF Given, InUse

\* A subscription starts with the last payload.
LEMMA SubscribeDelivers ==
  ASSUME ServerAssumption, ServerInvariant, DeliveryInvariant, NEW b \in Browsers, Subscribe(b)
  PROVE  Given(b)'
<1>1. /\ at[b] = "accepted" /\ at'[b] = "loop" /\ shown'[b] = 0 /\ last' = last
      /\ payload' = payload
  BY DEF Subscribe, ServerInvariant, HandlerShape
<1>4. payload[b] = 0 /\ b \notin clients
  BY <1>1 DEF ServerInvariant, HubShape, Subscribed, InUse, DeliveryInvariant, Given
<1>5. last \in 1..MaxVersion
  BY <1>1 DEF ServerInvariant, HandlerShape, SourceShape, ServerAssumption
<1>2. CASE server # "closed"
  <2>1. queue'[b] = <<last>>
    BY <1>2 DEF Subscribe, Join, Register, ServerInvariant, QueueShape
  <2> QED BY <1>1, <1>4, <1>5, <2>1 DEF Given, Newest, InUse, ServerAssumption
<1>3. CASE server = "closed"
  <2>1. queue'[b] = <<>> /\ b \notin clients'
    BY <1>4, <1>3 DEF Subscribe, Join, ServerInvariant, QueueShape
  <2> QED BY <1>1, <1>4, <2>1 DEF Given, Newest, InUse
<1> QED BY <1>2, <1>3

\* What is broadcast is not older than what any client has, and it becomes the
\* last of every queue it is appended to.
LEMMA BroadcastDelivers ==
  ASSUME ServerAssumption, ServerInvariant, DeliveryInvariant, NEW s \in publishing, Broadcast(s)
  PROVE  DeliveryInvariant'
<1>1. /\ publishing' = publishing \ {s}
      /\ UNCHANGED <<access, version, unpublished, server, stopping, at, payload,
                     shown, command, unsettled>>
  BY DEF Broadcast
<1>2. CASE server = "closed"
  <2>1. UNCHANGED <<last, clients, ended, queue>>
    BY <1>2 DEF Broadcast
  <2>2. Announced'
    BY <1>1, <1>2, <2>1 DEF DeliveryInvariant, Announced
  <2> QED
    BY <1>1, <2>1, <2>2, SameGiven DEF DeliveryInvariant
<1>3. CASE server # "closed"
  <2>1. /\ last' = s /\ clients' = {b \in clients : ~Full(b)}
        /\ queue' = [b \in Browsers |-> IF b \in clients /\ ~Full(b)
                                        THEN Append(queue[b], s) ELSE queue[b]]
    BY <1>3 DEF Broadcast, Evict
  <2>2. s \in 1..MaxVersion /\ last \in Nat /\ last <= s /\ s <= version
    BY DEF ServerInvariant, SourceShape, DeliveryInvariant, Announced
  <2>3. Announced'
    BY <1>1, <2>1, <2>2 DEF ServerInvariant, SourceShape, DeliveryInvariant, Announced
  <2>4. ASSUME NEW b \in Browsers PROVE Given(b)'
    <3> DEFINE q == queue[b]
    <3>1. q \in Seq(1..MaxVersion) /\ Len(q) \in Nat /\ shown[b] \in Nat /\ payload[b] \in Nat
      BY DEF ServerInvariant, HandlerShape, QueueShape
    <3>2. Given(b)
      BY DEF DeliveryInvariant
    <3>3. CASE b \in clients'
      <4>1. queue'[b] = Append(q, s) /\ b \in clients
        BY <2>1, <3>3
      <4>2. /\ Len(Append(q, s)) = Len(q) + 1 /\ Append(q, s)[Len(q) + 1] = s
            /\ \A i \in 1..Len(q) : Append(q, s)[i] = q[i]
            /\ Append(q, s) # <<>>
        <5>1. q \in Seq(1..MaxVersion) /\ s \in 1..MaxVersion
          BY <2>2, <3>1
        <5> HIDE DEF q
        <5> QED BY <5>1, AppendProperties, SMTT(30)
      <4>3. /\ shown[b] <= s /\ payload[b] <= s
            /\ \A i \in 1..Len(q) : q[i] \in Nat /\ q[i] <= s
        BY <2>2, <3>1, <3>2, <4>1, SMTT(30) DEF Given
      <4> HIDE DEF q
      <4>4. \A i \in 1..(Len(q) + 1) :
              LET r == Append(q, s) IN
              /\ shown[b] <= r[i] /\ payload[b] <= r[i] /\ r[i] <= s
              /\ \A j \in 1..i : r[j] <= r[i]
        <5>1. ASSUME NEW i \in 1..Len(q)
              PROVE  shown[b] <= q[i] /\ payload[b] <= q[i] /\ \A j \in 1..i : q[j] <= q[i]
          BY <3>2 DEF Given, q
        <5>2. ASSUME NEW i \in 1..(Len(q) + 1), NEW j \in 1..i
              PROVE  LET r == Append(q, s) IN
                     shown[b] <= r[i] /\ payload[b] <= r[i] /\ r[i] <= s /\ r[j] <= r[i]
          <6>1. CASE i \in 1..Len(q)
            <7>1. j \in 1..Len(q)
              BY <3>1, <6>1
            <7> QED BY <4>2, <4>3, <5>1, <6>1, <7>1
          <6>2. CASE i = Len(q) + 1
            <7>1. CASE j \in 1..Len(q)
              <8>1. Append(q, s)[j] <= s /\ Append(q, s)[i] = s /\ s <= s
                BY <2>2, <4>2, <4>3, <6>2, <7>1
              <8> QED BY <4>3, <8>1
            <7>2. CASE j = i
              BY <2>2, <4>2, <4>3, <6>2, <7>2
            <7> QED BY <3>1, <6>2, <7>1, <7>2
          <6> QED BY <3>1, <6>1, <6>2
        <5>3. \A i \in 1..(Len(q) + 1) : i \in 1..i
          BY <3>1
        <5> QED BY <5>2, <5>3
      <4>5. Newest(b)' = s
        BY <3>1, <4>1, <4>2 DEF Newest
      <4> QED
        BY <1>1, <2>1, <3>2, <4>1, <4>2, <4>3, <4>4, <4>5 DEF Given
    <3>4. CASE b \notin clients'
      <4>1. queue'[b] = q
        BY <2>1, <3>4
      <4> QED BY <1>1, <3>2, <3>4, <4>1, SameGiven
    <3> QED BY <3>3, <3>4
  <2> QED BY <2>3, <2>4 DEF DeliveryInvariant
<1> QED BY <1>2, <1>3

\* The payload becomes what the browser shows.
LEMMA WriteDelivers ==
  ASSUME ServerAssumption, ServerInvariant, DeliveryInvariant, NEW b \in Browsers, Write(b)
  PROVE  Given(b)'
<1>1. /\ at[b] = "checked" /\ at'[b] = "loop" /\ payload'[b] = 0 /\ shown'[b] = payload[b]
      /\ queue' = queue /\ clients' = clients /\ last' = last
  BY DEF Write, Goto, ServerInvariant, HandlerShape, hub
<1>2. Given(b)
  BY DEF DeliveryInvariant
<1>3. payload[b] # 0 /\ payload[b] \in Nat /\ last \in Nat
  BY <1>1, <1>2 DEF Given, InUse, ServerInvariant, HandlerShape, SourceShape
<1>4. \A i \in 1..Len(queue[b]) : queue[b][i] \in Nat
  BY DEF ServerInvariant, QueueShape
<1>5. b \in clients' => Newest(b)' = last'
  BY <1>1, <1>2, <1>3 DEF Given, Newest
<1> QED
  BY <1>1, <1>2, <1>3, <1>4, <1>5 DEF Given, InUse

\* A handler's step concerns its own browser: the others keep what they have.
LEMMA HandlerDelivers ==
  ASSUME ServerAssumption, ServerInvariant, DeliveryInvariant, NEW b \in Browsers,
         Request(b) \/ Handler(b) \/ Leave(b) \/ Command(b)
  PROVE  DeliveryInvariant'
<1>1. CASE Enter(b)
  <2>1. /\ \A c \in Browsers : c # b => at'[c] = at[c]
        /\ at'[b] \in {"idle", "accepted"} /\ at[b] = "requested"
        /\ UNCHANGED <<source, clients, queue, payload, shown>>
    BY <1>1 DEF Enter, ServerInvariant, HandlerShape
  <2>2. \/ last' = last /\ server' = server
        \/ server = "none" /\ server' = "open" /\ publishing = {} /\ last' = version
    BY <1>1 DEF Enter
  <2>3. server = "none" => clients = {}
    BY DEF ServerInvariant, HubShape
  <2>4. Announced'
    BY <2>1, <2>2 DEF DeliveryInvariant, Announced, source, ServerInvariant, SourceShape
  <2>5. b \notin clients
    BY <2>1 DEF ServerInvariant, HubShape, Subscribed, InUse
  <2>6. Given(b)'
    BY <2>1, <2>5 DEF DeliveryInvariant, Given, InUse
  <2>7. \A c \in Browsers : c # b => Given(c)'
    BY <2>1, <2>2, <2>3, SameGiven DEF DeliveryInvariant
  <2> QED BY <2>4, <2>6, <2>7 DEF DeliveryInvariant
<1>2. CASE ~Enter(b)
  <2>1. /\ UNCHANGED <<source, server, last>>
        /\ \A c \in Browsers : c # b =>
             /\ at'[c] = at[c] /\ payload'[c] = payload[c] /\ shown'[c] = shown[c]
             /\ queue'[c] = queue[c] /\ (c \in clients' => c \in clients)
    <3> USE DEF source, hub, sockets, idleVars, Goto
    <3>1. /\ at \in [Browsers -> Places] /\ queue \in [Browsers -> Seq(1..MaxVersion)]
          /\ payload \in [Browsers -> 0..MaxVersion] /\ shown \in [Browsers -> 0..MaxVersion]
      BY DEF ServerInvariant, HandlerShape, QueueShape
    <3>2. CASE Request(b) \/ Leave(b) \/ Command(b)
      BY <3>1, <3>2 DEF Request, Leave, Command, Send, Admit, Finish
    <3>3. CASE Subscribe(b)
      BY <3>1, <3>3 DEF Subscribe, Join, Register
    <3>4. CASE Receive(b) \/ Write(b) \/ Unsubscribe(b)
      BY <3>1, <3>4 DEF Receive, Write, Unsubscribe
    <3>5. CASE Authenticate(b) \/ CheckAccess(b) \/ WriteFails(b) \/ Tick(b) \/ ChannelEnds(b)
      BY <3>1, <3>5 DEF Authenticate, CheckAccess, WriteFails, Tick, ChannelEnds
    <3> QED BY <1>2, <3>2, <3>3, <3>4, <3>5 DEF Handler
  <2>2. Announced'
    BY <2>1 DEF DeliveryInvariant, Announced, source
  <2>3. \A c \in Browsers : c # b => Given(c)'
    BY <2>1, SameGiven DEF DeliveryInvariant
  <2>4. Given(b)'
    <3>1. /\ at \in [Browsers -> Places] /\ queue \in [Browsers -> Seq(1..MaxVersion)]
          /\ payload \in [Browsers -> 0..MaxVersion] /\ shown \in [Browsers -> 0..MaxVersion]
      BY DEF ServerInvariant, HandlerShape, QueueShape
    <3>2. Given(b)
      BY DEF DeliveryInvariant
    <3>3. CASE Command(b)
      BY <2>1, <3>2, <3>3, SameGiven DEF Command, Send, Admit, Finish, hub, sockets
    <3>4. CASE Subscribe(b)   BY <3>4, SubscribeDelivers
    <3>5. CASE Receive(b)     BY <3>5, ReceiveDelivers
    <3>6. CASE Write(b)       BY <3>6, WriteDelivers
    <3>7. CASE Unsubscribe(b)
      <4>1. /\ at'[b] = "idle" /\ queue'[b] = <<>> /\ payload'[b] = 0
            /\ b \notin clients'
        BY <3>1, <3>7 DEF Unsubscribe, Goto
      <4> QED BY <4>1 DEF Given, InUse
    <3>8. CASE Request(b) \/ Leave(b) \/ WriteFails(b) \/ Tick(b) \/ ChannelEnds(b)
                 \/ Authenticate(b) \/ CheckAccess(b)
      <4>1. /\ UNCHANGED <<queue, payload, shown, clients, last>>
            /\ \/ at[b] = "idle" /\ at'[b] = "requested"
               \/ at'[b] = "closing"
               \/ at[b] = "locked" /\ at'[b] = "authenticated"
               \/ at[b] = "authenticated" /\ at'[b] = "checked"
        BY <3>1, <3>8 DEF Request, Leave, WriteFails, Tick, ChannelEnds, Authenticate,
           CheckAccess, Goto, idleVars, hub
      <4>2. at[b] = "idle" => b \notin clients
        BY DEF ServerInvariant, HubShape, Subscribed, InUse
      <4> QED BY <3>2, <4>1, <4>2 DEF Given, Newest, InUse
    <3> QED BY <1>2, <3>3, <3>4, <3>5, <3>6, <3>7, <3>8 DEF Handler
  <2> QED BY <2>2, <2>3, <2>4 DEF DeliveryInvariant
<1> QED BY <1>1, <1>2

\* A change is announced later; what is announced shows every change so far.
LEMMA OtherDelivers ==
  ASSUME ServerAssumption, ServerInvariant, DeliveryInvariant,
         \/ DeleteRoom \/ Change \/ Publication \/ Closing \/ Stop \/ UNCHANGED vars
         \/ \E b \in Browsers : Login(b) \/ Logout(b)
         \/ \E u \in Users : UpdateUser(u)
         \/ \E us \in SUBSET Users : SetGrants(us)
  PROVE  DeliveryInvariant'
<1>1. ASSUME NEW s \in publishing, Broadcast(s) PROVE DeliveryInvariant'
  BY <1>1, BroadcastDelivers
<1>2. ASSUME ~ \E s \in publishing : Broadcast(s) PROVE DeliveryInvariant'
  <2>1. /\ at' = at /\ payload' = payload /\ shown' = shown /\ queue' = queue
        /\ last' = last /\ clients' \subseteq clients
    BY <1>2 DEF DeleteRoom, Change, Publication, Capture, Closing, EndSubscription, CloseHub,
       Stop, Login, Logout, UpdateUser, SetGrants, elsewhere, hub, sockets, vars
  <2>2. \A b \in Browsers : Given(b)'
    BY <2>1, SameGiven DEF DeliveryInvariant
  <2>3. Announced'
    <3> USE DEF ServerInvariant, SourceShape, DeliveryInvariant, Announced
    <3>1. CASE Change
      BY <3>1 DEF Change, hub
    <3>2. CASE Capture
      BY <3>2 DEF Capture, hub
    <3>3. CASE Closing
      BY <3>3 DEF Closing, EndSubscription, CloseHub, source
    <3>4. CASE ~Change /\ ~Capture /\ ~Closing
      BY <1>2, <2>1, <3>4 DEF DeleteRoom, Publication, Stop, Login, Logout, UpdateUser, SetGrants,
         elsewhere, source, hub, vars
    <3> QED BY <3>1, <3>2, <3>3, <3>4
  <2> QED BY <2>2, <2>3 DEF DeliveryInvariant
<1> QED BY <1>1, <1>2

\* Nothing has been given and nothing is unannounced at the start.
LEMMA DeliveryInit == ASSUME ServerAssumption, Init PROVE DeliveryInvariant
  BY DEF Init, DeliveryInvariant, Announced, Given, InUse, ServerAssumption

\* The two invariants above hold for any number of browsers, users, changes and
\* any size of the buffer.
LEMMA ServerIsInvariant == Spec => [](ServerInvariant /\ DeliveryInvariant)
<1>1. ServerInvariant /\ DeliveryInvariant /\ [Next]_vars
        => ServerInvariant' /\ DeliveryInvariant'
  BY ServerAssumption, HandlerKeepsServer, OtherKeepsServer, HandlerDelivers,
     OtherDelivers DEF Next
<1> QED
  BY ServerAssumption, ServerInit, DeliveryInit, <1>1, PTL DEF Spec

\* The state keeps its shape: no queue outgrows hub.Config.BufferSize, and only
\* handlers that have subscribed are clients, of a hub that is open.
THEOREM ServerTypeCorrect == Spec => []TypeOK
  BY ServerIsInvariant, ServerTypeOK, PTL

\* However small the buffer, a socket the hub dropped or never took has a closed
\* channel (Hub.Broadcast, Hub.Close, Hub.Subscribe).
THEOREM UnservedAreTold == Spec => []UnservedIsTold
<1>1. ServerInvariant => UnservedIsTold
  BY DEF ServerInvariant, HubShape, UnservedIsTold
<1> QED
  BY ServerIsInvariant, <1>1, PTL

\* Between publications every subscriber has been given the hub's last snapshot,
\* and it shows every announced change (Service.notify under pubMu, Hub.Subscribe
\* and Hub.Broadcast).
THEOREM SubscribersAreUpToDate == Spec => []SubscribersHaveTheLatest
<1>1. ServerInvariant /\ DeliveryInvariant => SubscribersHaveTheLatest
  <2>1. ASSUME ServerInvariant, DeliveryInvariant, NEW b \in clients, at[b] # "closing"
        PROVE  Newest(b) = last
    BY <2>1 DEF ServerInvariant, HubShape, DeliveryInvariant, Given
  <2> QED
    BY <2>1 DEF DeliveryInvariant, Announced, SubscribersHaveTheLatest
<1> QED
  BY ServerIsInvariant, <1>1, PTL

\* On one socket no snapshot is written after a later one: what a handler writes
\* was queued after what it wrote before (handleWebSocket's loop).
THEOREM SnapshotsOnlyMoveForward == Spec => SnapshotsMoveForward
<1>1. ServerInvariant /\ DeliveryInvariant /\ [Next]_vars
        => [\A b \in Browsers : at[b] = "checked" /\ at'[b] = "loop"
                                  => shown'[b] >= shown[b]]_vars
  <2> SUFFICES ASSUME ServerInvariant, DeliveryInvariant, [Next]_vars,
                      NEW b \in Browsers, at[b] = "checked", at'[b] = "loop"
               PROVE  shown'[b] >= shown[b]
    OBVIOUS
  <2>1. at \in [Browsers -> Places] /\ shown \in [Browsers -> 0..MaxVersion]
        /\ payload \in [Browsers -> 0..MaxVersion]
    BY DEF ServerInvariant, HandlerShape
  <2>2. shown[b] <= payload[b]
    BY DEF DeliveryInvariant, Given, InUse
  <2>3. PICK c \in Browsers : Request(c) \/ Handler(c) \/ Leave(c)
    BY DEF Next, vars, Change, Publication, Capture, Broadcast, Closing,
       EndSubscription, CloseHub, Stop, DeleteRoom, Command, Send, Admit, Finish,
       Login, Logout, UpdateUser, SetGrants, elsewhere, sockets
  <2>4. Write(b)
    BY <2>1, <2>3 DEF Handler, Request, Enter, Subscribe, Receive, Authenticate,
       CheckAccess, Write, WriteFails, Tick, ChannelEnds, Unsubscribe, Leave, Goto
  <2>5. shown'[b] = payload[b]
    BY <2>1, <2>4 DEF Write
  <2> QED
    BY <2>1, <2>2, <2>5, ServerAssumption
<1> QED
  BY ServerIsInvariant, <1>1, PTL DEF Spec, SnapshotsMoveForward
=============================================================================
