-------------------------- MODULE RoomLifecycleProofs --------------------------
(***************************************************************************)
(* Proofs about RoomLifecycle, for every set of rooms, numbers and         *)
(* channels and any number of faults.  Each part of Inductive is preserved *)
(* by every step; the safety properties and the refinement of RoomAccess   *)
(* follow.                                                                 *)
(***************************************************************************)
EXTENDS RoomLifecycle, TLAPS

USE RoomAssumption DEF roomVars, managerVars, channelVars, vars

\* What is being written is a write of the catalogue's own rooms.
LEMMA InFlightWrites == TypeOK /\ LockInv => InFlight \subseteq Writes
<1> SUFFICES ASSUME TypeOK, LockInv PROVE InFlight \subseteq Writes
  OBVIOUS
<1>1. step \in {"put", "del"} => room \in Rooms
  BY DEF LockInv, Operating, Disabling, Ensuring
<1> QED BY <1>1 DEF InFlight, Writes

\* Every step keeps the variables in their types.
LEMMA TypeStep == TypeOK /\ LockInv /\ [Next]_vars => TypeOK'
<1> SUFFICES ASSUME TypeOK, LockInv, [Next]_vars PROVE TypeOK'
  OBVIOUS
<1>a. InFlight \subseteq Writes
  BY InFlightWrites
<1>1. CASE Requests
  <2>1. ASSUME NEW r \in Rooms, Create(r) PROVE TypeOK'
    BY <2>1 DEF Create, States, Live, TypeOK
  <2>2. ASSUME NEW r \in Rooms, DeleteStart(r) PROVE TypeOK'
    BY <2>2 DEF DeleteStart, TypeOK
  <2>3. ASSUME NEW k \in Channels, Admit(k) \/ Invite(k) \/ InviteEnds(k) \/ Unlist(k) PROVE TypeOK'
    BY <2>3 DEF Admit, Invite, InviteEnds, Unlist, ChannelSteps, TypeOK
  <2>4. CASE DeleteCount \/ DeleteList \/ DeleteFails
    BY <2>4 DEF DeleteCount, DeleteList, DeleteFails, DeleteGoes, TypeOK
  <2>5. CASE DeleteCommit
    BY <2>5 DEF DeleteCommit, DeleteGoes, States, Live, TypeOK
  <2> QED BY <1>1, <2>1, <2>2, <2>3, <2>4, <2>5 DEF Requests
<1>2. CASE Reconciling
  <2>1. CASE CleanStart \/ CleanEnd \/ PassEnd
    BY <2>1 DEF CleanStart, CleanEnd, PassEnd, ReconcileUnchanged, Steps, TypeOK
  <2>2. CASE Scan
    BY <2>2 DEF Scan, ReconcileUnchanged, Steps, TypeOK
  <2>3. ASSUME NEW r \in Rooms, NextOrphan(r) \/ TakeRoom(r) \/ SkipRoom(r) PROVE TypeOK'
    BY <2>3, ZenonT(60) DEF NextOrphan, TakeRoom, SkipRoom, ReconcileUnchanged, Steps,
      Disabling, Ensuring, Emptying, Outcomes, TypeOK
  <2>4. CASE Version \/ Verify \/ Get \/ Check \/ Count \/ List
    BY <2>4 DEF Version, Verify, Get, Check, Count, List, Acts, Disabled, Goes,
      ReconcileUnchanged, Steps, Disabling, Ensuring, Emptying, Outcomes, TypeOK
  <2>5. CASE Put
    BY <2>5 DEF Put, Acts, Executed, ReconcileUnchanged, Steps, Disabling, Ensuring,
      Emptying, Outcomes, LockInv, Operating, TypeOK
  <2>6. CASE Delete
    BY <2>6 DEF Delete, Acts, Executed, ReconcileUnchanged, Steps, Disabling,
      Ensuring, Emptying, Outcomes, TypeOK
  <2>7. CASE StepFails
    <3>1. late' \subseteq Writes /\ faults' \in 0..MaxFaults
      BY <2>7, <1>a DEF StepFails, TypeOK
    <3>2. step' \in Steps
      BY <2>7 DEF StepFails, Goes, Steps, Disabling, Outcomes
    <3> QED BY <2>7, <3>1, <3>2 DEF StepFails, ReconcileUnchanged, TypeOK
  <2>8. CASE SaveResult
    <3>1. room \in Rooms
      BY <2>8 DEF LockInv, Operating, SaveResult
    <3>2. NewState \in States
      BY <3>1 DEF NewState, States, Live, TypeOK
    <3>3. state' \in [Rooms -> States] /\ verified' \subseteq Rooms
      BY <2>8, <3>1, <3>2 DEF SaveResult, TypeOK
    <3> QED BY <2>8, <3>3 DEF SaveResult, ReconcileUnchanged, Steps, TypeOK
  <2> QED BY <1>2, <2>1, <2>2, <2>3, <2>4, <2>5, <2>6, <2>7, <2>8 DEF Reconciling
<1>3. CASE Environment
  <2>1. CASE LinkLost
    BY <2>1, <1>a DEF LinkLost, LinkUnchanged, TypeOK
  <2>2. CASE ToldDown \/ ToldUp \/ LinkRestored \/ LateDropped
    BY <2>2 DEF ToldDown, ToldUp, Told, LinkRestored, LateDropped, LinkUnchanged,
      TypeOK
  <2>3. CASE Restart
    <3>1. late' \subseteq Writes /\ faults' \in 0..MaxFaults
      BY <2>3, <1>a DEF Restart, TypeOK
    <3> QED BY <2>3, <3>1 DEF Restart, Steps, TypeOK
  <2>4. ASSUME NEW w \in Writes, LateExecutes(w) PROVE TypeOK'
    BY <2>4 DEF LateExecutes, Executed, LinkUnchanged, Writes, TypeOK
  <2>5. ASSUME NEW n \in Numbers, EntryLost(n) PROVE TypeOK'
    BY <2>5 DEF EntryLost, LinkUnchanged, TypeOK
  <2> QED BY <1>3, <2>1, <2>2, <2>3, <2>4, <2>5 DEF Environment
<1>4. ASSUME NEW k \in Channels, Dialplan(k) PROVE TypeOK'
  BY <1>4 DEF Dialplan, HangsUp, CountsLeg, PassesLeg, ReadsTarget, Counts, Passes,
    Enters, Moves, ChannelUnchanged, ChannelSteps, TypeOK
<1>5. CASE UNCHANGED vars
  BY <1>5 DEF TypeOK
<1> QED BY <1>1, <1>2, <1>3, <1>4, <1>5 DEF Next

\* The room being worked on and the place of its operation fit each other: only
\* the holder of Admission has an operation in progress.
LEMMA LockStep == TypeOK /\ LockInv /\ [Next]_vars => LockInv'
<1> SUFFICES ASSUME TypeOK, LockInv, [Next]_vars PROVE LockInv'
  OBVIOUS
<1>1. CASE Requests
  <2>1. ASSUME NEW r \in Rooms, Create(r) PROVE LockInv'
    BY <2>1 DEF Create, LockInv, TypeOK
  <2>2. ASSUME NEW r \in Rooms, DeleteStart(r) PROVE LockInv'
    BY <2>2 DEF DeleteStart, LockInv, TypeOK
  <2>3. ASSUME NEW k \in Channels, Admit(k) \/ Invite(k) \/ InviteEnds(k) \/ Unlist(k) PROVE LockInv'
    BY <2>3 DEF Admit, Invite, InviteEnds, Unlist, LockInv, TypeOK
  <2>4. CASE DeleteCount \/ DeleteList \/ DeleteFails
    BY <2>4 DEF DeleteCount, DeleteList, DeleteFails, DeleteGoes, LockInv, TypeOK
  <2>5. CASE DeleteCommit
    BY <2>5 DEF DeleteCommit, DeleteGoes, LockInv, TypeOK
  <2> QED BY <1>1, <2>1, <2>2, <2>3, <2>4, <2>5 DEF Requests
<1>2. CASE Reconciling
  <2>1. CASE CleanStart \/ CleanEnd \/ PassEnd
    BY <2>1 DEF CleanStart, CleanEnd, PassEnd, ReconcileUnchanged, Operating,
      Disabling, Ensuring, Emptying, Outcomes, LockInv, TypeOK
  <2>2. CASE Scan
    BY <2>2 DEF Scan, ReconcileUnchanged, Operating, Disabling, Ensuring, Emptying,
      Outcomes, LockInv, TypeOK
  <2>3. ASSUME NEW r \in Rooms, NextOrphan(r) \/ TakeRoom(r) \/ SkipRoom(r) PROVE LockInv'
    BY <2>3 DEF NextOrphan, TakeRoom, SkipRoom, ReconcileUnchanged, Operating,
      Disabling, Ensuring, Emptying, Outcomes, LockInv, TypeOK
  <2>4. CASE Version \/ Verify \/ Get \/ Check \/ Count \/ List
    BY <2>4 DEF Version, Verify, Get, Check, Count, List, Acts, Disabled, Goes,
      ReconcileUnchanged, Operating, Disabling, Ensuring, Emptying, Outcomes,
      LockInv, TypeOK
  <2>5. CASE Put
    BY <2>5 DEF Put, Acts, Executed, ReconcileUnchanged, Operating, Disabling,
      Ensuring, Emptying, Outcomes, LockInv, TypeOK
  <2>6. CASE Delete
    BY <2>6 DEF Delete, Acts, Executed, ReconcileUnchanged, Operating, Disabling,
      Ensuring, Emptying, Outcomes, LockInv, TypeOK
  <2>7. CASE StepFails
    BY <2>7 DEF StepFails, Goes, ReconcileUnchanged, Operating, Disabling, Ensuring,
      Emptying, Outcomes, LockInv, TypeOK
  <2>8. CASE SaveResult
    BY <2>8 DEF SaveResult, ReconcileUnchanged, Operating, Disabling, Ensuring,
      Emptying, Outcomes, LockInv, TypeOK
  <2> QED BY <1>2, <2>1, <2>2, <2>3, <2>4, <2>5, <2>6, <2>7, <2>8 DEF Reconciling
<1>3. CASE Environment
  <2>1. CASE LinkLost
    BY <2>1 DEF LinkLost, LinkUnchanged, LockInv, TypeOK
  <2>2. CASE ToldDown \/ ToldUp \/ LinkRestored \/ LateDropped
    BY <2>2 DEF ToldDown, ToldUp, Told, LinkRestored, LateDropped, LinkUnchanged,
      LockInv, TypeOK
  <2>3. CASE Restart
    BY <2>3 DEF Restart, Operating, Disabling, Ensuring, Emptying, Outcomes,
      LockInv, TypeOK
  <2>4. ASSUME NEW w \in Writes, LateExecutes(w) PROVE LockInv'
    BY <2>4 DEF LateExecutes, Executed, LinkUnchanged, LockInv, TypeOK
  <2>5. ASSUME NEW n \in Numbers, EntryLost(n) PROVE LockInv'
    BY <2>5 DEF EntryLost, LinkUnchanged, LockInv, TypeOK
  <2> QED BY <1>3, <2>1, <2>2, <2>3, <2>4, <2>5 DEF Environment
<1>4. ASSUME NEW k \in Channels, Dialplan(k) PROVE LockInv'
  BY <1>4 DEF Dialplan, HangsUp, CountsLeg, PassesLeg, ReadsTarget, Counts, Passes,
    Enters, Moves, ChannelUnchanged, LockInv, TypeOK
<1>5. CASE UNCHANGED vars
  BY <1>5 DEF LockInv, TypeOK
<1> QED BY <1>1, <1>2, <1>3, <1>4, <1>5 DEF Next

\* While reconcile works on a room, or a deletion waits for its answers, the room
\* keeps the state it was taken in, since both hold Admission.
LEMMA WorkStep == TypeOK /\ LockInv /\ WorkInv /\ CatalogueInv /\ [Next]_vars => WorkInv'
<1> SUFFICES ASSUME TypeOK, LockInv, WorkInv, CatalogueInv, [Next]_vars PROVE WorkInv'
  OBVIOUS
<1>1. CASE Requests
  <2>1. ASSUME NEW r \in Rooms, Create(r) PROVE WorkInv'
    BY <2>1 DEF Create, Live, CatalogueInv, LockInv, WorkInv, Abandoned, TypeOK
  <2>2. ASSUME NEW r \in Rooms, DeleteStart(r) PROVE WorkInv'
    BY <2>2 DEF DeleteStart, LockInv, WorkInv, Abandoned, TypeOK
  <2>3. ASSUME NEW k \in Channels, Admit(k) \/ Invite(k) \/ InviteEnds(k) \/ Unlist(k) PROVE WorkInv'
    BY <2>3 DEF Admit, Invite, InviteEnds, Unlist, Ready, LockInv, WorkInv,
      Abandoned, TypeOK
  <2>4. CASE DeleteCount \/ DeleteList \/ DeleteFails
    BY <2>4 DEF DeleteCount, DeleteList, DeleteFails, DeleteGoes, LockInv, WorkInv,
      Abandoned, TypeOK
  <2>5. CASE DeleteCommit
    BY <2>5 DEF DeleteCommit, DeleteGoes, LockInv, Operating, Disabling, Ensuring,
      Emptying, Outcomes, WorkInv, Abandoned, TypeOK
  <2> QED BY <1>1, <2>1, <2>2, <2>3, <2>4, <2>5 DEF Requests
<1>2. CASE Reconciling
  <2>1. CASE CleanStart \/ CleanEnd \/ PassEnd
    BY <2>1 DEF CleanStart, CleanEnd, PassEnd, ReconcileUnchanged, LockInv,
      Operating, Disabling, Ensuring, Emptying, Outcomes, WorkInv, Abandoned, TypeOK
  <2>2. CASE Scan
    BY <2>2 DEF Scan, ReconcileUnchanged, LockInv, Registered, Operating, Disabling,
      Ensuring, Emptying, Outcomes, WorkInv, Abandoned, TypeOK
  <2>3. ASSUME NEW r \in Rooms, NextOrphan(r) \/ TakeRoom(r) \/ SkipRoom(r) PROVE WorkInv'
    BY <2>3 DEF NextOrphan, TakeRoom, SkipRoom, ReconcileUnchanged, LockInv, States,
      Live, Operating, Disabling, Ensuring, Emptying, Outcomes, WorkInv, Abandoned,
      TypeOK
  <2>4. CASE Version \/ Verify \/ Get \/ Check \/ Count \/ List
    BY <2>4 DEF Version, Verify, Get, Check, Count, List, Acts, Disabled, Goes,
      ReconcileUnchanged, LockInv, Operating, Disabling, Ensuring, Emptying,
      Outcomes, WorkInv, Abandoned, TypeOK
  <2>5. CASE Put
    BY <2>5 DEF Put, Acts, Executed, ReconcileUnchanged, LockInv, Operating,
      Disabling, Ensuring, Emptying, Outcomes, WorkInv, Abandoned, TypeOK
  <2>6. CASE Delete
    BY <2>6 DEF Delete, Acts, Executed, ReconcileUnchanged, LockInv, Operating,
      Disabling, Ensuring, Emptying, Outcomes, WorkInv, Abandoned, TypeOK
  <2>7. CASE StepFails
    BY <2>7 DEF StepFails, Goes, ReconcileUnchanged, LockInv, Operating, Disabling,
      Ensuring, Emptying, Outcomes, WorkInv, Abandoned, TypeOK
  <2>8. CASE SaveResult
    BY <2>8 DEF SaveResult, ReconcileUnchanged, LockInv, NewState, States, Live,
      Operating, Disabling, Ensuring, Emptying, Outcomes, WorkInv, Abandoned, TypeOK
  <2> QED BY <1>2, <2>1, <2>2, <2>3, <2>4, <2>5, <2>6, <2>7, <2>8 DEF Reconciling
<1>3. CASE Environment
  <2>1. CASE LinkLost
    BY <2>1 DEF LinkLost, LinkUnchanged, WorkInv, Abandoned, TypeOK
  <2>2. CASE ToldDown \/ ToldUp \/ LinkRestored \/ LateDropped
    BY <2>2 DEF ToldDown, ToldUp, Told, LinkRestored, LateDropped, LinkUnchanged,
      WorkInv, Abandoned, TypeOK
  <2>3. CASE Restart
    BY <2>3 DEF Restart, Operating, Disabling, Ensuring, Emptying, Outcomes,
      WorkInv, Abandoned, TypeOK
  <2>4. ASSUME NEW w \in Writes, LateExecutes(w) PROVE WorkInv'
    BY <2>4 DEF LateExecutes, Executed, LinkUnchanged, WorkInv, Abandoned, TypeOK
  <2>5. ASSUME NEW n \in Numbers, EntryLost(n) PROVE WorkInv'
    BY <2>5 DEF EntryLost, LinkUnchanged, WorkInv, Abandoned, TypeOK
  <2> QED BY <1>3, <2>1, <2>2, <2>3, <2>4, <2>5 DEF Environment
<1>4. ASSUME NEW k \in Channels, Dialplan(k) PROVE WorkInv'
  BY <1>4 DEF Dialplan, HangsUp, CountsLeg, PassesLeg, ReadsTarget, Counts, Passes,
    Enters, Moves, ChannelUnchanged, WorkInv, Abandoned, TypeOK
<1>5. CASE UNCHANGED vars
  BY <1>5 DEF WorkInv, Abandoned, TypeOK
<1> QED BY <1>1, <1>2, <1>3, <1>4, <1>5 DEF Next

\* No two rooms that are not deleted share a number.
LEMMA CatalogueStep == TypeOK /\ LockInv /\ WorkInv /\ CatalogueInv /\ [Next]_vars => CatalogueInv'
<1> SUFFICES ASSUME TypeOK, LockInv, WorkInv, CatalogueInv, [Next]_vars PROVE CatalogueInv'
  OBVIOUS
<1>1. CASE Requests
  <2>1. ASSUME NEW r \in Rooms, Create(r) PROVE CatalogueInv'
    BY <2>1 DEF Create, Live, CatalogueInv, TypeOK
  <2>2. ASSUME NEW r \in Rooms, DeleteStart(r) PROVE CatalogueInv'
    BY <2>2 DEF DeleteStart, CatalogueInv, TypeOK
  <2>3. ASSUME NEW k \in Channels, Admit(k) \/ Invite(k) \/ InviteEnds(k) \/ Unlist(k) PROVE CatalogueInv'
    BY <2>3 DEF Admit, Invite, InviteEnds, Unlist, CatalogueInv, TypeOK
  <2>4. CASE DeleteCount \/ DeleteList \/ DeleteFails
    BY <2>4 DEF DeleteCount, DeleteList, DeleteFails, DeleteGoes, CatalogueInv,
      TypeOK
  <2>5. CASE DeleteCommit
    BY <2>5 DEF DeleteCommit, DeleteGoes, WorkInv, Live, CatalogueInv, TypeOK
  <2> QED BY <1>1, <2>1, <2>2, <2>3, <2>4, <2>5 DEF Requests
<1>2. CASE Reconciling
  <2>1. CASE CleanStart \/ CleanEnd \/ PassEnd
    BY <2>1 DEF CleanStart, CleanEnd, PassEnd, ReconcileUnchanged, CatalogueInv,
      TypeOK
  <2>2. CASE Scan
    BY <2>2 DEF Scan, ReconcileUnchanged, CatalogueInv, TypeOK
  <2>3. ASSUME NEW r \in Rooms, NextOrphan(r) \/ TakeRoom(r) \/ SkipRoom(r) PROVE CatalogueInv'
    BY <2>3 DEF NextOrphan, TakeRoom, SkipRoom, ReconcileUnchanged, CatalogueInv,
      TypeOK
  <2>4. CASE Version \/ Verify \/ Get \/ Check \/ Count \/ List
    BY <2>4 DEF Version, Verify, Get, Check, Count, List, Acts, Disabled, Goes,
      ReconcileUnchanged, CatalogueInv, TypeOK
  <2>5. CASE Put
    BY <2>5 DEF Put, Acts, Executed, ReconcileUnchanged, CatalogueInv, TypeOK
  <2>6. CASE Delete
    BY <2>6 DEF Delete, Acts, Executed, ReconcileUnchanged, CatalogueInv, TypeOK
  <2>7. CASE StepFails
    BY <2>7 DEF StepFails, Goes, ReconcileUnchanged, CatalogueInv, TypeOK
  <2>8. CASE SaveResult
    BY <2>8 DEF SaveResult, ReconcileUnchanged, WorkInv, LockInv, NewState, Live,
      Operating, Disabling, Ensuring, Emptying, Outcomes, CatalogueInv, TypeOK
  <2> QED BY <1>2, <2>1, <2>2, <2>3, <2>4, <2>5, <2>6, <2>7, <2>8 DEF Reconciling
<1>3. CASE Environment
  <2>1. CASE LinkLost
    BY <2>1 DEF LinkLost, LinkUnchanged, CatalogueInv, TypeOK
  <2>2. CASE ToldDown \/ ToldUp \/ LinkRestored \/ LateDropped
    BY <2>2 DEF ToldDown, ToldUp, Told, LinkRestored, LateDropped, LinkUnchanged,
      CatalogueInv, TypeOK
  <2>3. CASE Restart
    BY <2>3 DEF Restart, CatalogueInv, TypeOK
  <2>4. ASSUME NEW w \in Writes, LateExecutes(w) PROVE CatalogueInv'
    BY <2>4 DEF LateExecutes, Executed, LinkUnchanged, CatalogueInv, TypeOK
  <2>5. ASSUME NEW n \in Numbers, EntryLost(n) PROVE CatalogueInv'
    BY <2>5 DEF EntryLost, LinkUnchanged, CatalogueInv, TypeOK
  <2> QED BY <1>3, <2>1, <2>2, <2>3, <2>4, <2>5 DEF Environment
<1>4. ASSUME NEW k \in Channels, Dialplan(k) PROVE CatalogueInv'
  BY <1>4 DEF Dialplan, HangsUp, CountsLeg, PassesLeg, ReadsTarget, Counts, Passes,
    Enters, Moves, ChannelUnchanged, CatalogueInv, TypeOK
<1>5. CASE UNCHANGED vars
  BY <1>5 DEF CatalogueInv, TypeOK
<1> QED BY <1>1, <1>2, <1>3, <1>4, <1>5 DEF Next

\* What is registered, written or still on its way for a number belongs to the
\* room that owns it: an entry is removed only where nobody needs it, and one write
\* at most is under way.
LEMMA RegistryStep == TypeOK /\ LockInv /\ WorkInv /\ CatalogueInv /\ RegistryInv /\ ClosingInv /\ [Next]_vars => RegistryInv'
<1> SUFFICES ASSUME TypeOK, LockInv, WorkInv, CatalogueInv, RegistryInv, ClosingInv, [Next]_vars PROVE RegistryInv'
  OBVIOUS
<1>a. \A r \in Rooms : <<"put", r>> \in InFlight => state[r] \in Live
  BY DEF InFlight, WorkInv, Live, Ensuring
<1>b. \A r \in Rooms : <<"del", r>> \in InFlight =>
        reg[NumberOf[r]] \in {r, NoRoom} /\ Removable(r)
  BY DEF InFlight, RegistryInv
<1>c. \A v, w \in late \cup InFlight : v = w
  BY DEF InFlight, RegistryInv
<1>1. CASE Requests
  <2>1. ASSUME NEW r \in Rooms, Create(r) PROVE RegistryInv'
    BY <2>1 DEF Create, Live, InFlight, Removable, RegistryInv, TypeOK
  <2>2. ASSUME NEW r \in Rooms, DeleteStart(r) PROVE RegistryInv'
    BY <2>2 DEF DeleteStart, InFlight, Removable, RegistryInv, TypeOK
  <2>3. ASSUME NEW k \in Channels, Admit(k) \/ Invite(k) \/ InviteEnds(k) \/ Unlist(k) PROVE RegistryInv'
    BY <2>3 DEF Admit, Invite, InviteEnds, Unlist, InFlight, Removable, RegistryInv,
      TypeOK
  <2>4. CASE DeleteCount \/ DeleteList \/ DeleteFails
    BY <2>4 DEF DeleteCount, DeleteList, DeleteFails, DeleteGoes, InFlight,
      Removable, RegistryInv, TypeOK
  <2>5. CASE DeleteCommit
    BY <2>5 DEF DeleteCommit, DeleteGoes, WorkInv, Live, InFlight, Removable,
      RegistryInv, TypeOK
  <2> QED BY <1>1, <2>1, <2>2, <2>3, <2>4, <2>5 DEF Requests
<1>2. CASE Reconciling
  <2>1. CASE CleanStart \/ CleanEnd \/ PassEnd
    BY <2>1 DEF CleanStart, CleanEnd, PassEnd, ReconcileUnchanged, InFlight,
      Removable, RegistryInv, TypeOK
  <2>2. CASE Scan
    BY <2>2 DEF Scan, ReconcileUnchanged, InFlight, Removable, RegistryInv, TypeOK
  <2>3. ASSUME NEW r \in Rooms, NextOrphan(r) \/ TakeRoom(r) \/ SkipRoom(r) PROVE RegistryInv'
    BY <2>3 DEF NextOrphan, TakeRoom, SkipRoom, ReconcileUnchanged, InFlight,
      Removable, RegistryInv, TypeOK
  <2>4. CASE Version \/ Verify \/ Get \/ Check \/ Count \/ List
    BY <2>4 DEF Version, Verify, Get, Check, Count, List, Acts, Disabled, Goes,
      ReconcileUnchanged, Answered, Registered, WorkInv, Abandoned, Live, LockInv,
      Operating, Disabling, Ensuring, Emptying, Outcomes, InFlight, Removable,
      RegistryInv, TypeOK
  <2>5. CASE Put
    BY <2>5 DEF Put, Acts, Executed, ReconcileUnchanged, WorkInv, Live, Answered,
      LockInv, Operating, Disabling, Ensuring, Emptying, Outcomes, InFlight,
      Removable, RegistryInv, TypeOK
  <2>6. CASE Delete
    BY <2>6 DEF Delete, Acts, Executed, ReconcileUnchanged, WorkInv, Answered,
      LockInv, Operating, Disabling, Ensuring, Emptying, Outcomes, InFlight,
      Removable, RegistryInv, TypeOK
  <2>7. CASE StepFails
    BY <2>7, <1>a, <1>b, <1>c DEF StepFails, Goes, ReconcileUnchanged, InFlight,
      Removable, RegistryInv, TypeOK
  <2>8. CASE SaveResult
    <3>1. room \in Rooms /\ state' = [state EXCEPT ![room] = NewState]
      BY <2>8 DEF SaveResult, LockInv, Operating
    <3>2. NewState = "deleted" => state[room] = "deleted" \/ (~Registered(room) /\ <<"put", room>> \notin late)
      BY <2>8 DEF NewState, ClosingInv
    <3>3. state[room] \in {"deleting", "deleted"} => NewState \in {"deleting", "deleted"}
      BY <2>8 DEF NewState, SaveResult, WorkInv
    <3>4. state[room] \in Live => NewState \in Live \/ NewState = "deleted"
      BY DEF NewState, Live
    <3>5. step' = "rooms" /\ UNCHANGED <<reg, late>>
      BY <2>8 DEF SaveResult
    <3> QED BY <3>1, <3>2, <3>3, <3>4, <3>5 DEF RegistryInv, Removable, Registered, Live, TypeOK
  <2> QED BY <1>2, <2>1, <2>2, <2>3, <2>4, <2>5, <2>6, <2>7, <2>8 DEF Reconciling
<1>3. CASE Environment
  <2>1. CASE LinkLost
    BY <2>1, <1>a, <1>b, <1>c DEF LinkLost, LinkUnchanged, InFlight, Removable,
      RegistryInv, TypeOK
  <2>2. CASE ToldDown \/ ToldUp \/ LinkRestored \/ LateDropped
    BY <2>2 DEF ToldDown, ToldUp, Told, LinkRestored, LateDropped, LinkUnchanged,
      InFlight, Removable, RegistryInv, TypeOK
  <2>3. CASE Restart
    <3>1. /\ late' \subseteq late \cup InFlight
          /\ step' = "idle" /\ UNCHANGED <<state, reg>>
      BY <2>3 DEF Restart
    <3> QED BY <3>1, <1>a, <1>b, <1>c DEF RegistryInv, Removable
  <2>4. ASSUME NEW w \in Writes, LateExecutes(w) PROVE RegistryInv'
    BY <2>4 DEF LateExecutes, Executed, LinkUnchanged, CatalogueInv, Live, Writes,
      InFlight, Removable, RegistryInv, TypeOK
  <2>5. ASSUME NEW n \in Numbers, EntryLost(n) PROVE RegistryInv'
    BY <2>5 DEF EntryLost, LinkUnchanged, InFlight, Removable, RegistryInv, TypeOK
  <2> QED BY <1>3, <2>1, <2>2, <2>3, <2>4, <2>5 DEF Environment
<1>4. ASSUME NEW k \in Channels, Dialplan(k) PROVE RegistryInv'
  BY <1>4 DEF Dialplan, HangsUp, CountsLeg, PassesLeg, ReadsTarget, Counts, Passes,
    Enters, Moves, ChannelUnchanged, InFlight, Removable, RegistryInv, TypeOK
<1>5. CASE UNCHANGED vars
  BY <1>5 DEF InFlight, Removable, RegistryInv, TypeOK
<1> QED BY <1>1, <1>2, <1>3, <1>4, <1>5 DEF Next

\* A room that was found disabled stays disabled until it is declared deleted.
LEMMA ClosingStep == TypeOK /\ LockInv /\ WorkInv /\ CatalogueInv /\ RegistryInv /\ ClosingInv /\ TargetInv /\ [Next]_vars => ClosingInv'
<1> SUFFICES ASSUME TypeOK, LockInv, WorkInv, CatalogueInv, RegistryInv, ClosingInv, TargetInv, [Next]_vars PROVE ClosingInv'
  OBVIOUS
<1>a. <<"put", room>> \in InFlight => step = "put"
  BY DEF InFlight
<1>1. CASE Requests
  <2>1. ASSUME NEW r \in Rooms, Create(r) PROVE ClosingInv'
    BY <2>1 DEF Create, Registered, ClosingInv, TypeOK
  <2>2. ASSUME NEW r \in Rooms, DeleteStart(r) PROVE ClosingInv'
    BY <2>2 DEF DeleteStart, Registered, ClosingInv, TypeOK
  <2>3. ASSUME NEW k \in Channels, Admit(k) \/ Invite(k) \/ InviteEnds(k) \/ Unlist(k) PROVE ClosingInv'
    BY <2>3 DEF Admit, Invite, InviteEnds, Unlist, Registered, ClosingInv, TypeOK
  <2>4. CASE DeleteCount \/ DeleteList \/ DeleteFails
    BY <2>4 DEF DeleteCount, DeleteList, DeleteFails, DeleteGoes, Registered,
      ClosingInv, TypeOK
  <2>5. CASE DeleteCommit
    BY <2>5 DEF DeleteCommit, DeleteGoes, Registered, ClosingInv, TypeOK
  <2> QED BY <1>1, <2>1, <2>2, <2>3, <2>4, <2>5 DEF Requests
<1>2. CASE Reconciling
  <2>1. CASE CleanStart \/ CleanEnd \/ PassEnd
    BY <2>1 DEF CleanStart, CleanEnd, PassEnd, ReconcileUnchanged, Operating,
      Disabling, Ensuring, Emptying, Outcomes, Registered, ClosingInv, TypeOK
  <2>2. CASE Scan
    BY <2>2 DEF Scan, ReconcileUnchanged, Operating, Disabling, Ensuring, Emptying,
      Outcomes, Registered, ClosingInv, TypeOK
  <2>3. ASSUME NEW r \in Rooms, NextOrphan(r) \/ TakeRoom(r) \/ SkipRoom(r) PROVE ClosingInv'
    BY <2>3 DEF NextOrphan, TakeRoom, SkipRoom, ReconcileUnchanged, Operating,
      Disabling, Ensuring, Emptying, Outcomes, Registered, ClosingInv, TypeOK
  <2>4. CASE Version \/ Verify \/ Get \/ Check \/ Count \/ List
    BY <2>4 DEF Version, Verify, Get, Check, Count, List, Acts, Disabled, Goes,
      ReconcileUnchanged, Answered, Counted, RegistryInv, LockInv, Operating,
      Disabling, Ensuring, Emptying, Outcomes, Registered, ClosingInv, TypeOK
  <2>5. CASE Put
    BY <2>5 DEF Put, Acts, Executed, ReconcileUnchanged, Operating, Disabling,
      Ensuring, Emptying, Outcomes, Registered, ClosingInv, TypeOK
  <2>6. CASE Delete
    BY <2>6 DEF Delete, Acts, Executed, ReconcileUnchanged, RegistryInv, Operating,
      Disabling, Ensuring, Emptying, Outcomes, Registered, ClosingInv, TypeOK
  <2>7. CASE StepFails
    BY <2>7, <1>a DEF StepFails, Goes, ReconcileUnchanged, Operating, Disabling,
      Ensuring, Emptying, Outcomes, Registered, ClosingInv, TypeOK
  <2>8. CASE SaveResult
    BY <2>8 DEF SaveResult, ReconcileUnchanged, Operating, Disabling, Ensuring,
      Emptying, Outcomes, Registered, ClosingInv, TypeOK
  <2> QED BY <1>2, <2>1, <2>2, <2>3, <2>4, <2>5, <2>6, <2>7, <2>8 DEF Reconciling
<1>3. CASE Environment
  <2>1. CASE LinkLost
    BY <2>1, <1>a DEF LinkLost, LinkUnchanged, Operating, Disabling, Ensuring,
      Emptying, Outcomes, Registered, ClosingInv, TypeOK
  <2>2. CASE ToldDown \/ ToldUp \/ LinkRestored \/ LateDropped
    BY <2>2 DEF ToldDown, ToldUp, Told, LinkRestored, LateDropped, LinkUnchanged,
      Registered, ClosingInv, TypeOK
  <2>3. CASE Restart
    BY <2>3 DEF Restart, Operating, Disabling, Ensuring, Emptying, Outcomes,
      Registered, ClosingInv, TypeOK
  <2>4. ASSUME NEW w \in Writes, LateExecutes(w) PROVE ClosingInv'
    BY <2>4 DEF LateExecutes, Executed, LinkUnchanged, LockInv, RegistryInv, Writes,
      Operating, Disabling, Ensuring, Emptying, Outcomes, Registered, ClosingInv,
      TypeOK
  <2>5. ASSUME NEW n \in Numbers, EntryLost(n) PROVE ClosingInv'
    BY <2>5 DEF EntryLost, LinkUnchanged, LockInv, Operating, Disabling, Ensuring,
      Emptying, Outcomes, Registered, ClosingInv, TypeOK
  <2> QED BY <1>3, <2>1, <2>2, <2>3, <2>4, <2>5 DEF Environment
<1>4. ASSUME NEW k \in Channels, Dialplan(k) PROVE ClosingInv'
  BY <1>4 DEF Dialplan, HangsUp, CountsLeg, PassesLeg, ReadsTarget, Counts, Passes,
    Enters, Moves, ChannelUnchanged, RegistryInv, LockInv, TargetInv, Operating,
    Disabling, Ensuring, Emptying, Outcomes, Registered, ClosingInv, TypeOK
<1>5. CASE UNCHANGED vars
  BY <1>5 DEF Registered, ClosingInv, TypeOK
<1> QED BY <1>1, <1>2, <1>3, <1>4, <1>5 DEF Next

\* The channel that passed a gate recorded the room the gate led to.
LEMMA TargetStep == TypeOK /\ LockInv /\ WorkInv /\ CatalogueInv /\ RegistryInv /\ ClosingInv /\ TargetInv /\ [Next]_vars => TargetInv'
<1> SUFFICES ASSUME TypeOK, LockInv, WorkInv, CatalogueInv, RegistryInv, ClosingInv, TargetInv, [Next]_vars PROVE TargetInv'
  OBVIOUS
<1>1. CASE Requests
  <2>1. ASSUME NEW r \in Rooms, Create(r) PROVE TargetInv'
    BY <2>1 DEF Create, TargetInv, TypeOK
  <2>2. ASSUME NEW r \in Rooms, DeleteStart(r) PROVE TargetInv'
    BY <2>2 DEF DeleteStart, TargetInv, TypeOK
  <2>3. ASSUME NEW k \in Channels, Admit(k) \/ Invite(k) \/ InviteEnds(k) \/ Unlist(k) PROVE TargetInv'
    BY <2>3 DEF Admit, Invite, InviteEnds, Unlist, TargetInv, TypeOK
  <2>4. CASE DeleteCount \/ DeleteList \/ DeleteFails
    BY <2>4 DEF DeleteCount, DeleteList, DeleteFails, DeleteGoes, TargetInv, TypeOK
  <2>5. CASE DeleteCommit
    BY <2>5 DEF DeleteCommit, DeleteGoes, TargetInv, TypeOK
  <2> QED BY <1>1, <2>1, <2>2, <2>3, <2>4, <2>5 DEF Requests
<1>2. CASE Reconciling
  <2>1. CASE CleanStart \/ CleanEnd \/ PassEnd
    BY <2>1 DEF CleanStart, CleanEnd, PassEnd, ReconcileUnchanged, TargetInv, TypeOK
  <2>2. CASE Scan
    BY <2>2 DEF Scan, ReconcileUnchanged, TargetInv, TypeOK
  <2>3. ASSUME NEW r \in Rooms, NextOrphan(r) \/ TakeRoom(r) \/ SkipRoom(r) PROVE TargetInv'
    BY <2>3 DEF NextOrphan, TakeRoom, SkipRoom, ReconcileUnchanged, TargetInv,
      TypeOK
  <2>4. CASE Version \/ Verify \/ Get \/ Check \/ Count \/ List
    BY <2>4 DEF Version, Verify, Get, Check, Count, List, Acts, Disabled, Goes,
      ReconcileUnchanged, TargetInv, TypeOK
  <2>5. CASE Put
    BY <2>5 DEF Put, Acts, Executed, ReconcileUnchanged, TargetInv, TypeOK
  <2>6. CASE Delete
    BY <2>6 DEF Delete, Acts, Executed, ReconcileUnchanged, TargetInv, TypeOK
  <2>7. CASE StepFails
    BY <2>7 DEF StepFails, Goes, ReconcileUnchanged, TargetInv, TypeOK
  <2>8. CASE SaveResult
    BY <2>8 DEF SaveResult, ReconcileUnchanged, LockInv, WorkInv, NewState, Live,
      Operating, Disabling, Ensuring, Emptying, Outcomes, TargetInv, TypeOK
  <2> QED BY <1>2, <2>1, <2>2, <2>3, <2>4, <2>5, <2>6, <2>7, <2>8 DEF Reconciling
<1>3. CASE Environment
  <2>1. CASE LinkLost
    BY <2>1 DEF LinkLost, LinkUnchanged, TargetInv, TypeOK
  <2>2. CASE ToldDown \/ ToldUp \/ LinkRestored \/ LateDropped
    BY <2>2 DEF ToldDown, ToldUp, Told, LinkRestored, LateDropped, LinkUnchanged,
      TargetInv, TypeOK
  <2>3. CASE Restart
    BY <2>3 DEF Restart, TargetInv, TypeOK
  <2>4. ASSUME NEW w \in Writes, LateExecutes(w) PROVE TargetInv'
    BY <2>4 DEF LateExecutes, Executed, LinkUnchanged, TargetInv, TypeOK
  <2>5. ASSUME NEW n \in Numbers, EntryLost(n) PROVE TargetInv'
    BY <2>5 DEF EntryLost, LinkUnchanged, TargetInv, TypeOK
  <2> QED BY <1>3, <2>1, <2>2, <2>3, <2>4, <2>5 DEF Environment
<1>4. ASSUME NEW k \in Channels, Dialplan(k) PROVE TargetInv'
  BY <1>4 DEF Dialplan, HangsUp, CountsLeg, PassesLeg, ReadsTarget, Counts, Passes,
    Enters, Moves, ChannelUnchanged, RegistryInv, Live, TargetInv, TypeOK
<1>5. CASE UNCHANGED vars
  BY <1>5 DEF TargetInv, TypeOK
<1> QED BY <1>1, <1>2, <1>3, <1>4, <1>5 DEF Next

\* A room verified on this connection is still registered.
LEMMA VerifiedStep == TypeOK /\ LockInv /\ WorkInv /\ CatalogueInv /\ RegistryInv /\ ClosingInv /\ TargetInv /\ VerifiedInv /\ [Next]_vars => VerifiedInv'
<1> SUFFICES ASSUME TypeOK, LockInv, WorkInv, CatalogueInv, RegistryInv, ClosingInv, TargetInv, VerifiedInv, [Next]_vars PROVE VerifiedInv'
  OBVIOUS
<1>1. CASE Requests
  <2>1. ASSUME NEW r \in Rooms, Create(r) PROVE VerifiedInv'
    BY <2>1 DEF Create, Connected, Registered, VerifiedInv, TypeOK
  <2>2. ASSUME NEW r \in Rooms, DeleteStart(r) PROVE VerifiedInv'
    BY <2>2 DEF DeleteStart, Connected, Registered, VerifiedInv, TypeOK
  <2>3. ASSUME NEW k \in Channels, Admit(k) \/ Invite(k) \/ InviteEnds(k) \/ Unlist(k) PROVE VerifiedInv'
    BY <2>3 DEF Admit, Invite, InviteEnds, Unlist, Connected, Registered,
      VerifiedInv, TypeOK
  <2>4. CASE DeleteCount \/ DeleteList \/ DeleteFails
    BY <2>4 DEF DeleteCount, DeleteList, DeleteFails, DeleteGoes, Connected,
      Registered, VerifiedInv, TypeOK
  <2>5. CASE DeleteCommit
    BY <2>5 DEF DeleteCommit, DeleteGoes, Connected, Registered, VerifiedInv, TypeOK
  <2> QED BY <1>1, <2>1, <2>2, <2>3, <2>4, <2>5 DEF Requests
<1>2. CASE Reconciling
  <2>1. CASE CleanStart \/ CleanEnd \/ PassEnd
    BY <2>1 DEF CleanStart, CleanEnd, PassEnd, ReconcileUnchanged, Connected,
      Registered, VerifiedInv, TypeOK
  <2>2. CASE Scan
    BY <2>2 DEF Scan, ReconcileUnchanged, Connected, Registered, VerifiedInv, TypeOK
  <2>3. ASSUME NEW r \in Rooms, NextOrphan(r) \/ TakeRoom(r) \/ SkipRoom(r) PROVE VerifiedInv'
    BY <2>3 DEF NextOrphan, TakeRoom, SkipRoom, ReconcileUnchanged, LockInv,
      Operating, Disabling, Ensuring, Emptying, Outcomes, Connected, Registered,
      VerifiedInv, TypeOK
  <2>4. CASE Version \/ Verify \/ Get \/ Check \/ Count \/ List
    BY <2>4 DEF Version, Verify, Get, Check, Count, List, Acts, Disabled, Goes,
      ReconcileUnchanged, Answered, LockInv, Operating, Disabling, Ensuring,
      Emptying, Outcomes, Connected, Registered, VerifiedInv, TypeOK
  <2>5. CASE Put
    BY <2>5 DEF Put, Acts, Executed, ReconcileUnchanged, Connected, Registered,
      VerifiedInv, TypeOK
  <2>6. CASE Delete
    BY <2>6 DEF Delete, Acts, Executed, ReconcileUnchanged, Connected, Registered,
      VerifiedInv, TypeOK
  <2>7. CASE StepFails
    BY <2>7 DEF StepFails, Goes, ReconcileUnchanged, Operating, Disabling, Ensuring,
      Emptying, Outcomes, InFlight, Connected, Registered, VerifiedInv, TypeOK
  <2>8. CASE SaveResult
    BY <2>8 DEF SaveResult, ReconcileUnchanged, SameSession, Connected, Registered,
      VerifiedInv, TypeOK
  <2> QED BY <1>2, <2>1, <2>2, <2>3, <2>4, <2>5, <2>6, <2>7, <2>8 DEF Reconciling
<1>3. CASE Environment
  <2>1. CASE LinkLost
    BY <2>1 DEF LinkLost, LinkUnchanged, InFlight, Connected, Registered,
      VerifiedInv, TypeOK
  <2>2. CASE ToldDown \/ ToldUp \/ LinkRestored \/ LateDropped
    BY <2>2 DEF ToldDown, ToldUp, Told, LinkRestored, LateDropped, LinkUnchanged,
      LockInv, Operating, Disabling, Ensuring, Emptying, Outcomes, Connected,
      Registered, VerifiedInv, TypeOK
  <2>3. CASE Restart
    BY <2>3 DEF Restart, Connected, Registered, VerifiedInv, TypeOK
  <2>4. ASSUME NEW w \in Writes, LateExecutes(w) PROVE VerifiedInv'
    BY <2>4 DEF LateExecutes, Executed, LinkUnchanged, Connected, Registered,
      VerifiedInv, TypeOK
  <2>5. ASSUME NEW n \in Numbers, EntryLost(n) PROVE VerifiedInv'
    BY <2>5 DEF EntryLost, LinkUnchanged, Connected, Registered, VerifiedInv, TypeOK
  <2> QED BY <1>3, <2>1, <2>2, <2>3, <2>4, <2>5 DEF Environment
<1>4. ASSUME NEW k \in Channels, Dialplan(k) PROVE VerifiedInv'
  BY <1>4 DEF Dialplan, HangsUp, CountsLeg, PassesLeg, ReadsTarget, Counts, Passes,
    Enters, Moves, ChannelUnchanged, Connected, Registered, VerifiedInv, TypeOK
<1>5. CASE UNCHANGED vars
  BY <1>5 DEF Connected, Registered, VerifiedInv, TypeOK
<1> QED BY <1>1, <1>2, <1>3, <1>4, <1>5 DEF Next

\* A room does not change state under a call being made.
LEMMA InvitingStep == TypeOK /\ LockInv /\ WorkInv /\ CatalogueInv /\ RoomStaysWhileInviting /\ [Next]_vars => RoomStaysWhileInviting'
<1> SUFFICES ASSUME TypeOK, LockInv, WorkInv, CatalogueInv, RoomStaysWhileInviting, [Next]_vars PROVE RoomStaysWhileInviting'
  OBVIOUS
<1>1. CASE Requests
  <2>1. ASSUME NEW r \in Rooms, Create(r) PROVE RoomStaysWhileInviting'
    BY <2>1 DEF Create, LockInv, RoomStaysWhileInviting, TypeOK
  <2>2. ASSUME NEW r \in Rooms, DeleteStart(r) PROVE RoomStaysWhileInviting'
    BY <2>2 DEF DeleteStart, RoomStaysWhileInviting, TypeOK
  <2>3. ASSUME NEW k \in Channels, Admit(k) \/ Invite(k) \/ InviteEnds(k) \/ Unlist(k) PROVE RoomStaysWhileInviting'
    BY <2>3 DEF Admit, Invite, InviteEnds, Unlist, Ready, RoomStaysWhileInviting,
      TypeOK
  <2>4. CASE DeleteCount \/ DeleteList \/ DeleteFails
    BY <2>4 DEF DeleteCount, DeleteList, DeleteFails, DeleteGoes,
      RoomStaysWhileInviting, TypeOK
  <2>5. CASE DeleteCommit
    BY <2>5 DEF DeleteCommit, DeleteGoes, LockInv, RoomStaysWhileInviting, TypeOK
  <2> QED BY <1>1, <2>1, <2>2, <2>3, <2>4, <2>5 DEF Requests
<1>2. CASE Reconciling
  <2>1. CASE CleanStart \/ CleanEnd \/ PassEnd
    BY <2>1 DEF CleanStart, CleanEnd, PassEnd, ReconcileUnchanged,
      RoomStaysWhileInviting, TypeOK
  <2>2. CASE Scan
    BY <2>2 DEF Scan, ReconcileUnchanged, RoomStaysWhileInviting, TypeOK
  <2>3. ASSUME NEW r \in Rooms, NextOrphan(r) \/ TakeRoom(r) \/ SkipRoom(r) PROVE RoomStaysWhileInviting'
    BY <2>3 DEF NextOrphan, TakeRoom, SkipRoom, ReconcileUnchanged,
      RoomStaysWhileInviting, TypeOK
  <2>4. CASE Version \/ Verify \/ Get \/ Check \/ Count \/ List
    BY <2>4 DEF Version, Verify, Get, Check, Count, List, Acts, Disabled, Goes,
      ReconcileUnchanged, RoomStaysWhileInviting, TypeOK
  <2>5. CASE Put
    BY <2>5 DEF Put, Acts, Executed, ReconcileUnchanged, RoomStaysWhileInviting,
      TypeOK
  <2>6. CASE Delete
    BY <2>6 DEF Delete, Acts, Executed, ReconcileUnchanged, RoomStaysWhileInviting,
      TypeOK
  <2>7. CASE StepFails
    BY <2>7 DEF StepFails, Goes, ReconcileUnchanged, RoomStaysWhileInviting, TypeOK
  <2>8. CASE SaveResult
    BY <2>8 DEF SaveResult, ReconcileUnchanged, LockInv, Operating, Disabling,
      Ensuring, Emptying, Outcomes, RoomStaysWhileInviting, TypeOK
  <2> QED BY <1>2, <2>1, <2>2, <2>3, <2>4, <2>5, <2>6, <2>7, <2>8 DEF Reconciling
<1>3. CASE Environment
  <2>1. CASE LinkLost
    BY <2>1 DEF LinkLost, LinkUnchanged, RoomStaysWhileInviting, TypeOK
  <2>2. CASE ToldDown \/ ToldUp \/ LinkRestored \/ LateDropped
    BY <2>2 DEF ToldDown, ToldUp, Told, LinkRestored, LateDropped, LinkUnchanged,
      RoomStaysWhileInviting, TypeOK
  <2>3. CASE Restart
    BY <2>3 DEF Restart, RoomStaysWhileInviting, TypeOK
  <2>4. ASSUME NEW w \in Writes, LateExecutes(w) PROVE RoomStaysWhileInviting'
    BY <2>4 DEF LateExecutes, Executed, LinkUnchanged, RoomStaysWhileInviting,
      TypeOK
  <2>5. ASSUME NEW n \in Numbers, EntryLost(n) PROVE RoomStaysWhileInviting'
    BY <2>5 DEF EntryLost, LinkUnchanged, RoomStaysWhileInviting, TypeOK
  <2> QED BY <1>3, <2>1, <2>2, <2>3, <2>4, <2>5 DEF Environment
<1>4. ASSUME NEW k \in Channels, Dialplan(k) PROVE RoomStaysWhileInviting'
  BY <1>4 DEF Dialplan, HangsUp, CountsLeg, PassesLeg, ReadsTarget, Counts, Passes,
    Enters, Moves, ChannelUnchanged, RoomStaysWhileInviting, TypeOK
<1>5. CASE UNCHANGED vars
  BY <1>5 DEF RoomStaysWhileInviting, TypeOK
<1> QED BY <1>1, <1>2, <1>3, <1>4, <1>5 DEF Next

\* Whoever reaches the bridge of a room keeps it from being declared deleted.
LEMMA EmptyStep == TypeOK /\ LockInv /\ WorkInv /\ CatalogueInv /\ RegistryInv /\ ClosingInv /\ TargetInv /\ DeletedIsEmpty /\ [Next]_vars => DeletedIsEmpty'
<1> SUFFICES ASSUME TypeOK, LockInv, WorkInv, CatalogueInv, RegistryInv, ClosingInv, TargetInv, DeletedIsEmpty, [Next]_vars PROVE DeletedIsEmpty'
  OBVIOUS
<1>1. CASE Requests
  <2>1. ASSUME NEW r \in Rooms, Create(r) PROVE DeletedIsEmpty'
    BY <2>1 DEF Create, Live, DeletedIsEmpty, TypeOK
  <2>2. ASSUME NEW r \in Rooms, DeleteStart(r) PROVE DeletedIsEmpty'
    BY <2>2 DEF DeleteStart, DeletedIsEmpty, TypeOK
  <2>3. ASSUME NEW k \in Channels, Admit(k) \/ Invite(k) \/ InviteEnds(k) \/ Unlist(k) PROVE DeletedIsEmpty'
    BY <2>3 DEF Admit, Invite, InviteEnds, Unlist, DeletedIsEmpty, TypeOK
  <2>4. CASE DeleteCount \/ DeleteList \/ DeleteFails
    BY <2>4 DEF DeleteCount, DeleteList, DeleteFails, DeleteGoes, DeletedIsEmpty,
      TypeOK
  <2>5. CASE DeleteCommit
    BY <2>5 DEF DeleteCommit, DeleteGoes, DeletedIsEmpty, TypeOK
  <2> QED BY <1>1, <2>1, <2>2, <2>3, <2>4, <2>5 DEF Requests
<1>2. CASE Reconciling
  <2>1. CASE CleanStart \/ CleanEnd \/ PassEnd
    BY <2>1 DEF CleanStart, CleanEnd, PassEnd, ReconcileUnchanged, DeletedIsEmpty,
      TypeOK
  <2>2. CASE Scan
    BY <2>2 DEF Scan, ReconcileUnchanged, DeletedIsEmpty, TypeOK
  <2>3. ASSUME NEW r \in Rooms, NextOrphan(r) \/ TakeRoom(r) \/ SkipRoom(r) PROVE DeletedIsEmpty'
    BY <2>3 DEF NextOrphan, TakeRoom, SkipRoom, ReconcileUnchanged, DeletedIsEmpty,
      TypeOK
  <2>4. CASE Version \/ Verify \/ Get \/ Check \/ Count \/ List
    BY <2>4 DEF Version, Verify, Get, Check, Count, List, Acts, Disabled, Goes,
      ReconcileUnchanged, DeletedIsEmpty, TypeOK
  <2>5. CASE Put
    BY <2>5 DEF Put, Acts, Executed, ReconcileUnchanged, DeletedIsEmpty, TypeOK
  <2>6. CASE Delete
    BY <2>6 DEF Delete, Acts, Executed, ReconcileUnchanged, DeletedIsEmpty, TypeOK
  <2>7. CASE StepFails
    BY <2>7 DEF StepFails, Goes, ReconcileUnchanged, DeletedIsEmpty, TypeOK
  <2>8. CASE SaveResult
    BY <2>8 DEF SaveResult, ReconcileUnchanged, LockInv, ClosingInv, NewState,
      Operating, Disabling, Ensuring, Emptying, Outcomes, DeletedIsEmpty, TypeOK
  <2> QED BY <1>2, <2>1, <2>2, <2>3, <2>4, <2>5, <2>6, <2>7, <2>8 DEF Reconciling
<1>3. CASE Environment
  <2>1. CASE LinkLost
    BY <2>1 DEF LinkLost, LinkUnchanged, DeletedIsEmpty, TypeOK
  <2>2. CASE ToldDown \/ ToldUp \/ LinkRestored \/ LateDropped
    BY <2>2 DEF ToldDown, ToldUp, Told, LinkRestored, LateDropped, LinkUnchanged,
      DeletedIsEmpty, TypeOK
  <2>3. CASE Restart
    BY <2>3 DEF Restart, DeletedIsEmpty, TypeOK
  <2>4. ASSUME NEW w \in Writes, LateExecutes(w) PROVE DeletedIsEmpty'
    BY <2>4 DEF LateExecutes, Executed, LinkUnchanged, DeletedIsEmpty, TypeOK
  <2>5. ASSUME NEW n \in Numbers, EntryLost(n) PROVE DeletedIsEmpty'
    BY <2>5 DEF EntryLost, LinkUnchanged, DeletedIsEmpty, TypeOK
  <2> QED BY <1>3, <2>1, <2>2, <2>3, <2>4, <2>5 DEF Environment
<1>4. ASSUME NEW k \in Channels, Dialplan(k) PROVE DeletedIsEmpty'
  BY <1>4 DEF Dialplan, HangsUp, CountsLeg, PassesLeg, ReadsTarget, Counts, Passes,
    Enters, Moves, ChannelUnchanged, RegistryInv, Live, CatalogueInv, DeletedIsEmpty,
    TypeOK
<1>5. CASE UNCHANGED vars
  BY <1>5 DEF DeletedIsEmpty, TypeOK
<1> QED BY <1>1, <1>2, <1>3, <1>4, <1>5 DEF Next

\* A room is ready only when Ensure has found its number registered.
LEMMA ReadyStep == TypeOK /\ LockInv /\ WorkInv /\ CatalogueInv /\ RegistryInv /\ ClosingInv /\ TargetInv /\ VerifiedInv /\ ReadyMeansRegistered /\ [Next]_vars => ReadyMeansRegistered'
<1> SUFFICES ASSUME TypeOK, LockInv, WorkInv, CatalogueInv, RegistryInv, ClosingInv, TargetInv, VerifiedInv, ReadyMeansRegistered, [Next]_vars PROVE ReadyMeansRegistered'
  OBVIOUS
<1>1. CASE Requests
  <2>1. ASSUME NEW r \in Rooms, Create(r) PROVE ReadyMeansRegistered'
    BY <2>1 DEF Create, Connected, Ready, Registered, ReadyMeansRegistered, TypeOK
  <2>2. ASSUME NEW r \in Rooms, DeleteStart(r) PROVE ReadyMeansRegistered'
    BY <2>2 DEF DeleteStart, Connected, Ready, Registered, ReadyMeansRegistered,
      TypeOK
  <2>3. ASSUME NEW k \in Channels, Admit(k) \/ Invite(k) \/ InviteEnds(k) \/ Unlist(k) PROVE ReadyMeansRegistered'
    BY <2>3 DEF Admit, Invite, InviteEnds, Unlist, Connected, Ready, Registered,
      ReadyMeansRegistered, TypeOK
  <2>4. CASE DeleteCount \/ DeleteList \/ DeleteFails
    BY <2>4 DEF DeleteCount, DeleteList, DeleteFails, DeleteGoes, Connected, Ready,
      Registered, ReadyMeansRegistered, TypeOK
  <2>5. CASE DeleteCommit
    BY <2>5 DEF DeleteCommit, DeleteGoes, Connected, Ready, Registered,
      ReadyMeansRegistered, TypeOK
  <2> QED BY <1>1, <2>1, <2>2, <2>3, <2>4, <2>5 DEF Requests
<1>2. CASE Reconciling
  <2>1. CASE CleanStart \/ CleanEnd \/ PassEnd
    BY <2>1 DEF CleanStart, CleanEnd, PassEnd, ReconcileUnchanged, Connected, Ready,
      Registered, ReadyMeansRegistered, TypeOK
  <2>2. CASE Scan
    BY <2>2 DEF Scan, ReconcileUnchanged, Connected, Ready, Registered,
      ReadyMeansRegistered, TypeOK
  <2>3. ASSUME NEW r \in Rooms, NextOrphan(r) \/ TakeRoom(r) \/ SkipRoom(r) PROVE ReadyMeansRegistered'
    BY <2>3 DEF NextOrphan, TakeRoom, SkipRoom, ReconcileUnchanged, Connected,
      Ready, Registered, ReadyMeansRegistered, TypeOK
  <2>4. CASE Version \/ Verify \/ Get \/ Check \/ Count \/ List
    BY <2>4 DEF Version, Verify, Get, Check, Count, List, Acts, Disabled, Goes,
      ReconcileUnchanged, Connected, Ready, Registered, ReadyMeansRegistered, TypeOK
  <2>5. CASE Put
    BY <2>5 DEF Put, Acts, Executed, ReconcileUnchanged, CatalogueInv, WorkInv,
      LockInv, Live, Operating, Disabling, Ensuring, Emptying, Outcomes, Connected,
      Ready, Registered, ReadyMeansRegistered, TypeOK
  <2>6. CASE Delete
    BY <2>6 DEF Delete, Acts, Executed, ReconcileUnchanged, CatalogueInv,
      RegistryInv, Removable, Connected, Ready, Registered, ReadyMeansRegistered,
      TypeOK
  <2>7. CASE StepFails
    BY <2>7 DEF StepFails, Goes, ReconcileUnchanged, Connected, Ready, Registered,
      ReadyMeansRegistered, TypeOK
  <2>8. CASE SaveResult
    BY <2>8 DEF SaveResult, ReconcileUnchanged, LockInv, VerifiedInv, WorkInv,
      NewState, SameSession, Operating, Disabling, Ensuring, Emptying, Outcomes,
      Connected, Ready, Registered, ReadyMeansRegistered, TypeOK
  <2> QED BY <1>2, <2>1, <2>2, <2>3, <2>4, <2>5, <2>6, <2>7, <2>8 DEF Reconciling
<1>3. CASE Environment
  <2>1. CASE LinkLost
    BY <2>1 DEF LinkLost, LinkUnchanged, Connected, Ready, Registered,
      ReadyMeansRegistered, TypeOK
  <2>2. CASE ToldDown \/ ToldUp \/ LinkRestored \/ LateDropped
    BY <2>2 DEF ToldDown, ToldUp, Told, LinkRestored, LateDropped, LinkUnchanged,
      VerifiedInv, Connected, Ready, Registered, ReadyMeansRegistered, TypeOK
  <2>3. CASE Restart
    BY <2>3 DEF Restart, Connected, Ready, Registered, ReadyMeansRegistered, TypeOK
  <2>4. ASSUME NEW w \in Writes, LateExecutes(w) PROVE ReadyMeansRegistered'
    BY <2>4 DEF LateExecutes, Executed, LinkUnchanged, Writes, RegistryInv,
      CatalogueInv, Live, Removable, Connected, Ready, Registered,
      ReadyMeansRegistered, TypeOK
  <2>5. ASSUME NEW n \in Numbers, EntryLost(n) PROVE ReadyMeansRegistered'
    BY <2>5 DEF EntryLost, LinkUnchanged, Connected, Ready, Registered,
      ReadyMeansRegistered, TypeOK
  <2> QED BY <1>3, <2>1, <2>2, <2>3, <2>4, <2>5 DEF Environment
<1>4. ASSUME NEW k \in Channels, Dialplan(k) PROVE ReadyMeansRegistered'
  BY <1>4 DEF Dialplan, HangsUp, CountsLeg, PassesLeg, ReadsTarget, Counts, Passes,
    Enters, Moves, ChannelUnchanged, Connected, Ready, Registered,
    ReadyMeansRegistered, TypeOK
<1>5. CASE UNCHANGED vars
  BY <1>5 DEF Connected, Ready, Registered, ReadyMeansRegistered, TypeOK
<1> QED BY <1>1, <1>2, <1>3, <1>4, <1>5 DEF Next

\* The invariant holds when the program starts.
LEMMA InductiveInit == Init => Inductive
<1> SUFFICES ASSUME Init PROVE Inductive
  OBVIOUS
<1>1. TypeOK
  <2>1. reg \in [Numbers -> Rooms \cup {NoRoom}]
    BY DEF Init
  <2>2. state \in [Rooms -> States] /\ at \in [Channels -> ChannelSteps]
    BY DEF Init, States, ChannelSteps
  <2>3. step \in Steps /\ faults \in 0..MaxFaults
    BY DEF Init, Steps
  <2> QED BY <2>1, <2>2, <2>3 DEF Init, TypeOK
<1>2. RegistryInv
  BY DEF Init, RegistryInv, InFlight
<1> QED BY <1>1, <1>2 DEF Init, Inductive, LockInv, WorkInv, CatalogueInv, ClosingInv, TargetInv,
      VerifiedInv, RoomStaysWhileInviting, DeletedIsEmpty, ReadyMeansRegistered, Ready,
      Connected, Live, Operating, Disabling, Ensuring, Emptying, Outcomes

\* Every step preserves the whole invariant.
LEMMA InductiveStep == Inductive /\ [Next]_vars => Inductive'
  BY TypeStep, LockStep, WorkStep, CatalogueStep, RegistryStep, ClosingStep, TargetStep,
     VerifiedStep, InvitingStep, EmptyStep, ReadyStep
  DEF Inductive

\* Every reachable state satisfies the whole invariant, however many rooms,
\* numbers, channels and faults there are.
THEOREM Invariance == Spec => []Inductive
<1>1. Init => Inductive
  BY InductiveInit
<1>2. Inductive /\ [Next]_vars => Inductive'
  BY InductiveStep
<1> QED BY <1>1, <1>2, PTL DEF Spec

\* The variables of the catalogue, the registry, the link and the channels keep
\* their types.
THEOREM TypeCorrect == Spec => []TypeOK
  BY Invariance, PTL DEF Inductive

\* A room that reconcile declared deleted has nobody in its bridge and nobody
\* past the dialplan's last gate.
THEOREM DeletedRoomsAreEmpty == Spec => []DeletedIsEmpty
  BY Invariance, PTL DEF Inductive

\* A number is free for a new room only when the old one cannot come back.
THEOREM DeletedRoomsAreUnreachable == Spec => []DeletedIsUnreachable
<1>1. Inductive => DeletedIsUnreachable
  BY DEF Inductive, TypeOK, RegistryInv, CatalogueInv, DeletedIsUnreachable, Registered, Live
<1> QED BY <1>1, Invariance, PTL

\* A room is offered for calls only while its number leads to it.
THEOREM ReadyRoomsAreRegistered == Spec => []ReadyMeansRegistered
  BY Invariance, PTL DEF Inductive

\* No deletion begins and no failure is recorded under a call being made.
THEOREM RoomsStayWhileInviting == Spec => []RoomStaysWhileInviting
  BY Invariance, PTL DEF Inductive

\* Registration changes in three steps of the manager and one of Asterisk; none of
\* them takes the number of a live room.
THEOREM NumbersAreKept == Spec => NumberIsKept
<1> DEFINE Kept(r) == Connected /\ Registered(r) /\ state[r] \in {"pending", "ready"}
                      => Registered(r)'
<1>1. ASSUME Inductive, [Next]_vars, NEW r \in Rooms PROVE Kept(r)
  <2> USE <1>1 DEF Inductive, TypeOK, Registered
  <2>1. CASE reg' = reg
    BY <2>1
  <2>2. CASE Put
    BY <2>2 DEF Put, Acts, Executed, LockInv, WorkInv, CatalogueInv, Live, Operating, Ensuring
  <2>3. CASE Delete
    BY <2>3 DEF Delete, Acts, Executed, LockInv, RegistryInv, CatalogueInv, Removable,
      Operating, Disabling
  <2>4. ASSUME NEW w \in Writes, LateExecutes(w) PROVE Kept(r)
    BY <2>4 DEF LateExecutes, Executed, Writes, RegistryInv, CatalogueInv, Removable, Live
  <2>5. ASSUME NEW n \in Numbers, EntryLost(n) PROVE Kept(r)
    BY <2>5 DEF EntryLost, Connected
  <2>6. CASE Requests
    BY <2>1, <2>6 DEF Requests, Create, DeleteStart, Admit, Invite, InviteEnds, Unlist,
      DeleteCount, DeleteList, DeleteCommit, DeleteFails, DeleteGoes
  <2>7. CASE Reconciling
    BY <2>1, <2>2, <2>3, <2>7 DEF Reconciling, CleanStart, Scan, NextOrphan, CleanEnd,
      TakeRoom, SkipRoom, PassEnd, Version, Verify, Get, Check, Count, List, StepFails, SaveResult
  <2>8. CASE Environment
    BY <2>1, <2>4, <2>5, <2>8 DEF Environment, LinkLost, ToldDown, ToldUp, Told, LinkRestored,
      LateDropped, Restart
  <2>9. ASSUME NEW k \in Channels, Dialplan(k) PROVE Kept(r)
    BY <2>1, <2>9 DEF Dialplan, HangsUp, CountsLeg, PassesLeg, ReadsTarget, Counts, Passes,
      Enters, Moves, ChannelUnchanged
  <2>10. CASE UNCHANGED vars
    BY <2>1, <2>10
  <2> QED BY <2>6, <2>7, <2>8, <2>9, <2>10 DEF Next
<1>2. Inductive /\ [Next]_vars => [\A r \in Rooms : Kept(r)]_vars
  BY <1>1
<1> QED BY <1>2, Invariance, PTL DEF Spec, NumberIsKept

\* Every step of the detailed system is a step of RoomAccess, or changes nothing
\* that RoomAccess sees.
LEMMA RefinementStep ==
  Inductive /\ [Next]_vars => [Abstract!Next]_<<Access, Inside>>
<1> SUFFICES ASSUME Inductive, [Next]_vars
             PROVE  Abstract!Next \/ UNCHANGED <<Access, Inside>>
  OBVIOUS
<1> USE DEF Inductive, TypeOK
<1>1. CASE UNCHANGED <<state, at, target>>
  BY <1>1 DEF Access, Inside
<1>2. ASSUME NEW r \in Rooms, Create(r) PROVE Abstract!Open(r)
  BY <1>2 DEF Create, Access, Inside, Abstract!Open
<1>3. CASE DeleteCommit
  <2>1. Abstract!Close(delRoom)
    BY <1>3 DEF DeleteCommit, DeleteGoes, WorkInv, Access, Inside, Abstract!Close
  <2> QED BY <1>3, <2>1 DEF DeleteCommit, WorkInv, Abstract!Next
<1>4. CASE SaveResult
  <2>1. room \in Rooms /\ state' = [state EXCEPT ![room] = NewState] /\ UNCHANGED <<at, target>>
    BY <1>4 DEF SaveResult, ReconcileUnchanged, LockInv, Operating
  <2>2. CASE step = "empty"
    <3>1. Access[room] = "closing" /\ Access' = [Access EXCEPT ![room] = "closed"]
      BY <2>1, <2>2 DEF Access, NewState, WorkInv
    <3>2. \A k \in Channels : Inside[k] # room
      BY <2>1, <2>2 DEF Inside, ClosingInv
    <3> QED BY <2>1, <3>1, <3>2 DEF Inside, Abstract!Next, Abstract!Finish
  <2>3. CASE step # "empty"
    BY <1>4, <2>1, <2>3 DEF SaveResult, NewState, WorkInv, Access, Inside, Outcomes
  <2> QED BY <2>2, <2>3
<1>5. ASSUME NEW k \in Channels, HangsUp(k) PROVE Abstract!Leave(k) \/ UNCHANGED <<Access, Inside>>
  BY <1>5, ZenonT(60) DEF HangsUp, ChannelUnchanged, Access, Inside, Abstract!Leave
<1>6. ASSUME NEW k \in Channels, Enters(k)
      PROVE  Abstract!Enter(k, target[k]) \/ UNCHANGED <<Access, Inside>>
  <2>1. target[k] \in Rooms /\ (target[k] \in Foreign \/ state[target[k]] \notin {"none", "deleted"})
    BY <1>6 DEF Enters, Moves, TargetInv, DeletedIsEmpty
  <2>2. UNCHANGED Access
    BY <1>6 DEF Enters, Moves, ChannelUnchanged, Access
  <2>3. CASE target[k] \in Foreign
    BY <1>6, <2>2, <2>3 DEF Enters, Moves, ChannelUnchanged, Inside
  <2>4. CASE target[k] \notin Foreign
    <3>1. Inside[k] = NoRoom /\ Inside' = [Inside EXCEPT ![k] = target[k]]
      BY <1>6, <2>4 DEF Enters, Moves, Inside
    <3>2. Access[target[k]] \in {"open", "closing"}
      BY <2>1, <2>4 DEF Access, States, Live
    <3> QED BY <2>2, <3>1, <3>2 DEF Abstract!Enter
  <2> QED BY <2>3, <2>4
<1>7. ASSUME NEW k \in Channels,
             CountsLeg(k) \/ PassesLeg(k) \/ ReadsTarget(k) \/ Counts(k) \/ Passes(k)
      PROVE  UNCHANGED <<Access, Inside>>
  BY <1>7 DEF CountsLeg, PassesLeg, ReadsTarget, Counts, Passes, Moves, ChannelUnchanged, Access, Inside
<1>8. ASSUME NEW k \in Channels, Invite(k) PROVE UNCHANGED <<Access, Inside>>
  BY <1>8 DEF Invite, Access, Inside
<1>9. CASE Requests
  BY <1>1, <1>2, <1>3, <1>8, <1>9 DEF Requests, DeleteStart, Admit, InviteEnds, Unlist, DeleteCount,
    DeleteList, DeleteFails, DeleteGoes, Abstract!Next
<1>10. CASE Reconciling
  BY <1>1, <1>4, <1>10 DEF Reconciling, CleanStart, Scan, NextOrphan, CleanEnd, TakeRoom, SkipRoom,
    PassEnd, Version, Put, Verify, Get, Delete, Check, Count, List, Acts, StepFails, ReconcileUnchanged
<1>11. CASE Environment
  BY <1>1, <1>11 DEF Environment, LinkLost, ToldDown, ToldUp, Told, LinkRestored, LateDropped,
    Restart, LateExecutes, EntryLost, LinkUnchanged
<1>12. ASSUME NEW k \in Channels, Dialplan(k) PROVE Abstract!Next \/ UNCHANGED <<Access, Inside>>
  <2>1. CASE Enters(k)
    BY <1>6, <2>1 DEF Enters, Moves, TargetInv, Abstract!Next
  <2> QED BY <1>5, <1>7, <1>12, <2>1 DEF Dialplan, Abstract!Next
<1> QED BY <1>1, <1>9, <1>10, <1>11, <1>12 DEF Next

\* The catalogue, the registry and the dialplan together keep the promise of
\* RoomAccess.
THEOREM RoomsKeepTheirPromise == Spec => ImplementsRoomAccess
<1>1. Init => Abstract!Init
  BY DEF Init, Abstract!Init, Access, Inside
<1>2. Inductive /\ [Next]_vars => [Abstract!Next]_<<Access, Inside>>
  BY RefinementStep
<1> QED BY <1>1, <1>2, Invariance, PTL DEF Spec, ImplementsRoomAccess, Abstract!Spec

=============================================================================
