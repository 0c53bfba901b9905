------------------------------ MODULE RoomAccess ------------------------------
(***************************************************************************)
(* What the administrator is promised about a conference room, and all a   *)
(* caller may rely on: a room opens, is closed, and is over only when      *)
(* nobody is left in it; nobody enters a room that is over.  RoomLifecycle *)
(* implements it with three parties that share no lock: the database, the  *)
(* registry of Asterisk and the dialplan of every channel.                 *)
(***************************************************************************)
CONSTANTS Rooms, NoRoom, Channels

VARIABLES
  access,     \* what may still happen to each room
  inside      \* the room each channel is in, or NoRoom

Init == /\ access = [r \in Rooms |-> "none"]
        /\ inside = [k \in Channels |-> NoRoom]

Open(r) == /\ access[r] = "none"
           /\ access' = [access EXCEPT ![r] = "open"] /\ UNCHANGED inside

Close(r) == /\ access[r] = "open"
            /\ access' = [access EXCEPT ![r] = "closing"] /\ UNCHANGED inside

Finish(r) == /\ access[r] = "closing" /\ \A k \in Channels : inside[k] # r
             /\ access' = [access EXCEPT ![r] = "closed"] /\ UNCHANGED inside

\* A channel the dialplan let through before the gate closed may still enter.
Enter(k, r) == /\ inside[k] = NoRoom /\ access[r] \in {"open", "closing"}
               /\ inside' = [inside EXCEPT ![k] = r] /\ UNCHANGED access

Leave(k) == /\ inside[k] # NoRoom
            /\ inside' = [inside EXCEPT ![k] = NoRoom] /\ UNCHANGED access

Next == \/ \E r \in Rooms : Open(r) \/ Close(r) \/ Finish(r)
        \/ \E k \in Channels : Leave(k) \/ \E r \in Rooms : Enter(k, r)

Spec == Init /\ [][Next]_<<access, inside>>
=============================================================================
