------------------------------- MODULE CallBoard -------------------------------
(***************************************************************************)
(* What the rows of outgoing calls promise to the people who watch them,   *)
(* whatever events, replies and connections are lost: the abstract         *)
(* specification of the life of a row, which transitionCall in             *)
(* internal/conference/call_model.go, the commands of calls.go and the     *)
(* roster reconciliation of service.go implement together.                 *)
(***************************************************************************)
CONSTANTS Calls

VARIABLES board   \* the stage of every call

\* expiring: being hung up because its deadline passed; over: no longer listed.
Stages == {"none", "dialing", "cancelling", "expiring", "connected", "failed", "over"}

\* A dialing row never just disappears: it connects, fails or is hung up.  What a
\* user cancels is not seen again.  What expires is shown as failed before it can
\* go.  A failed row goes when it is dismissed or replaced, and only a join
\* brings it back.
Moves ==
  {<<"none", "dialing">>,
   <<"dialing", "connected">>, <<"dialing", "failed">>,
   <<"dialing", "cancelling">>, <<"dialing", "expiring">>,
   <<"connected", "cancelling">>, <<"connected", "over">>,
   <<"cancelling", "over">>,
   <<"expiring", "failed">>,
   <<"failed", "connected">>, <<"failed", "over">>}

Init == board \in [Calls -> {"none", "over"}]

\* A roster settles several calls at once; everything else settles one.
Next == /\ board' \in [Calls -> Stages]
        /\ \A c \in Calls : board'[c] = board[c] \/ <<board[c], board'[c]>> \in Moves

Spec == Init /\ [][Next]_board
=============================================================================
