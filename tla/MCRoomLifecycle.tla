--------------------------- MODULE MCRoomLifecycle ---------------------------
EXTENDS RoomLifecycle, TLC

CONSTANTS r1, old, in1, out1, n1

\* A room and a leftover entry with its number; a caller, and a call made for
\* the room.
OneNumber == [r \in {r1, old} |-> n1]
FirstRoom == [k \in {in1, out1} |-> IF k = out1 THEN r1 ELSE NoRoom]
AllDialN1 == [k \in {in1, out1} |-> n1]
=============================================================================
