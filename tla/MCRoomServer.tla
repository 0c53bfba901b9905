---------------------------- MODULE MCRoomServer ----------------------------
EXTENDS RoomServer, TLC

CONSTANTS b1, u1

SameUser == [b \in Browsers |-> u1]
=============================================================================
