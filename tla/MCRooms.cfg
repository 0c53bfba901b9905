\* One room and a leftover entry with its number, a caller and a call, under
\* fairness; two faults at any moment: the link, an action, the process or the
\* registry.
SPECIFICATION FairSpec
CONSTANTS
  r1 = r1
  old = old
  in1 = in1
  out1 = out1
  n1 = n1
  NoRoom = NoRoom
  Rooms = {r1, old}
  Foreign = {old}
  Numbers = {n1}
  NumberOf <- OneNumber
  Channels = {in1, out1}
  CallRoom <- FirstRoom
  Dialled <- AllDialN1
  MaxFaults = 2
INVARIANTS
  DeletedIsEmpty
  DeletedIsUnreachable
  ReadyMeansRegistered
  RoomStaysWhileInviting
PROPERTIES
  NumberIsKept
  ImplementsRoomAccess
  DeletionCompletes
  RoomsBecomeReady
  RegistryIsCleaned
