\* One browser, three changes of the conference, a channel of one payload.
SPECIFICATION FairSpec
CONSTANTS
  b1 = b1
  u1 = u1
  Browsers = {b1}
  Users = {u1}
  UserOf <- SameUser
  BufferSize = 1
  MaxVersion = 3
  MaxChanges = 1
CHECK_DEADLOCK FALSE
INVARIANTS
  TypeOK
  AccessIsHeld
  SubscribersHaveTheLatest
  UnservedIsTold
PROPERTIES
  SnapshotsMoveForward
  EverySocketCatchesUp
  RevokedSocketsClose
  ClosedServerIsLeft
