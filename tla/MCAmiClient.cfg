\* An Originate and a list with up to one item share a connection; queues of
\* one packet.
SPECIFICATION FairSpec
CONSTANTS
  originate = originate
  list = list
  hangup = hangup
  Callers = {originate, list}
  Lists = {list}
  Originates = {originate}
  Items = 1
  ReplyCapacity = 1
  EventCapacity = 1
  MaxSessions = 1
CHECK_DEADLOCK FALSE
INVARIANTS
  AnsweredInFull
  NoPacketAfterFragment
  OutcomesAreEvents
PROPERTIES
  DeliveredAnswerCounts
  ReaderMovesOn
  DisconnectReleases
