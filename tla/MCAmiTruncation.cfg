\* A list is answered while another caller's write is interrupted.
SPECIFICATION Spec
CONSTANTS
  originate = originate
  list = list
  hangup = hangup
  Callers = {list, hangup}
  Lists = {list}
  Originates = {}
  Items = 1
  ReplyCapacity = 2
  EventCapacity = 1
  MaxSessions = 1
CHECK_DEADLOCK FALSE
INVARIANTS
  ListsAreComplete
