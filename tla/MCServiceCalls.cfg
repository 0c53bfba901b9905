\* One call, every fault once, the deadline, snapshots asked for by handlers and
\* by Run: cancellation, the verdicts and what the rows may do.
SPECIFICATION Spec
CONSTANTS
  NoCall = NoCall
  Causes = {"Connection failed", "Busy"}
  DialFailures = {"Busy"}
  StateCapacity = 1
  Calls = {c1}
  Present = {}
  Slow = {c1}
  Operations = {"cancel", "refresh"}
  QueueCapacity = 1
  MaxFaults = 1
  Limit = 1
INVARIANTS
  NoVerdictOnLiveCall
  PublishedIsCurrent
  OneRowPerCall
PROPERTIES
  ImplementsCallBoard
  TimeoutOnlyAfterRosterCheck
