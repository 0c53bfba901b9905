\* One call whose deadline never comes: the cancellation that races the
\* allocation of its channel.
SPECIFICATION Spec
CONSTANTS
  NoCall = NoCall
  Causes = {"Connection failed", "Busy"}
  DialFailures = {"Busy"}
  StateCapacity = 1
  Calls = {c1}
  Present = {}
  Slow = {}
  Operations = {"cancel"}
  QueueCapacity = 2
  MaxFaults = 0
  Limit = 1
INVARIANTS
  CancelledCallIsOver
