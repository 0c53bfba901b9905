\* One call past its deadline: what the browsers were sent last.
SPECIFICATION Spec
CONSTANTS
  NoCall = NoCall
  Causes = {"Connection failed", "Busy"}
  DialFailures = {"Busy"}
  StateCapacity = 1
  Calls = {c1}
  Present = {}
  Slow = {c1}
  Operations = {}
  QueueCapacity = 2
  MaxFaults = 0
  Limit = 1
INVARIANTS
  PublishedAfterEveryChange
