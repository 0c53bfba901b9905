\* Recovery under fairness: one call that a user may cancel, a queue of one event
\* that overflows, and one lost connection or reply at any moment.
SPECIFICATION FairSpec
CONSTANTS
  NoCall = NoCall
  Causes = {"Connection failed", "Busy"}
  DialFailures = {"Busy"}
  StateCapacity = 1
  Calls = {c1}
  Present = {}
  Slow = {c1}
  Operations = {"cancel"}
  QueueCapacity = 1
  MaxFaults = 1
  Limit = 1
PROPERTIES
  CancelCompletes
  EveryCallResolves
  RosterConverges
