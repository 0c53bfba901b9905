\* Two calls, the second a replacement of the first if it failed, with kicks:
\* the roster is rebuilt by Run while they come and go.
SPECIFICATION Spec
CONSTANTS
  NoCall = NoCall
  Causes = {"Connection failed", "Busy"}
  DialFailures = {"Busy"}
  StateCapacity = 1
  Calls = {c1, c2}
  Present = {}
  Slow = {}
  Operations = {"retry", "kick"}
  QueueCapacity = 1
  MaxFaults = 0
  Limit = 2
INVARIANTS
  RosterMatchesConference
  NoRetryOfReplaced
