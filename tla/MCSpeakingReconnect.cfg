\* One participant, a queue nothing is lost in, one lost connection: what is shown
\* after the client has reconnected.
SPECIFICATION FairSpec
CONSTANTS
  p1 = p1
  People = {p1}
  Early = {}
  QueueSize = 4
  MaxEvents = 4
  MaxFaults = 1
PROPERTIES
  IndicatorWaitsForEvent
