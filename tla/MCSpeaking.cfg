\* One participant who comes and goes, four events, a queue of two, one fault.
SPECIFICATION FairSpec
CONSTANTS
  p1 = p1
  People = {p1}
  Early = {}
  QueueSize = 2
  MaxEvents = 4
  MaxFaults = 1
INVARIANTS
  MuteMatchesConference
  SpeechEnds
PROPERTIES
  MuteConverges
