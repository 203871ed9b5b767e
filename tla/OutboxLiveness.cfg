CONSTANTS
  NoEvent = NoEvent
  Events = {e1, e2}
  Received = {e1}
  Workers = {w1, w2}
  MaxAttempts = 2
  BatchSize = 1
  MaxFaults = 1
  MaxShutdowns = 0
SPECIFICATION FairSpec
PROPERTIES
  EveryEventEnds
  ImplementsQueue
