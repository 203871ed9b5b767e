CONSTANTS
  NoEvent = NoEvent
  Events = {e1}
  Received = {e1}
  Workers = {w1}
  MaxAttempts = 2
  BatchSize = 1
  MaxFaults = 0
  MaxShutdowns = 0
SPECIFICATION Spec
PROPERTY FailureIsRecorded
