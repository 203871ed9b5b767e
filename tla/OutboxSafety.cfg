CONSTANTS
  NoEvent = NoEvent
  Events = {e1, e2}
  Received = {e1}
  Workers = {w1, w2}
  MaxAttempts = 2
  BatchSize = 2
  MaxFaults = 1
  MaxShutdowns = 1
SPECIFICATION Spec
SYMMETRY Symmetry
INVARIANTS
  NothingAbandoned
PROPERTIES
  TerminalIsFinal
