CONSTANTS
  Count = 2
  Loops = {l1, l2}
  Callers = {c1, c2}
  Merchants = {m1}
  Invalid = {1}
  Duplicated = {0}
  MaxFaults = 1
SPECIFICATION Spec
SYMMETRY Symmetry
INVARIANTS
  CompletedIsFull
  StopIsPrompt
  RunningIsExecuted
\* A run that has ended may stay as it is.
CHECK_DEADLOCK FALSE

