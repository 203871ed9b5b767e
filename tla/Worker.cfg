CONSTANTS
  w1 = w1
  s1 = s1
  Processes = {w1, s1}
  Scripts = {s1}
  Merchants = {1, 2}
  HeartbeatEvery = 1
  WriteTime = 1
  StaleAfter = 3
  MaxArrivals = 2
  MaxFailures = 1
  MaxStops = 1
  Off = Off
SPECIFICATION ProcessSpec
INVARIANT
  LiveWorkerIsHealthy
PROPERTIES
  EligibleIsExported
  ShutdownEnds
