SPECIFICATION Spec
CONSTANTS
  N = 1
  Socks = {s1, s2, s3, s4}
  NoSock = NoSock
  Timeout = 1
  DeferredAccept = FALSE
  SharedMutex = FALSE
  ReserveDiv = 2
  DrainDiv = 8
  DrainMax = 32
  MaxOpen = 3
  Faults = {}
  MaxBroken = 1
SYMMETRY Symmetry
INVARIANT StaleEventsDetected
