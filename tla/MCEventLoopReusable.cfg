SPECIFICATION Spec
CONSTANTS
  N = 2
  Socks = {s1, s2, s3}
  NoSock = NoSock
  Timeout = 1
  DeferredAccept = FALSE
  SharedMutex = FALSE
  ReserveDiv = 1
  DrainDiv = 1
  DrainMax = 32
  MaxOpen = 3
  Faults = {}
  MaxBroken = 1
SYMMETRY Symmetry
VIEW Remembered
INVARIANTS
  MemoryConsistent
  RefusedForCause
PROPERTY ReuseMakesStale
