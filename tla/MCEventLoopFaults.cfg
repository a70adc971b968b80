SPECIFICATION Spec
CONSTANTS
  N = 2
  Socks = {s1, s2, s3}
  NoSock = NoSock
  Timeout = 1
  DeferredAccept = TRUE
  SharedMutex = FALSE
  ReserveDiv = 2
  DrainDiv = 8
  DrainMax = 32
  MaxOpen = 3
  Faults = {"mem", "ctl", "send", "nofile", "accept"}
  MaxBroken = 1
SYMMETRY Symmetry
VIEW Remembered
INVARIANTS
  MemoryConsistent
  DescriptorsOwned
