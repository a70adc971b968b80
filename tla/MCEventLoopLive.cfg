SPECIFICATION Spec
CONSTANTS
  N = 2
  Socks = {s1, s2}
  NoSock = NoSock
  Timeout = 1
  DeferredAccept = TRUE
  SharedMutex = FALSE
  ReserveDiv = 3
  DrainDiv = 8
  DrainMax = 32
  MaxOpen = 1
  Faults = {}
  MaxBroken = 2
PROPERTIES
  AcceptingResumes
  BytesAreRead
