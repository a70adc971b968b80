\* As shipped: deferred accept, other workers share the mutex.
SPECIFICATION Spec
CONSTANTS
  N = 2
  Socks = {s1, s2, s3}
  NoSock = NoSock
  Timeout = 1
  DeferredAccept = TRUE
  SharedMutex = TRUE
  ReserveDiv = 2
  DrainDiv = 8
  DrainMax = 32
  MaxOpen = 3
  Faults = {}
  MaxBroken = 3
SYMMETRY Symmetry
VIEW Remembered
INVARIANTS
  TypeOK
  MutexDiscipline
  NoLostWakeup
  NoneForgotten
  AnsweredNeverTimesOut
