\* Three workers, every fault, one of them mortal.
SPECIFICATION Spec
CONSTANTS
  Workers = {1,2,3}
  NoWorker = 0
  Slots = 1
  ReserveDiv = 2
  Clients = 2
  Mortal = {1}
  Faults = {"ctl", "nofile"}
INVARIANTS
  WordIsHolder
  OneListener
  AcceptorsExclusive
PROPERTIES
  UsesLock
  ClientsAreTaken
