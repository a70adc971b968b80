SPECIFICATION Spec
CONSTANTS
  Procs = {1, 2, 3}
  Value <- Pid
  Free = 0
  ByStore = FALSE
  Ncpu = 2
  Spin = 4
  Width = 3
  Mortal = {1}
INVARIANTS
  WordIsOwner
PROPERTIES
  ImplementsMutex
  SomeoneEnters
  WaiterYields
