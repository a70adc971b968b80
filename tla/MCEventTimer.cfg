\* A 4-bit clock: timers of up to 3, ticks of up to 2, a lazy delay of 2.
SPECIFICATION Spec
CONSTANTS
  Nodes = {e1, e2, e3}
  Sentinel = Sentinel
  Null = Null
  Half = 8
  Cancelable = {e1}
  Delays = {1, 3}
  Lazy = 2
  MaxTick = 2
SYMMETRY Symmetry
INVARIANTS
  FindTimerOK
  NoTimersLeftOK
PROPERTIES
  FiresEarliest
  ImplementsTimerSet
