SPECIFICATION Spec
CONSTANTS
  TIME_SLOTS = 4
  Updaters = {u1, u2}
  Readers = {r1}
  Seconds = {1, 2, 3, 4, 5, 6}
  Days <- CycleAndEnd
  Null = Null
INVARIANTS
  ReadWhole
  GmtOK
PROPERTY TimeNeverGoesBack
