CONSTANTS
  Timers = {t1, t2}
  Delays = {1, 2}
  MaxStarts = 2
  MaxTime = 2
  None = None
SPECIFICATION TimerSpec
SYMMETRY TimerSymmetry
PROPERTIES NeverEarly
CHECK_DEADLOCK FALSE
