\* Two callers, two calls per window of four ticks, calls up to one tick late,
\* and time for the window to slide over twice its length.
SPECIFICATION WindowSpec
CONSTANTS
  Procs = {r1, r2}
  Limit = 2
  Window = 4
  Delay = 1
  MaxTime = 8
INVARIANTS
  WindowTypeOK
  LimitHolds
  RefusalIsJustified
CHECK_DEADLOCK FALSE
