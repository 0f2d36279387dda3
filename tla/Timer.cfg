SPECIFICATION FairSpec
CONSTANTS
  Tm = {t1, t2}
  Exit = Exit
  NotArmed = NotArmed
  Intervals = {0, 1}
  MaxStarts = 3
  MaxStops = 1
  MaxTime = 2
INVARIANTS StateMatchesEvent
PROPERTIES PromiseSpec Fires
\* The clock is bounded: the loop may wait for a timer that is due later.
CHECK_DEADLOCK FALSE
