\* Three tasks of one priority, no pause: round robin, and what fair scheduling and
\* the idle protocol give.
CONSTANTS
  NTask = 3
  NPrio = 1
  Evts = {e1}
  MaxNest = 1
  StartupWait = FALSE
  Pauses = FALSE
SPECIFICATION HSpec
INVARIANTS OnlyWaitersMasked BypassBounded
PROPERTIES RequestedTaskRuns EventEndsWait
