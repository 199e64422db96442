\* Two priorities, paused tasks, two nested waits and a WaitEvt() of main() before its loop.
CONSTANTS
  NTask = 2
  NPrio = 2
  Evts = {e1}
  MaxNest = 2
  StartupWait = TRUE
  Pauses = TRUE
SPECIFICATION Spec
INVARIANTS TypeOK ScanInBounds NoReentry CurrentIsRunning
