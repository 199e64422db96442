CONSTANTS
  a = a
  b = b
  c = c
  Timers <- ThreeTimers
  NoTimer = NoTimer
  Periods = {1, 3, 4}
  FirstPeriod <- PeriodsOfThree
  MinTimeout = 2
  Starts <- StartsOfThree
  StartsTested = FALSE
  SelfStopping = {}
  Recreated = {}
  CreatesListed = FALSE
  Ops = {"start", "stop"}
  MaxBusy = 0
  MaxAge = 3
  MaxElapsed = 14
SPECIFICATION Spec
INVARIANTS ListIntact HeadHasAlarm
