CONSTANTS
  a = a
  b = b
  c = c
  Timers <- TwoTimers
  NoTimer = NoTimer
  Periods = {1, 3}
  FirstPeriod <- PeriodsOfTwo
  MinTimeout = 2
  Starts <- StartsOfTwo
  StartsTested = FALSE
  SelfStopping = {b}
  Recreated = {a, b}
  CreatesListed = FALSE
  Ops = {"start", "stop", "setPeriod", "startWithPeriod", "reloadMode"}
  MaxBusy = 1
  MaxAge = 2
  MaxElapsed = 24
SPECIFICATION FairSpec
PROPERTIES KeepsPromise RunningTimerEnds
