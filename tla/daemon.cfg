SPECIFICATION GawakedFairSpec
CONSTANTS
  DayLength = 3
  CheckDelay = 1
  NotificationTimes = {1}
  Databases <- DaemonDatabases
  StartTime = 0
  Horizon = 5
  SignalKinds = {"canceled", "schedule"}
  MaxSignals = 1
  MaxEdits = 0
  Faults = {}
  AllowSigterm = TRUE
  Uninitialised <- Noise
  Pace = "quiet"
INVARIANTS WakesAtFirstRule StoppedDoesNotSleep
PROPERTIES KeepsThePromise OrdersAreObeyed DecidedReturns
