SPECIFICATION Spec
CONSTANTS
  DayLength = 3
  CheckDelay = 1
  NotificationTimes = {1}
  Databases <- FailDatabases
  StartTime = 0
  Horizon = 5
  SignalKinds = {}
  MaxSignals = 0
  MaxEdits = 0
  Faults = {}
  AllowSigterm = TRUE
  Uninitialised <- Noise
  Pace = "quiet"
INVARIANTS SigtermDoesNotShutDown
