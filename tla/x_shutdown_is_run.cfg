SPECIFICATION GawakedSpec
CONSTANTS
  DayLength = 3
  CheckDelay = 1
  NotificationTimes = {1}
  Databases <- NothingToWakeFor
  StartTime = 0
  Horizon = 5
  SignalKinds = {}
  MaxSignals = 0
  MaxEdits = 0
  Faults = {}
  AllowSigterm = FALSE
  Uninitialised <- Noise
  Pace = "quiet"
INVARIANTS ShutdownIsRun
