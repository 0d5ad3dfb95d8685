SPECIFICATION Spec
CONSTANTS
  DayLength = 3
  CheckDelay = 1
  NotificationTimes = {1}
  Databases <- RequestDatabases
  StartTime = 0
  Horizon = 3
  SignalKinds = {"updated", "canceled", "custom"}
  MaxSignals = 1
  MaxEdits = 0
  Faults = {"open", "query", "thread"}
  AllowSigterm = FALSE
  Uninitialised <- Noise
  Pace = "any"
PROPERTIES CancelHonoured NeverEarly
