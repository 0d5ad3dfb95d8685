SPECIFICATION Spec
CONSTANTS
  DayLength = 6
  CheckDelay = 2
  NotificationTimes = {1}
  Databases <- UpdateDatabases
  StartTime = 0
  Horizon = 14
  SignalKinds = {"updated", "canceled"}
  MaxSignals = 2
  MaxEdits = 2
  Faults = {}
  AllowSigterm = TRUE
  Uninitialised <- Noise
  Pace = "quiet"
INVARIANTS OffRuleIsFresh
PROPERTIES TriggeredInTime
