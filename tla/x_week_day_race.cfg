SPECIFICATION Spec
CONSTANTS
  DayLength = 6
  CheckDelay = 2
  NotificationTimes = {1}
  Databases <- RaceDatabases
  StartTime = 0
  Horizon = 12
  SignalKinds = {"updated"}
  MaxSignals = 1
  MaxEdits = 0
  Faults = {}
  AllowSigterm = FALSE
  Uninitialised <- Noise
  Pace = "prompt"
INVARIANTS WakeIsEarliest
