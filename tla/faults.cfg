SPECIFICATION GawakedFairSpec
CONSTANTS
  DayLength = 3
  CheckDelay = 1
  NotificationTimes = {1}
  Databases <- RequestDatabases
  StartTime = 0
  Horizon = 4
  SignalKinds = {"updated", "canceled", "schedule", "custom"}
  MaxSignals = 1
  MaxEdits = 0
  Faults = {"open", "integrity", "proxy", "thread", "parent", "pipe", "setid"}
  AllowSigterm = FALSE
  Uninitialised <- Noise
  Pace = "prompt"
INVARIANTS TypeOK ReturnedIsDecided ChildIsUnprivileged RootOnlyForRtcwake
PROPERTIES KeepsThePromise DecidedReturns
