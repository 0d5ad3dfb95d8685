SPECIFICATION Spec
CONSTANTS
  DayLength = 6
  CheckDelay = 2
  NotificationTimes = {1}
  Databases <- TimerDatabases
  StartTime = 0
  Horizon = 44
  SignalKinds = {"canceled"}
  MaxSignals = 1
  MaxEdits = 0
  Faults = {}
  AllowSigterm = FALSE
  Uninitialised <- Noise
  Pace = "prompt"
INVARIANTS FiresOnlyAtRules NoRuleMissed WakeIsEarliest HandedOver ModeOfTheRule WakeIsRecent OffRuleIsFresh CancelDropsOneRule
PROPERTIES NotifiedInTime
