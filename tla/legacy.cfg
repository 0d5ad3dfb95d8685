SPECIFICATION Spec
CONSTANTS
  Processes = {p1, p2}
  Files = {f1, f2, f3}
  NoFile = NoFile
  Databases <- SomeDatabases
  NewRules <- UserRules
  Ids = {2}
  Choices <- SomeChoices
  Times <- SomeTimes
  Delays <- SomeDelays
  BootTime = 300
  MaxStarts = 2
  MaxWrites = 2
SYMMETRY Symmetry
VIEW Reachable
INVARIANTS LegacyTypeOK HalfMadeIsExplained
PROPERTIES EditsWhatExists NoStableRuleIsSkipped CommandsAreTimely
