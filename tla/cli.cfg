SPECIFICATION FairSpec
CONSTANTS
  Clis = {cli}
  Application = application
  Programs = {cli, application}
  DayLength = 2
  MaxNotificationTime = 5
  IdSpace = 65536
  Prepared = {TRUE}
  MaxEdits = 2
  Numbers <- TypedNumbers
  Misread <- OutOfRange
INVARIANTS CliTypeOK ArrayIsFilled StoredIsUsable
PROPERTIES DeletesWhatWasPrinted EndsWithInput
