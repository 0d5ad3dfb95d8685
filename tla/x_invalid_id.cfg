SPECIFICATION Spec
CONSTANTS
  Clis = {cli}
  Application = application
  Programs = {cli, application}
  DayLength = 2
  MaxNotificationTime = 5
  IdSpace = 65536
  Prepared = {TRUE}
  MaxEdits = 2
  Numbers <- TypedNumbers
  Misread <- OutOfRange
PROPERTIES InvalidIdDeletesNothing
