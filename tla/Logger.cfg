SPECIFICATION LoggerSpec

CONSTANTS
  t1 = t1
  s1 = s1
  s2 = s2
  s3 = s3
  null = null
  Threads <- OneThread
  Statements <- ThreeStatements
  MaySuppress = TRUE
  console = console
  file = file
  Appenders <- ConsoleAndFile
  Changes = 2
  MonthOf <- Months
  MonthDayOf <- MonthDays
  LastDay = 4
  Patterns <- AllPatterns
  Letters <- Alphabet
  Known <- Commanding
  content_item = "a"
  LogsWith <- UsedPatterns

INVARIANTS
  ItemsInOrder
  LinesAsWritten
  LoggedOnce
  RunsOfOneMonthDay

PROPERTY Terminates

CHECK_DEADLOCK FALSE
