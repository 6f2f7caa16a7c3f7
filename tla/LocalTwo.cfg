SPECIFICATION TimeSpec

CONSTANTS
  t1 = t1
  t2 = t2
  none = none
  Threads <- TwoThreads
  Hours = 3
  Offset = 2
  DaysIn <- TwoMonths
  Weekdays = 5
  FirstHour = 0
  LastHour = 6

PROPERTY ReadsTheTime
