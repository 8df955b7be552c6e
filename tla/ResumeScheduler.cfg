\* Days of three ticks, two projects, two workers.
SPECIFICATION FairSpec
CONSTANTS
  a = a
  b = b
  Projects = {a, b}
  Schedules <- SomeSchedules
  DayLength = 3
  MaxConcurrent = 2
  ZoneSpread = 5
  KeepDays = 2
  RetryDelay = 1
  MaxTime = 8
  Settings <- Several
INVARIANTS NothingSleptThrough
PROPERTIES OncePerLife ResultsSurvive BatchesEnd
\* The clock ends.
CHECK_DEADLOCK FALSE
