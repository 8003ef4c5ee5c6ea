\* Two loops that overlap or take turns under a fair clock; rows come at any moment, some after
\* their day was folded.
SPECIFICATION FairSpec
CONSTANTS
  Requests = {r1, r2}
  Passes = {loop, cron}
  HoursPerDay = 2
  MaxHour = 4
  KeepDays = 1
  MaxDelay = 3
  MaxFaults = 1
  Nil = Nil
CHECK_DEADLOCK FALSE
INVARIANTS
  CountsTrue
PROPERTY RawDiscarded
