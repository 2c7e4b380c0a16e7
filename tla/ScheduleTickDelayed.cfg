CONSTANTS
  report = report
  sweep = sweep
  probe = probe
  Tasks = {report, sweep, probe}
  Plan <- HalfPast
  Every <- Periods
  Clustered = {sweep}
  Cycle = 8
  Day = 4
  Hour = 2
  Zone <- Summer
  Calendar <- TwoDays
  SearchDays = 4
  MaxTimer = 3
  MaxLate = 5
  Never = Never
SPECIFICATION FairSpec
PROPERTIES
  DelayedTimersFire
