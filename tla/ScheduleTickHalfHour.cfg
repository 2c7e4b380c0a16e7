CONSTANTS
  report = report
  sweep = sweep
  probe = probe
  Tasks = {report, sweep, probe}
  Plan <- QuarterAndHalf
  Every <- Periods
  Clustered = {sweep}
  Cycle = 8
  Day = 4
  Hour = 4
  Zone <- Summer
  Calendar <- TwoDays
  SearchDays = 4
  MaxTimer = 3
  MaxLate = 5
  Never = Never
SPECIFICATION Spec
PROPERTIES
  AnswersForPassedInstants
