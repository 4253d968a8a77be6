SPECIFICATION FairSpec
CONSTANTS
  Proc = {p1}
  Request = {q1}
  MaxWeek = 2
  MaxManual = 1
  MaxDown = 0
PROPERTIES
  CronNeverDuplicates
