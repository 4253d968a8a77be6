SPECIFICATION FairSpec
CONSTANTS
  Proc = {p1}
  Request = {q1}
  MaxWeek = 2
  MaxManual = 0
  MaxDown = 1
PROPERTIES
  SurvivesRestart
