SPECIFICATION FairSpec
CONSTANTS
  Proc = {p1, p2}
  Request = {q1}
  MaxWeek = 2
  MaxManual = 1
  MaxDown = 1
INVARIANTS
  TypeOK
  CronOncePerWeek
  DeliveredIsAccountedFor
PROPERTIES
  LedgerSpec
  NoSilentSkip
  RunsEnd
