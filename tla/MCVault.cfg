SPECIFICATION FairSpec
CONSTANTS
  Row = {1, 2, 3, 4}
  Col = {key, price}
  Val = {0, 1}
  Key = {key}
  Target <- MCTarget
  NoRow = NoRow
  Tx = {t1, t2}
  Answers <- MCAnswers
  Property = {1, 2}
  Holding = {3, 4}
  Price = price
  Absent = Absent
  MaxOps = 3
INVARIANTS
  TypeOK
  LifecycleAudited
  NoOrphans
  SerialTrailIsExact
PROPERTIES
  MutationsAudited
  NoColumnReverted
  SerialUnlessRaced
  RequestsEnd
