SPECIFICATION Spec
CONSTANTS
  Row = {1}
  Col = {key, price}
  Val = {0, 1}
  Key = {key}
  Target <- MCTarget
  NoRow = NoRow
  Tx = {t1, t2}
  Answers <- MCAnswers
  Property = {1}
  Holding = {}
  Price = price
  Absent = Absent
  MaxOps = 2
INVARIANT
  CreationsLogged
