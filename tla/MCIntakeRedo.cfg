SPECIFICATION FairSpec
CONSTANTS
  Tx = {t1}
  MaxOps = 3
  Edit = {}
INVARIANTS
  RedoWorks
