SPECIFICATION FairSpec
CONSTANTS
  Tx = {t1, t2}
  Account = {a1}
  Line = {x, y}
  MaxLines = 2
  MaxUploads = 3
INVARIANTS
  TypeOK
  StoredOnce
  NothingLost
  RefusedOnlyIfRaced
PROPERTIES
  SerialSpec
  UploadsEnd
