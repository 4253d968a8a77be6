SPECIFICATION FairSpec
CONSTANTS
  Request = {r1, r2, r3}
  PoolSize = 2
  Name = {ann, bob}
  Nobody = Nobody
  Nodes <- MCNodes
  MaxTurns = 2
  MaxRequests = 3
INVARIANTS
  TypeOK
  PoolAccounted
  StarvedOnlyByTurns
  HistoryIsCausal
PROPERTIES
  RegistrationCloses
  RequestsEnd
CHECK_DEADLOCK FALSE
