SPECIFICATION FairSpec
CONSTANTS
  Tx = {t1, t2}
  MaxOps = 3
  Edit = {"career", "expense"}
INVARIANTS
  TypeOK
  ArchivedIsAnalysed
  NothingOlderIsMissing
  StatusConsistent
  SecondProfileOnlyRaced
PROPERTIES
  RequestsEnd
