SPECIFICATION FairSpec
CONSTANTS
  Specialist = {"strategist", "tax_optimizer"}
  Tax = "tax_optimizer"
INVARIANTS
  TypeOK
  CoachHearsAll
  TokensAccounted
  DisclaimerKept
PROPERTIES
  TurnEnds
