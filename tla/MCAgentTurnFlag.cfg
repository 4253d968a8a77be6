SPECIFICATION FairSpec
CONSTANTS
  Specialist = {"strategist", "tax_optimizer"}
  Tax = "tax_optimizer"
INVARIANTS
  DisclaimerContract
