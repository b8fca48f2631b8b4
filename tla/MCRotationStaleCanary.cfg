SPECIFICATION Spec
CONSTANTS
  Consumers <- Both
  Version <- TheVersion
  Libraries <- TheLibraries
  Period <- ThePeriods
  Refetches = {}
  Enforced <- TheClaims
  Issuers = {"https://idp"}
  Proposals <- TheProposals
  Freshness = 5
  GraceFloor = 1
  GraceCeiling = 4
  HistoryLimit = 4
  MaxClock = 7
  MaxKeys = 3
  MaxRuns <- TwoRuns
CHECK_DEADLOCK FALSE
INVARIANTS
  NoOutage
