CONSTANTS
  None = None
  BrandOf <- MCBrandOf
  Capacities = {"128", "256"}
  Colours = {"black"}
  Multiplier <- MCMultiplier
  Threshold = 55
  MaxOpportunities = 2
  Instruction = 20
  FullOffer = 15
  BareOffer = 6
  ReportSize = 10
  ContractOffers = 7
  Registries <- MCRegistries
  SearchPages <- MCSearchPages
  ProductPages <- MCProductPages
  QueryText <- MCQuery
  NameLength = 8
  MaxCandidates = 3
  MaxDetails = 2
  Budgets <- MCBudgets
  Failed = Failed
SPECIFICATION Spec
INVARIANTS
  FailuresIsolated
CHECK_DEADLOCK FALSE
