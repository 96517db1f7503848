SPECIFICATION Spec
CONSTANTS
  Workers = {worker}
  NoOne = no_one
  Primary = primary
  Fallback = fallback
  Catalog = 3
  NewCards <- NoCard
  BatchSize = 2
  MaxStalls = 2
  Attempts = 2
  MaxJobs = 1
  EarlierRuns <- ThreePasts
  LocksLapse = FALSE
PROPERTY
  FreshRunsCarryOn
CHECK_DEADLOCK FALSE
