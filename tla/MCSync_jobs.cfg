SPECIFICATION AllSpec
CONSTANTS
  Workers = {worker}
  NoOne = no_one
  Primary = primary
  Fallback = fallback
  Catalog = 3
  NewCards <- MiddleCard
  BatchSize = 2
  MaxStalls = 2
  Attempts = 2
  MaxJobs = 1
  EarlierRuns <- TwoPasts
  LocksLapse = FALSE
  t1 = t1
  z1 = z1
  none = none
  cron = cron
INVARIANTS
  TypesOK
  SucceededMeansSwept
  NothingIsSkipped
  OneProviderPerRun
  CompletedJobsCloseTheirRuns
  SyncedCatalogsAreWhole
  AuditRowsAreTrue
CHECK_DEADLOCK FALSE
PROPERTIES
  RunsAreNotAdopted
  ClosedRunsStayClosed
  
