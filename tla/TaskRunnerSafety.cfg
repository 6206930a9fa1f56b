SPECIFICATION RunnerSafety
CONSTANTS
  TaskIDs = {t1}
  Targets <- MCTargets
  WorkIDs = {1}
  Batches <- MCBatches
  MaxAttempts = 2
  MaxSeq = 3
  Clients = {c1, c2}
  MaxFaults = 1
  MaxStops = 1
  WorkInterval = 1
SYMMETRY Symmetry
INVARIANTS SucceededIsCommitted ActionReachesExecutor HeldAttemptIsCurrent
PROPERTY ImplementsTaskState
