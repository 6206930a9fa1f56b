SPECIFICATION LibrarySpec
CONSTANTS
  TaskIDs = {t1, t2}
  Targets <- MCTargets
  WorkIDs = {1}
  Batches <- MCBatches
  MaxAttempts = 2
  MaxSeq = 3
  Episodes = {1}
  Undated = {}
  MaxRev = 2
  MaxRelists = 0
  MaxRemovals = 0
  MaxStops = 0
  MaxSignals = 1
SYMMETRY Symmetry
INVARIANT SkippedIsCurrent
CHECK_DEADLOCK FALSE
