SPECIFICATION LibrarySpec
CONSTANTS
  TaskIDs = {t1, t2}
  Targets <- MCTargets
  WorkIDs = {1, 2}
  Batches <- MCBatches
  MaxAttempts = 3
  MaxSeq = 3
  Episodes = {1, 2}
  Undated = {2}
  MaxRev = 2
  MaxRelists = 1
  MaxRemovals = 1
  MaxStops = 1
  MaxSignals = 1
CONSTRAINT OneOrTwoTasks
SYMMETRY Symmetry
INVARIANTS CompleteIsReadable FailedSaveKeepsBody
PROPERTY ForcedIsCurrent
CHECK_DEADLOCK FALSE
