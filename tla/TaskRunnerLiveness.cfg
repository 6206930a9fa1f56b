SPECIFICATION RunnerSpec
CONSTANTS
  TaskIDs = {t1, t2}
  Targets <- MCTargets
  WorkIDs = {1}
  Batches <- MCPairBatch
  MaxAttempts = 1
  MaxSeq = 2
  Clients = {c1}
  MaxFaults = 1
  MaxStops = 1
  WorkInterval = 1
PROPERTIES ControlTakesEffect QueuedIsServed
