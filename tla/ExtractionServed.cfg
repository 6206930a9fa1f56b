SPECIFICATION FairExtractionSpec
CONSTANTS
  Novels = {n1, n2}
  MaxEpisode = 1
  MaxJobs = 2
  MaxRev = 1
  MaxControls = 2
  MaxClears = 0
  MaxStops = 1
  MaxUpgrades = 0
  MaxErrors = 0
  MaxFaults = 0

PROPERTIES QueuedJobIsServed
CHECK_DEADLOCK FALSE
