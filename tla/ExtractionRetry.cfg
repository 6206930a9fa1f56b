SPECIFICATION ExtractionSpec
CONSTANTS
  Novels = {n1}
  MaxEpisode = 2
  MaxJobs = 3
  MaxRev = 2
  MaxControls = 0
  MaxClears = 0
  MaxStops = 1
  MaxUpgrades = 0
  MaxErrors = 0
  MaxFaults = 0
INVARIANTS RetryConverges

CHECK_DEADLOCK FALSE
