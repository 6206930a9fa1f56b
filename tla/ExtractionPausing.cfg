SPECIFICATION FairExtractionSpec
CONSTANTS
  Novels = {n1}
  MaxEpisode = 2
  MaxJobs = 1
  MaxRev = 1
  MaxControls = 3
  MaxClears = 0
  MaxStops = 0
  MaxUpgrades = 0
  MaxErrors = 0
  MaxFaults = 0

PROPERTIES PausingEnds
CHECK_DEADLOCK FALSE
