SPECIFICATION ExtractionSpec
CONSTANTS
  Novels = {n1}
  MaxEpisode = 2
  MaxJobs = 2
  MaxRev = 2
  MaxControls = 3
  MaxClears = 1
  MaxStops = 1
  MaxUpgrades = 1
  MaxErrors = 1
  MaxFaults = 1
CONSTRAINT ControlsOrRecovery
INVARIANTS OneActiveJob PausedIsQuiet 
PROPERTIES FinalIsFinal ImplementsJobStore CompletedIsWhole 
CHECK_DEADLOCK FALSE
