\* Two names, three findings and a merge, without crashes.
SPECIFICATION CharacterSpec
CONSTANTS
  Names = {a, b}
  Episodes = 2
  MaxFindings = 3
  MaxMerges = 1
  MaxTears = 0
PROPERTIES MergesAreDated
CHECK_DEADLOCK FALSE
