\* Lost answers, imports and removals around the saves of two tabs; a run of
\* the reader assistant and a reader while episodes are saved.
SPECIFICATION MCReaderSpec
CONSTANTS
  n1 = n1
  t1 = t1
  t2 = t2
  p1 = p1
  p2 = p2
  Novels <- MCNovels
  Tabs <- MCTabs
  OpenOn <- MCOpenOn
  Places <- MCPlaces
  NoPlace = NoPlace
  NoTab = NoTab
  MaxVersion = 2
  MaxMarks = 1
  MaxInFlight = 2
  Book = 3
  Openings <- MCOpenings
  Questions <- MCQuestions
  Revisions <- MCRevisions
  Buckets = 2
  RangeLimit = 1
  Limits = {1}
  MaxEdits = 2
  MaxCalls = 3
  MaxRuns = 1
  MaxMishaps = 1
CONSTRAINTS Apart OneTrouble
SYMMETRY Symmetry
INVARIANTS RemovedStaysEmpty BoundaryKept PassageFitsItsHit SearchIsCurrent
PROPERTIES RegisterSpec
CHECK_DEADLOCK FALSE
