\* The components that share no state, scene by scene.
SPECIFICATION ComponentsSpec
CONSTANTS
  a = a
  b = b
  TaskIDs = {1, 2, 3}
  Targets <- MCTargets
  WorkIDs = {1, 2}
  Batches <- MCBatches
  MaxAttempts = 2
  MaxSeq = 4
  Prints <- MCPrints
  Concurrency = 2
  MaxRounds = 2
  MaxInputs = 2
  MaxSaveFaults = 1
  Names <- MCNames
  Episodes = 2
  MaxFindings = 3
  MaxMerges = 2
  MaxTears = 1
  Policies <- MCPolicies
  MaxTime = 12
  r1 = r1
  r2 = r2
  Runs = {r1, r2}
  Kinds <- MCKinds
  Schemas = {"absent", "current", "future"}
  MaxTurns = 2
  MaxAsks = 2
  LastEpisode = 2
  MayBeSaid <- MCSayings
  Tabs = {tab1, tab2}
  ProfileIds = {"default", "b"}
  Keys = {"k0", "k1", "k2"}
  Phrases = {"x", "y"}
  OldFiles <- MCOldFiles
  PutRequests <- MCPutRequests
  MaxRevision = 2
  Editors = {e1, e2}
  BookKinds = {"novel"}
  ISBNs = {"i1", "i2"}
  Files <- MCFiles
  MaxRequests = 3
  Callers = {c1, c2}
  Sections = {"body", "afterword"}
  Signs = {"stop", "a", "b", "c", "other", "figure"}
  Versions <- MCVersions
  MaxUpgrades = 1
CONSTRAINTS InOrder OneOrTheOther OneLongRun OneUpset
SYMMETRY Symmetry
INVARIANTS
  TypeOK ReservedOnce StartupAccepts
  PublishedIsWhole SavedIsNotResent FailureSparesOthers
  AllIsTold
  GapsAreKept
  BilledIsRecorded
  TermsFollowTheText
  KeyIsTheOneMeant
  CoverWasChosen TwinsNeedARace
  ServedSaysTheSame
PROPERTIES
  FirstCommitWins
  IdKeepsItsPerson EarlierStaysHidden PeopleStayWhole
