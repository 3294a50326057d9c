SPECIFICATION Spec
CONSTANTS
  Sessions <- MCSessions
  Roles = {"attempt", "judge", "amend", "validate"}
  Catalog = {"attempt", "amend", "validate"}
  SlotMax = 3
  StageMax = 3
  SessionCap = 4
  EmitterWidth = 3
  EmitterMenu = 1
  UrlNodes = 5
  UrlSize = 8
  Edited = "edited"
  Fresh = "fresh"
  NoId = ""
  Library <- MCLibrary
  OtherWork <- MCOtherWork
  NewNodes <- MCNewNodes
  Contestant = "attempt"
  Judge = "judge"
  RouteDefault <- MCRouteDefault
  HistoryCap = 2
  Bodies = {"stock", "mine"}
  DefaultBody = "stock"
  Runtimes <- MCRuntimes
  DefaultRuntime <- MCDefaultRuntime
  VersionsShown = 1
  WaveNames = {"a", "b", "c"}
  WaveTimes <- MCWaveTimes
  WaveKinds <- MCWaveKinds
  ProfileNames = {"night", "deep"}
  FirstProfiles <- MCFirstProfiles
  ProfileKnobs = {"ok", "refused"}
  Builtin <- MCBuiltin
  FocusFiles = {"products", "projects"}
  Gate = "products"
  Drafts = {"old", "new"}
  Ideas = {"idea"}
  Shelf <- MCShelf
  FirstPick = "full"
  LaunchRoles = {"validate"}
  RunStages = 1
  RunRounds = 1
  GuidanceTexts = {"", "more"}
  SweepAgents = {"x", "y"}
  FirstJobs <- MCFirstJobs
  JobFacts <- MCJobFacts
  QueuedJob = "queued"
  Tabs = {"left", "right"}
  Bases = {"workspace", "playground"}
  Agents <- MCAgents
  Defaults = {}
INVARIANTS
  ConsoleTypeOK
  GuardFollowsDraft
  RefreshKeepsShape
  RefusalsForeseen
  PromptsRecoverable
  WavesFollowTriggers
  PreviewIsWhatRuns
  NightSettles
  TabsAgree
PROPERTIES
  ImplementsTimeline
  TypingSurvives
  RunPageCatchesUp
CHECK_DEADLOCK FALSE
