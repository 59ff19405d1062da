CONSTANTS
  radio = radio
  Subject = {radio}
  MeshNode = {"n1"}
  Version = {"v1"}
  MaxEvents = 3
  KeepMin = 0
  Data <- MCData
  Own = {1, 2}
  Puller = {"tick"}
  Snapper = {"one"}
  Interval = 2
  PageSize = 2
  KeepSnapshots = 1
  MaxSnapshots = 1
  MaxBridgeFaults = 2
  Cause = {"c"}
  Operator = {"o1", "o2"}
  QueueLength = 2
  MaxTime = 2
  MaxInputs = 6
  MaxDeskFaults = 1
  Transport = {"mqtt", "serial"}
  TopicOf <- MCTopicOf
  Views <- MCViews
  Evaluator = {"ticker", "recheck"}
  ControlMode = "guarded_auto"
  EmergencyDisable = FALSE
  AllowedActions = {"restart_transport", "resubscribe_transport"}
  MaxActions = 2
  Cooldown = 20
  Window = 10
  MinConfidence = 75
  AllowMesh = FALSE
  AllowRestart = TRUE
  AllowSuppression = FALSE
  RestartCap = 1
  ManualOnly = {"serial"}
  FreezeRouting = {}
  ReadsFail = TRUE
  MaxLimit = 5
  ControlQueue = 1
  Pace = 10
  Horizon = 20
  MaxRows = 2
  Viewer = {"w"}
  Player = {"p"}
  Failed = {2}
  MaxKept = 2
  StreamBuffer = 1
  DemoLength = 1
  MaxMade = 3
  MaxUploads = 1
SPECIFICATION RecordsSpec
INVARIANTS BridgeTypeOK LoggedIsApplied SnapshotNotAhead ReplayMeetsLive OnlyPermittedRuns SavedIsWhole StreamIsFaithful
PROPERTIES ResolutionStands WorkIsTaken
