CONSTANTS
  Transport = {"mqtt", "serial"}
  TopicOf <- MCTopicOf
  Views <- MCViews
  Evaluator = {"ticker"}
  ControlMode = "guarded_auto"
  EmergencyDisable = FALSE
  AllowedActions = {"restart_transport"}
  MaxActions = 2
  Cooldown = 30
  Window = 60
  MinConfidence = 75
  AllowMesh = FALSE
  AllowRestart = TRUE
  AllowSuppression = FALSE
  RestartCap = 2
  ManualOnly = {}
  FreezeRouting = {}
  ReadsFail = FALSE
  MaxLimit = 5
  ControlQueue = 4
  Pace = 10
  Horizon = 60
  MaxRows = 8
SPECIFICATION GuardSpec
INVARIANT BudgetHolds
CHECK_DEADLOCK FALSE
