CONSTANTS
  n1 = n1
  n2 = n2
  Peer = {n1, n2}
  Beat = 2
  SuspectAfter = 4
  PartitionAfter = 5
  Delay = 1
  Skew <- MCSkew
  RequireApproval = FALSE
  RestrictAutopilot = TRUE
  MaxAutonomous = 2
  MaxFaults = 2
  NoSocket = 0
  Socket = {1, 2}
  Base = 10000
  Cap = 30000
  Half = 65536
  RetryThreshold = 2
  QueueCap = 1
  MaxFailures = 3
  MaxRestarts = 2
  MaxLinkFaults = 1
SPECIFICATION NodeSpec
INVARIANTS NodeTypeOK HealthyIsTrusted PartitionedIsSilent SplitIsMajority AutonomyIsBounded NoLeak InterruptsEndOneWait ThresholdIsTold WaitIsBounded OnlyRestartsKill
PROPERTIES SplitEnds Reconnects HealthSettles
