\* A width in which the fourth failure overflows, as the thirty-first does in the code
CONSTANTS
  NoSocket = 0
  Socket = {1, 2}
  Base = 10000
  Cap = 30000
  Half = 65536
  RetryThreshold = 2
  QueueCap = 1
  MaxFailures = 4
  MaxRestarts = 0
  MaxLinkFaults = 0
SPECIFICATION LinkSpec
INVARIANT RetriesWithBackoff
