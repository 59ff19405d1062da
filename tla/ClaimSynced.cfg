CONSTANTS
  a = a
  b = b
  Node = {a, b}
  MaxEvents = 2
  KeepMin = 2
  Configured <- MCConfigured
  Trusted <- MCConfigured
  Scope <- MCScope
  Emitters = {a}
  Push = "push"
  Tickers <- MCTickers
  BatchSize = 1
  QueueCap = 1
  DedupCap = 1
  MaxFaults = 0
SPECIFICATION FairSpec

PROPERTY MissedEventsAreSynced
