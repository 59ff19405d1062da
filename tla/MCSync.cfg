CONSTANTS
  a = a
  b = b
  Node = {a, b}
  MaxEvents = 2
  KeepMin = 1
  Configured <- MCConfigured
  Trusted <- MCConfigured
  Scope <- MCOneWay
  Emitters = {a}
  Push = "push"
  Tickers <- MCTickers
  BatchSize = 1
  QueueCap = 1
  DedupCap = 1
  MaxFaults = 1
SPECIFICATION FairSpec
INVARIANTS TypeOK CursorCovers
PROPERTIES Delivered RefinesDelivery
