\* The daemon alone, two evaluations at a time, two crashes, one failed statement
CONSTANTS
  raise = raise
  restart = restart
  ticker = ticker
  second = second
  Actions = {raise, restart}
  TypeOf <- MCTypeOf
  TransportOf <- MCTransportOf
  ApprovalTypes = {}
  Operators = {}
  Serve = serve
  Evals = {ticker, second}
  Ticker = ticker
  Sessions = {}
  Cli = {}
  ActorOf <- MCActorOf
  Requests = {}
  Proposable = {raise, restart}
  Glass = {FALSE}
  FreezeScopes <- MCScopes
  WindowScopes <- MCScopes
  MaxQueue = 1
  MaxCrashes = 2
  MaxFaults = 1
  NoId = NoId
SPECIFICATION Spec
INVARIANTS RunsOncePerSend SuccessIsTrue RunningIsOwned ResetFollowsRaise
PROPERTIES RecoveredStaysClosed LostIsFoundAgain
