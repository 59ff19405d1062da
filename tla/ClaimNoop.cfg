\* db/trust.go: deciding a row that is no longer undecided is an error
CONSTANTS
  first = first
  second = second
  auto = auto
  o1 = o1
  o2 = o2
  h1 = h1
  h2 = h2
  h3 = h3
  h4 = h4
  ticker = ticker
  Actions = {first, second, auto}
  TypeOf <- MCTypeOf
  TransportOf <- MCTransportOf
  ApprovalTypes = {"temporarily_deprioritize"}
  Operators = {o1, o2}
  Serve = serve
  Evals = {ticker}
  Ticker = ticker
  Sessions = {h1, h2, h3, h4}
  Cli = {}
  ActorOf <- MCActorOf
  Requests = {"approve", "reject"}
  Proposable = {first, second, auto}
  Glass = {FALSE}
  FreezeScopes = {}
  WindowScopes = {}
  MaxQueue = 1
  MaxCrashes = 0
  MaxFaults = 0
  NoId = NoId
SPECIFICATION Spec
INVARIANTS NoSilentNoop
CHECK_DEADLOCK FALSE
