\* Submissions and decisions over HTTP beside the evaluator, one crash
CONSTANTS
  guarded = guarded
  advisory = advisory
  o1 = o1
  o2 = o2
  h1 = h1
  h2 = h2
  ticker = ticker
  Actions = {guarded, advisory}
  TypeOf <- MCTypeOf
  TransportOf <- MCTransportOf
  ApprovalTypes = {"restart_transport"}
  Operators = {o1, o2}
  Serve = serve
  Evals = {ticker}
  Ticker = ticker
  Sessions = {h1, h2}
  Cli = {}
  ActorOf <- MCActorOf
  Requests = {"submit", "approve", "reject"}
  Proposable = {guarded}
  Glass = {FALSE}
  FreezeScopes <- MCScopes
  WindowScopes = {}
  MaxQueue = 1
  MaxCrashes = 1
  MaxFaults = 0
  NoId = NoId
SPECIFICATION FairSpec
PROPERTIES SentIsClosed
