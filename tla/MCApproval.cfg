\* mel serve and one CLI process; every race of two decisions, one crash, one fault
CONSTANTS
  a = a
  o1 = o1
  o2 = o2
  h1 = h1
  h2 = h2
  c1 = c1
  ticker = ticker
  Actions = {a}
  TypeOf <- MCTypeOf
  TransportOf <- MCTransportOf
  ApprovalTypes = {"restart_transport"}
  Operators = {o1, o2}
  Serve = serve
  Evals = {}
  Ticker = ticker
  Sessions = {h1, h2, c1}
  Cli = {c1}
  ActorOf <- MCActorOf
  Requests = {"submit", "approve", "reject"}
  Proposable = {}
  Glass = {TRUE, FALSE}
  FreezeScopes <- MCGlobal
  WindowScopes = {}
  MaxQueue = 1
  MaxCrashes = 1
  MaxFaults = 1
  NoId = NoId
SPECIFICATION Spec
INVARIANTS TypeOK GateInv RunsOncePerSend SuccessIsTrue SelfApprovalIsMarked FreezeStopsTheRest
PROPERTIES ImplementsGate
CHECK_DEADLOCK FALSE
