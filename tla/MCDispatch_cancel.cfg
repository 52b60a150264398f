SPECIFICATION Spec
CONSTANTS
  p1 = p1
  p2 = p2
  w1 = w1
  w2 = w2
  l1 = l1
  web = web
  h1 = h1
  h2 = h2
  NoRunner = NoRunner
  Job <- SingleJob
  Base <- SingleBase
  Needs <- SingleNeeds
  Condition <- SingleCondition
  BadPlan = {}
  Unroutable = {}
  MayFail = {1}
  ContinueOnError = {}
  Process = {p1, p2}
  Worker = {w1, w2}
  Loop = {l1}
  Web = web
  ProcessOf <- TwoProcesses
  Runner = {h1, h2}
  RouteOf <- SharedRoute
  Route <- OneHost
  Online = {h1, h2}
  Steps = 1
  MaxDeliver = 2
  MaxFaults <- CancelOrError
INVARIANT QueuedMeansUnclaimed
PROPERTY TerminalStays
