SPECIFICATION Spec
CONSTANTS
  p1 = p1
  p2 = p2
  w1 = w1
  w2 = w2
  l1 = l1
  web = web
  h1 = h1
  h2 = h2
  NoRunner = NoRunner
  Job <- MatrixJob
  Base <- MatrixBase
  Needs <- MatrixNeeds
  Condition <- MatrixCondition
  BadPlan = {}
  Unroutable = {3}
  MayFail = {1, 2}
  ContinueOnError = {2}
  Process = {p1, p2}
  Worker = {w1, w2}
  Loop = {}
  Web = web
  ProcessOf <- TwoProcesses
  Runner = {h1, h2}
  RouteOf <- SharedRoute
  Route <- OneHost
  Online = {h1, h2}
  Steps = 1
  MaxDeliver = 2
  MaxFaults <- NoFaults
INVARIANTS TypeOK NeedsFirst SuccessMeansDone
PROPERTY ImplementsDagOrder
CHECK_DEADLOCK FALSE
