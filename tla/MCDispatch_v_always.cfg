SPECIFICATION FairSpec
CONSTANTS
  p1 = p1
  p2 = p2
  w1 = w1
  w2 = w2
  l1 = l1
  web = web
  h1 = h1
  h2 = h2
  NoRunner = NoRunner
  Job <- TailJob
  Base <- TailBase
  Needs <- TailNeeds
  Condition <- TailCondition
  BadPlan = {}
  Unroutable = {}
  MayFail = {1}
  ContinueOnError = {}
  Process = {p1}
  Worker = {w1}
  Loop = {l1}
  Web = web
  ProcessOf <- OneProcess
  Runner = {h1, h2}
  RouteOf <- OneRoute
  Route <- OneHost
  Online = {h1, h2}
  Steps = 1
  MaxDeliver = 2
  MaxFaults <- NoFaults
PROPERTY AlwaysJobRuns
