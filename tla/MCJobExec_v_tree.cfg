SPECIFICATION Spec
CONSTANTS
  j1 = j1
  j2 = j2
  j3 = j3
  v1 = v1
  v2 = v2
  NoJob = NoJob
  NoVm = NoVm
  Job = {j1, j2, j3}
  Vm = {v1, v2}
  Steps <- StepCounts
  Condition <- Cleanup
  Tolerated = {}
  Uses = {}
  Reuse = {j1, j2}
  Forgiven = {}
  MayFail = {}
  MaxDeliver = 2
  Scenarios <- OneCrash
PROPERTY RunsOnOwnTree
CHECK_DEADLOCK FALSE
