SPECIFICATION Spec
CONSTANTS
  j1 = j1
  j2 = j2
  j3 = j3
  v1 = v1
  v2 = v2
  NoJob = NoJob
  NoVm = NoVm
  Job = {j1, j2, j3}
  Vm = {v1, v2}
  Steps <- StepCounts
  Condition <- Cleanup
  Tolerated = {}
  Uses = {}
  Reuse = {j1, j2, j3}
  Forgiven = {}
  MayFail = {j3}
  MaxDeliver = 2
  Scenarios <- OneLapse
INVARIANT CancelStopsAll
CHECK_DEADLOCK FALSE
