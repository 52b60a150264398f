SPECIFICATION Spec
CONSTANTS
  v1 = v1
  v2 = v2
  t1 = t1
  t2 = t2
  t3 = t3
  i1 = i1
  i2 = i2
  b1 = b1
  b2 = b2
  host = host
  Nobody = Nobody
  NoVm = NoVm
  Vm = {v1, v2}
  Placeholder = {b1, b2}
  Task = {t1, t2, t3}
  Instance = {i1, i2}
  Runner = {host}
  JobRow <- JobRows
  Owner <- TwoOwners
  HostOf <- OneHost
  Fits <- AllFit
  Serves <- ServeAll
  Reuse = {t1, t3}
  MayStall = FALSE
  MaxFaults <- OneOfEach
SYMMETRY Symmetry
INVARIANTS TypeOK HeldExclusively InUseIsLive
PROPERTY DrainingStaysOut
CHECK_DEADLOCK FALSE
