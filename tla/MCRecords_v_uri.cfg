SPECIFICATION Spec
CONSTANTS
  v1 = v1
  d1 = d1
  d2 = d2
  t1 = t1
  t2 = t2
  None = None
  Runs = 2
  Steps = 2
  Uploads <- MCUploads
  Optional <- MCExcused
  Tolerated <- MCExcused
  Forgiven = {}
  Tag = {t1, t2}
  TagOf <- MCTagOf
  Path = {t1, t2}
  PathOf <- MCTagOf
  Digest = {d1, d2}
  Viewer = {v1}
  MaxDeliver = 2
  Batch = 1
  Scenarios <- MCScenarios
INVARIANT UriGetsItBack
CHECK_DEADLOCK FALSE
