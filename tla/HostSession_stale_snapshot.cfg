SPECIFICATION Spec
CONSTANTS
  b1 = b1  b2 = b2  r1 = r1  r2 = r2
  Binding = {b1, b2}
  RequestId = {r1, r2}
  None = None
  Circumstances <- LateRenders
  MaxReloads = 1  MaxQueue = 2
SYMMETRY Symmetry
INVARIANT SavedMeansStored
CHECK_DEADLOCK FALSE
