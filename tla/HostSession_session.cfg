SPECIFICATION LiveSpec
CONSTANTS
  b1 = b1  b2 = b2  r1 = r1  r2 = r2
  Binding = {b1, b2}
  RequestId = {r1, r2}
  None = None
  Circumstances <- CalmAndRough
  MaxReloads = 1  MaxQueue = 2
INVARIANTS PendingAgrees StoredInTime HostSeesEdits ActiveMeansBound
PROPERTIES ActiveNeverFails EverySaveEnds EditsSurviveRetries HostNeverHangs
CONSTRAINT NamesInOrder
CHECK_DEADLOCK FALSE
