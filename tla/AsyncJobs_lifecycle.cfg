SPECIFICATION Spec
CONSTANTS
  k1 = k1  p1 = p1  p2 = p2  h1 = h1  h2 = h2  j1 = j1  j2 = j2
  Process = {p1, p2}
  Handler = {h1, h2}
  Job = {j1, j2}
  ClientKey = {k1}
  NoKey = NoKey
  KeyOf <- OneKey
  Operations = {"submit", "get", "cancel", "calculate"}
  MaxWorkers = 1
  MaxJobs = 0
  Timeout = 2
  MaxFaults = 2
  StoreErrors = TRUE
  Timely = TRUE
  OrphanCheckDisabled = FALSE
SYMMETRY Symmetry
INVARIANTS OneJobPerKey OneComputationPerKey OrphanedHasNoWorker CancelledNeverRuns
PROPERTY FollowsLifecycle
