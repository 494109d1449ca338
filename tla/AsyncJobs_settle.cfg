SPECIFICATION FairSpec
CONSTANTS
  k1 = k1  p1 = p1  p2 = p2  h1 = h1  h2 = h2  j1 = j1  j2 = j2
  Process = {p1, p2}
  Handler = {h1}
  Job = {j1}
  ClientKey = {k1}
  NoKey = NoKey
  KeyOf <- NoKeys
  Operations = {"submit", "get", "cancel", "calculate"}
  MaxWorkers = 1
  MaxJobs = 1
  Timeout = 1
  MaxFaults = 1
  StoreErrors = FALSE
  Timely = FALSE
  OrphanCheckDisabled = FALSE
INVARIANT HandleMeansWork
PROPERTY EveryJobSettles
