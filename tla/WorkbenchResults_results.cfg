CONSTANTS
  o1 = o1  o2 = o2  m1 = m1  bad = bad  None = None
  Object <- MCObject
  Model <- MCModel
  Blocked <- MCBlocked
  MaxSolves = 2
  MaxScans = 1
  MaxRevision = 2
  MaxOpens = 1
  MaxAsked = 2
  MaxEvents = 5
  MaxCrossing = 2
SPECIFICATION FairSpec
CHECK_DEADLOCK FALSE
CONSTRAINT FewEvents
INVARIANTS  RequestsAccounted
PROPERTIES ResultsNotOlder  ReviewChangesNothing EveryRequestEnds
