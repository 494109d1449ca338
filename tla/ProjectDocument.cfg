SPECIFICATION Spec
CONSTANTS
  f1 = f1  f2 = f2  o1 = o1  o2 = o2
  File = {f1, f2}
  Object = {o1, o2}
  DefaultObjects <- OneObject
  None = None
  Limit = 1
  MaxEdits = 2  MaxRevision = 3  Budget = 3  MaxTransfers = 2
CONSTRAINT InBudget
SYMMETRY Symmetry
INVARIANTS SavedMeansWritten HandleIsOfProject TimelineInOrder
PROPERTY ReloadKeepsWork
