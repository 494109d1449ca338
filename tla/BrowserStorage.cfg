SPECIFICATION Spec
CONSTANTS
  t1 = t1  t2 = t2
  Tab = {t1, t2}
  None = None
  Corrupt = Corrupt
  MaxCount = 2
  Legacies <- OldStorages
  MaxMade = 2  MaxFailures = 1
SYMMETRY Symmetry
PROPERTIES ReloadBringsBack LibraryFollowsUser
