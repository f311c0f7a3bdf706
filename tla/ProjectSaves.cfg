CONSTANTS
  Projects = {p1, p2}
  NoProject = NoProject
  MaxEdits = 3
  MaxCalls = 3
SPECIFICATION Spec
SYMMETRY Symmetry
INVARIANTS TypeOK CleanMeansStored UnsavedIsOnItsWay LeasedProjectIsQuiet DiscardedStaysOut
PROPERTIES ClosedTabsWriteNothing StoredNeverGoesBack
CHECK_DEADLOCK FALSE
