CONSTANTS
  Projects = {p1, p2}
  NoProject = NoProject
  MaxEdits = 2
  MaxCalls = 3
SPECIFICATION PromptSpec
SYMMETRY Symmetry
INVARIANTS ActiveHasTab
CHECK_DEADLOCK FALSE
