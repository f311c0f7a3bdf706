CONSTANTS
  Projects = {p1, p2}
  NoProject = NoProject
  MaxEdits = 2
  MaxCalls = 3
SPECIFICATION Spec
SYMMETRY Symmetry
INVARIANTS EditsAreFenced
CHECK_DEADLOCK FALSE
