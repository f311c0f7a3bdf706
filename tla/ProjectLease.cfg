SPECIFICATION Spec
CONSTANTS
  Tabs = {A, B, C}
  Owners = {1, 2, 3}
  Timely = TRUE
  Atomic = TRUE
  NoOwner = NoOwner
SYMMETRY Symmetry
INVARIANTS SingleWriter
CHECK_DEADLOCK FALSE
