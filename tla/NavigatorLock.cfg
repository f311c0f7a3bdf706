SPECIFICATION FairSpec
CONSTANTS
  Tabs = {A, B, C}
  MaxClaims = 3
  NoTab = NoTab
INVARIANTS OneRightfulWriter
PROPERTIES TwoWritersEnd HandoffHappens
CHECK_DEADLOCK FALSE
