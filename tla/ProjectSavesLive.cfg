CONSTANTS
  Projects = {p1, p2}
  NoProject = NoProject
  MaxEdits = 1
  MaxCalls = 3
SPECIFICATION FairSpec
PROPERTIES SwitchesEnd
CHECK_DEADLOCK FALSE
