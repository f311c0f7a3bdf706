CONSTANTS
  Projects = {p1, p2}
  NoProject = NoProject
  MaxEdits = 1
  MaxCalls = 3
SPECIFICATION FairPromptSpec
PROPERTIES SuspensionIsTemporary
CHECK_DEADLOCK FALSE
