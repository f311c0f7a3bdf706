SPECIFICATION Spec
CONSTANTS
  Mains = {A, B}
  Projects = {"P", "Q"}
  Documents <- TwoProjects
  Bodies = {"k", "l"}
  BodiesOf <- Shared
  ContentOf <- Distinct
  MaxTerms = 3
  MaxMeta = 3
  HeldUpTerms = {1, 2}
  NoDocument = NoDocument
SYMMETRY Symmetry
INVARIANTS NothingIsMissing
CHECK_DEADLOCK FALSE
