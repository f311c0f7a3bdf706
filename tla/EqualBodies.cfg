SPECIFICATION Spec
CONSTANTS
  Mains = {A, B}
  Projects = {"P", "Q"}
  Documents <- TwoProjects
  Bodies = {"k", "l"}
  BodiesOf <- Shared
  ContentOf <- Equal
  MaxTerms = 3
  MaxMeta = 3
  HeldUpTerms = {}
  NoDocument = NoDocument
INVARIANTS FilesJournalledOnce
CHECK_DEADLOCK FALSE
