SPECIFICATION FairSpec
CONSTANTS
  Mains = {A, B}
  Projects = {"P", "Q"}
  Documents <- TwoProjects
  Bodies = {"k", "l"}
  BodiesOf <- Shared
  ContentOf <- Distinct
  MaxTerms = 3
  MaxMeta = 3
  HeldUpTerms = {2}
  NoDocument = NoDocument
INVARIANTS TypeOK StoredIsComplete NoDebris
PROPERTIES ImplementsCatalog JournalIsSettled
CHECK_DEADLOCK FALSE
