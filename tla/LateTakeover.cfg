SPECIFICATION Spec
CONSTANTS
  Tabs = {A, B, C}
  MaxClaims = 3
  NoTab = NoTab
PROPERTIES AuthorityIsTheManagers
CHECK_DEADLOCK FALSE
