CONSTANTS
  Tabs = {t1, t2}
  Edits = {e1, e2}
  Tokens = {k1, k2}
  NoToken = NoToken
  NoTab = NoTab
  NoSave = NoSave
  PreparesSnapshot = FALSE
  StorageMayFail = FALSE
SPECIFICATION FairSpec
INVARIANTS SavesInOrder
PROPERTIES AutosaveReachesStore
CHECK_DEADLOCK FALSE
