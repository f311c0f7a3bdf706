CONSTANTS
  Tabs = {t1, t2}
  Edits = {e1, e2}
  Tokens = {k1, k2, k3, k4}
  NoToken = NoToken
  NoTab = NoTab
  NoSave = NoSave
  PreparesSnapshot = TRUE
  StorageMayFail = FALSE
SPECIFICATION Spec
SYMMETRY Symmetry
INVARIANTS HolderCarriesFence
CHECK_DEADLOCK FALSE
