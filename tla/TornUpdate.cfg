SPECIFICATION Spec
CONSTANTS
  Updates = {1, 2}
  Size <- MCSize
  MaxParts = 3
  MaxVersion = 5
  ReordersReads = TRUE
  NoUpdate = NoUpdate
  Torn = Torn
INVARIANT NeverTorn
CHECK_DEADLOCK FALSE
