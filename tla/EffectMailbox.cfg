SPECIFICATION FairSpec
CONSTANTS
  Updates = {1, 2}
  Size <- MCSize
  MaxParts = 3
  MaxVersion = 5
  ReordersReads = FALSE
  NoUpdate = NoUpdate
  Torn = Torn
INVARIANTS NeverTorn
PROPERTIES GivesTheNewest NewestArrives
CHECK_DEADLOCK FALSE
