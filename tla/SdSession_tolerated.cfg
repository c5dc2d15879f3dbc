SPECIFICATION Spec
CONSTANTS
  NSectors = 3
  MaxCount = 2
  Vals = {v0, v1}
  NoVal = NoVal
  CardHC = TRUE
  Faults <- Tolerated
INVARIANTS SessionInv ReadsReturnRequestedSectors
PROPERTIES WritesStayInRange ImplementsBlockDevice
