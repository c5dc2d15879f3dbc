SPECIFICATION FairSpec
CONSTANTS
  NSectors = 2
  MaxCount = 2
  Vals = {v0, v1}
  NoVal = NoVal
  CardHC = FALSE
  Faults <- AllFaults
INVARIANTS WriteSessionHeldByCard RetryIsSafe
PROPERTIES ReadRetryRecovers WriteRetryRecovers
