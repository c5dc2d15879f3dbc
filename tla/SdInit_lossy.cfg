SPECIFICATION FairSpec
CONSTANTS
  WaitMax = 3
  ReadyMax = 5
  Rcas = {1, 2}
  LostCmds <- AllButCMD8
  LostAnswers <- AllButCMD8
INVARIANTS InitInv InitSound CleanCallSucceeds
PROPERTIES CallReturns
