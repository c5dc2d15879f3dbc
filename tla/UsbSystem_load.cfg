SPECIFICATION FairSpec
CONSTANTS
  Block = 2
  ImageUnits = 6
  CrcArea = 8
  NameUnits = 2
  RomUnits = 8
  FifoCap = 3
  MaxSessions = 2
  StaleAnswers = TRUE
  HostStalls = FALSE
  HostAborts = FALSE
  PlayerLeaves = "never"
CHECK_DEADLOCK FALSE
INVARIANTS RomHoldsImageOnly NoDataAsCommand LoadInv
PROPERTIES NotFoundMeansAbsent GameStarts
