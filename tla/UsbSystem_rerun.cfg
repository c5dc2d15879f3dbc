SPECIFICATION Spec
CONSTANTS
  Block = 2
  ImageUnits = 4
  CrcArea = 6
  NameUnits = 2
  RomUnits = 6
  FifoCap = 8
  MaxSessions = 5
  StaleAnswers = FALSE
  HostStalls = FALSE
  HostAborts = TRUE
  PlayerLeaves = "quiet"
CHECK_DEADLOCK FALSE
INVARIANTS BootsWholeImage RerunInv
