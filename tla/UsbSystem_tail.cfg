SPECIFICATION Spec
CONSTANTS
  Block = 2
  ImageUnits = 5
  CrcArea = 6
  NameUnits = 2
  RomUnits = 6
  FifoCap = 3
  MaxSessions = 1
  StaleAnswers = TRUE
  HostStalls = FALSE
  HostAborts = FALSE
  PlayerLeaves = "never"
CHECK_DEADLOCK FALSE
INVARIANTS BootsWholeImage
