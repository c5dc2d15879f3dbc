SPECIFICATION FairSpec
CONSTANTS
  G_SCREEN_W = 40
  G_SCREEN_H = 30
  G_BORDER = 2
  csize = 2
  Files <- MCFiles
  RomSectors = 8
  Dirs <- MCDirs
  MAX_DIR_SIZE = 20
  MAX_STR_LEN = 36
  EchoLens <- MCEchoLens
  MaxMessages = 26
CHECK_DEADLOCK FALSE
INVARIANTS AppInv BootsSelectedFile SwapOnlyInLoad
PROPERTIES LoadEnds
