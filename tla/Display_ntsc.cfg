SPECIFICATION FairSpec
CONSTANTS
  Rows = 3
  VsyncLine = 0
  MaxPages = 3
INVARIANTS NoTearing DisplayInv
PROPERTY RepaintShows
