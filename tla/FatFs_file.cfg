SPECIFICATION Spec
CONSTANTS
 FatType = "FAT16" FatEnt = 4 DirEnt = 3 SS = 2 csize = 2 NClst = 3 n_rootdir = 3
 Names <- MCNames LfnEntries <- MCLfn SfnBase <- MCBase
 Files <- FileFiles Dirs <- None Moves <- None Modes <- FileModes Writes <- FileWrites
 Reads = {1, 3} Seeks = {1, 4, 9} Ops <- FileOps Setup <- FileSetup
 Faults = {"power", "lost", "done"} MaxCalls = 5 MaxFaults = 1
INVARIANTS FinishedSurvives SpaceIsFound AnswersTrue
CHECK_DEADLOCK FALSE
