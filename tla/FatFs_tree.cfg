SPECIFICATION Spec
CONSTANTS
 FatType = "FAT32" FatEnt = 4 DirEnt = 3 SS = 1 csize = 1 NClst = 7 n_rootdir = 0
 Names <- MCNames LfnEntries <- MCLfn SfnBase <- MCBase
 Files <- TreeFiles Dirs <- TreeDirs Moves <- TreeMoves Modes <- TreeModes Writes <- TreeWrites
 Reads = {1} Seeks = {} Ops <- TreeOps Setup <- TreeSetup
 Faults = {"power", "lost", "done"} MaxCalls = 3 MaxFaults = 1
INVARIANTS ChainsDisjoint EntriesCovered FinishedSurvives FreeCountTrue AnswersTrue
CHECK_DEADLOCK FALSE
