SPECIFICATION FairSpec
CONSTANTS
  Inodes = {i1, i2}
  Lines = {l1}
  NoLine = NoLine
  NoFile = NoFile
  MaxQueued = 3
  BufEvents = 2
  MaxOps = 4
INVARIANTS
  TypeOK
  SettledShowsFile
  SettledWatchesFile
  DiesOnlyBehind
PROPERTY CatchesUp
CHECK_DEADLOCK FALSE
