SPECIFICATION FairSpec
CONSTANTS
  v0 = v0
  v1 = v1
  blank = blank
  none = none
  NumMasters = 2
  SlaveMap <- MCSlaveMap
  Connects <- MCConnects
  Kind <- MCKind
  Cells <- MCCells
  Commands <- MCFewCommands
  Holders = {1}
  Vals = {v0, v1}
  Blank = blank
  MaxBurst = 1
  NoCommand = none
PROPERTIES CommandsComplete
