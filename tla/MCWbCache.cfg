SPECIFICATION Spec
CONSTANTS
  WordsPerLine = 4
  NumberOfLines = 2
  WriteThrough = FALSE
  BypassBase = 64
  Reads <- MCReads
  Writes <- MCWrites
  Watched <- MCWatched
  Others = {}
  Withdraws = FALSE
INVARIANTS ReadsAreCurrent NoWriteIsLost CountsAgree
