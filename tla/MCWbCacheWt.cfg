SPECIFICATION Spec
CONSTANTS
  WordsPerLine = 4
  NumberOfLines = 8
  WriteThrough = TRUE
  BypassBase = 64
  Reads <- MCReads
  Writes <- MCWrites
  Watched <- MCWatched
  Others <- MCOthers
  Withdraws = FALSE
INVARIANTS ReadsAreCurrentUnlessRaced CountsAgree
