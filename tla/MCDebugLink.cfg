SPECIFICATION FairSpec
CONSTANTS
  ByteTime = 5
  MaxWait = 1
  Adrs <- MCAdrs
  Words <- MCWords
  Calls <- MCCalls
PROPERTIES ImplementsService NoByteIsDropped CallsReturn
