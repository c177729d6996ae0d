SPECIFICATION Spec
CONSTANTS
  v = v
  blank = blank
  none = none
  InitCycles = 24
  RcdCycles = 2
  RpCycles = 2
  RasCycles = 6
  RfcCycles = 3
  WrCycles = 3
  T_MRD_Cycles = 3
  CasLatency = 3
  RefreshCycles = 20
  InitRefreshCount = 2
  Adrs <- MCAdrs
  Values = {v}
  Blank = blank
  NoData = none
INVARIANTS TimingIsKept BusIsSingleDriven AcksAreInOrder RefreshIsInTime ProgressIsInTime
