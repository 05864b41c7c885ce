SPECIFICATION HopSpec
CONSTANTS
  Map <- MCMap
  NumChannels = 5
  Hop = {3}
  ChanId = 12383
  CounterMod = 16
  InstantDelta = 2
  NumCtx = 1
  TxBufs = 1
  CentralSkip = 1
  PeripheralSkip = 1
  MaxStall = 2
PROPERTY ClosedOnlyIfInstantPassed
