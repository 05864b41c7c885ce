SPECIFICATION HopFairSpec
CONSTANTS
  Map <- MCMap
  NumChannels = 5
  Hop = {3}
  ChanId = 12383
  CounterMod = 20
  InstantDelta = 2
  NumCtx = 2
  TxBufs = 1
  CentralSkip = 1
  PeripheralSkip = 2
  MaxStall = 2
INVARIANTS TypeOK CountersTrackAnchors HopsAgree PeripheralFree SidesMeet
PROPERTIES RequestsTakeEffect AgreementReturns
