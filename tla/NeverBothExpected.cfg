SPECIFICATION Spec
CONSTANTS
  Phy = {PHY_1M, PHY_2M}
  PHY_1M = PHY_1M
  InstantDelta = 1
  Requests <- MCNoTerminate
  MaxRequests <- MCTwoEach
  PhyBuilt <- MCBothBuilt
  NtfFree = {TRUE}
INVARIANT NeverBothExpected
