SPECIFICATION FairSpec
CONSTANTS
  Phy = {PHY_1M, PHY_2M}
  PHY_1M = PHY_1M
  InstantDelta = 1
  Requests <- MCRequests
  MaxRequests <- MCTwoAndOne
  PhyBuilt <- MCBuilt
  NtfFree = {TRUE}
PROPERTIES ProceduresEnd
