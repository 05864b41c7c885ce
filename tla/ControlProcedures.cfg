SPECIFICATION Spec
CONSTANTS
  Phy = {PHY_1M, PHY_2M}
  PHY_1M = PHY_1M
  InstantDelta = 2
  Requests <- MCRequests
  MaxRequests <- MCTwoEach
  PhyBuilt <- MCBuilt
  NtfFree = {TRUE, FALSE}
INVARIANTS TypeOK BothExpectedOnlyIf IncompatHasOwner OneInstant PhysAgree PausedForProcedure
PROPERTIES CollisionsSurvived
