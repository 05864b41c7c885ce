SPECIFICATION FairSpec
CONSTANTS
  conn = conn
  adv = adv
  scan = scan
  Connections = {conn}
  Advertisers = {adv}
  Scanners = {scan}
INVARIANTS TypeOK OtherAssertionsHold References DisabledIsGone SilenceOwesNothing WaitingHasTimeout
PROPERTIES DisableReturns
CHECK_DEADLOCK FALSE
