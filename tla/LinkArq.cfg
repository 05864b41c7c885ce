SPECIFICATION FairSpec
CONSTANTS
  Data = {a, b}
  Empty = Empty
  MaxPdus = 2
INVARIANTS TypeOK InOrderOnce ReleasedWereDelivered InStepWhileUp
PROPERTIES EventuallyDelivered ImplementsLink
CHECK_DEADLOCK FALSE
