SPECIFICATION Spec
CONSTANTS
  rx = rx
  again = again
  ticker = ticker
  flush = flush
  tx = tx
  Mfy <- MCMfy
  Owner <- MCOwner
  Trigger = ticker
  MaxCalls <- MCTwoSections
  MaxHits = 1
INVARIANT OneContextInside
CHECK_DEADLOCK FALSE
