SPECIFICATION FairSpec
CONSTANTS
  rx = rx
  again = again
  ticker = ticker
  flush = flush
  tx = tx
  Mfy <- MCMfy
  Owner <- MCOwner
  Trigger = ticker
  MaxCalls <- MCMaxCalls
  MaxHits = 1
INVARIANTS TypeOK IdleOwesNothing LinkedOnce MaskedForHolder
PROPERTIES EveryCallRuns
CHECK_DEADLOCK FALSE
