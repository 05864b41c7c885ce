SPECIFICATION Spec
CONSTANTS
  Channel = {c1, c2, c3}
  HostMaps = {{c1, c2, c3}}
  CounterMod = 8
  TrainingEvents = 3
  LoggingEvents = 2
  BadRatePct = 50
  InstantDelta = 1
  NumCtx = 1
  MaxLazy = 0
  MaxTx = 7
SYMMETRY MCSymmetry
PROPERTY DecisionFromOwnConnection
