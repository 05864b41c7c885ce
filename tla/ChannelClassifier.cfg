SPECIFICATION Spec
CONSTANTS
  Channel = {c1, c2, c3}
  HostMaps = {{c1, c2, c3}, {c1, c2}}
  CounterMod = 8
  TrainingEvents = 3
  LoggingEvents = 2
  BadRatePct = 50
  InstantDelta = 1
  NumCtx = 1
  MaxLazy = 1
  MaxTx = 4
SYMMETRY MCSymmetry
INVARIANTS TypeOK EnoughChannels LossRatioAtMostOne
PROPERTIES ExclusionJustified EarlyOnlyOnWrap
