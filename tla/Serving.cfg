SPECIFICATION FairSpec
CONSTANTS
  query = query
  Others = {r1, r2}
  MaxBatches = 3
  Window = 2
INVARIANT TypeOK
INVARIANT ClosedWhenQuiet
INVARIANT OkIsComplete
INVARIANT OnlyForceBreaksStreams
PROPERTY SignalEndsEverything
PROPERTY AbandonedHandlersReturn
