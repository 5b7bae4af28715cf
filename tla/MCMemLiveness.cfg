\* Three clients on one dataset: enough for a writer to wait for a writer and
\* for a reader at once. No symmetry: it is unsound for liveness.
CONSTANTS
  Clients = {c1, c2, c3}
  Datasets = {d1}
  Tables = {t1}
  Metas = {m1}
  Schemas = {s1}
  NoCall = NoCall
  NoAnswer = NoAnswer
  Nothing = Nothing
  NoClient = NoClient
  Workload <- ContendedCalls
SPECIFICATION FairSpec
PROPERTY EveryCallReturns
