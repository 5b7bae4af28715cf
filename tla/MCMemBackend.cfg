\* Two clients over two datasets: every pair of calls in every interleaving.
CONSTANTS
  Clients = {c1, c2}
  Datasets = {d1, d2}
  Tables = {t1}
  Metas = {m1, m2}
  Schemas = {s1, s2}
  NoCall = NoCall
  NoAnswer = NoAnswer
  Nothing = Nothing
  NoClient = NoClient
  Workload <- EveryCall
SPECIFICATION Spec
SYMMETRY Symmetry
INVARIANT TypeOK
INVARIANT SectionsHoldTheLock
INVARIANT MapsAgree
INVARIANT NoStoreIntoNilMap
PROPERTY CatalogSpec
PROPERTY TablesGoOnlyWhenAsked
