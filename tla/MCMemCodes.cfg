\* serr.go:20 read literally, against what CreateDataset and CreateTable answer.
CONSTANTS
  Clients = {c1}
  Datasets = {d1}
  Tables = {t1}
  Metas = {m1}
  Schemas = {s1}
  NoCall = NoCall
  NoAnswer = NoAnswer
  Nothing = Nothing
  NoClient = NoClient
  Workload <- EveryCall
SPECIFICATION Spec
INVARIANT AlreadyExistsMeansIfNotExists
