---------------------------- MODULE MCMemBackend ----------------------------
(* The in-memory backend under TLC. Clients are interchangeable, and so are *)
(* the names and payloads: nothing in the module tells two of them apart.   *)
EXTENDS MemBackend, TLC

EveryCall == Calls

\* One reader and two writers that enable each other's change.
ContendedCalls ==
  [op : {"ListDatasets"}]
    \cup [op : {"CreateDataset"}, ds : Datasets, meta : Metas, ifNotExists : {FALSE}]
    \cup [op : {"DropDataset"}, ds : Datasets, cascade : {TRUE}, ifExists : {FALSE}]

Symmetry == Permutations(Clients) \cup Permutations(Datasets)
              \cup Permutations(Metas) \cup Permutations(Schemas)
=============================================================================
