---------------------------- MODULE CatalogCalls ----------------------------
(***************************************************************************)
(* The vocabulary shared by the catalog's abstract specification and by    *)
(* the in-memory backend that implements it: the calls of the              *)
(* backend.Backend interface (internal/backend/backend.go), the normalized *)
(* error codes of internal/serr/serr.go, and answers.                      *)
(*                                                                         *)
(* What a call carries is abstracted to what the catalog tells apart: a    *)
(* dataset's location, description and labels are one element of Metas, a  *)
(* table's columns, partitioning and clustering one element of Schemas.    *)
(* Paging options are left out: the in-memory backend ignores them and     *)
(* always answers one full page.                                           *)
(***************************************************************************)
CONSTANTS Datasets,   \* dataset names
          Tables,     \* table names
          Metas,      \* what CreateDatasetOptions says of a dataset
          Schemas,    \* what CreateTableOptions says of a table
          NoCall,     \* a client with no call in flight
          NoAnswer,   \* a call that is not answered yet
          Nothing     \* an answer that carries no value

-----------------------------------------------------------------------------
(* Go maps: partial functions.                                             *)

\* Every map with keys in K and values in V.
Maps(K, V) == UNION {[D -> V] : D \in SUBSET K}

EmptyMap == [x \in {} |-> x]

\* m[k] = v
Put(m, k, v) == [x \in DOMAIN m \cup {k} |-> IF x = k THEN v ELSE m[x]]

\* delete(m, k): no effect when k is absent.
Delete(m, k) == [x \in DOMAIN m \ {k} |-> m[x]]

-----------------------------------------------------------------------------
(* Calls and answers.                                                      *)

\* Operations an engine would serve: the in-memory backend has none.
EngineOps == {"Query", "Load", "Unload", "InsertRows", "Native"}

\* Operations on jobs, of which the in-memory backend has none.
JobOps == {"GetJob", "CancelJob"}

ReadCalls ==
  [op : {"ListDatasets"}]
    \cup [op : {"ListTables"}, ds : Datasets]
    \cup [op : {"GetTable"}, ds : Datasets, tbl : Tables]

DatasetCalls ==
  [op : {"CreateDataset"}, ds : Datasets, meta : Metas, ifNotExists : BOOLEAN]
    \cup [op : {"DropDataset"}, ds : Datasets, cascade : BOOLEAN, ifExists : BOOLEAN]

TableCalls ==
  [op : {"CreateTable"}, ds : Datasets, tbl : Tables, schema : Schemas,
   ifNotExists : BOOLEAN, asSelect : BOOLEAN]
    \cup [op : {"DropTable"}, ds : Datasets, tbl : Tables, ifExists : BOOLEAN]

Calls == ReadCalls \cup DatasetCalls \cup TableCalls \cup [op : EngineOps \cup JobOps]

Codes == {"OK", "NotFound", "AlreadyExists", "PreconditionFailed", "Unsupported"}

\* A listing is a map from the listed names to what is listed of them. The
\* sort by name makes the order of a listing a function of its contents, so
\* the order is left out.
DatasetListings == Maps(Datasets, Metas)
TableListings   == Maps(Tables, {Nothing})

Answers == [code : Codes,
            value : {Nothing} \cup Metas \cup Schemas \cup DatasetListings \cup TableListings]

Answer(code, value) == [code |-> code, value |-> value]

\* An idle client and a pending call are told apart from any call or answer.
ASSUME CallAssumption == NoCall \notin Calls /\ NoAnswer \notin Answers
=============================================================================
