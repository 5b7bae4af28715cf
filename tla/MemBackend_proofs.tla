-------------------------- MODULE MemBackend_proofs --------------------------
(***************************************************************************)
(* The safety of the in-memory backend, for any number of clients and any  *)
(* sets of names and payloads.                                             *)
(*                                                                         *)
(* The argument: the mutex gives the write section to one handler at a     *)
(* time (Locking), so what a writer's check saw is still true when its     *)
(* statements run (Checked), so the two maps differ only while one writer  *)
(* is between its two statements (MapsDiffer).                             *)
(*                                                                         *)
(* The second part shows that it implements the atomic Catalog: while a    *)
(* handler reads, no statement of a writer runs, so what its loop has      *)
(* collected still is what the maps hold (Snapshot). Then every step of a  *)
(* handler maps to one step of Catalog or changes nothing Catalog sees: a  *)
(* read or a refusal takes effect where its answer is decided, a create at *)
(* its last statement, a drop at its first.                                *)
(***************************************************************************)
EXTENDS MemBackend, TLAPS

-----------------------------------------------------------------------------
(* The map operators of CatalogCalls, the fields of a call, and answers.   *)

\* The empty map is a map of any type: what a Go map literal starts as.
LEMMA EmptyMapType ==
  ASSUME NEW K, NEW V
  PROVE  EmptyMap \in Maps(K, V) /\ DOMAIN EmptyMap = {}
BY DEF EmptyMap, Maps

\* A map's keys and values have the map's types.
LEMMA MapsElim ==
  ASSUME NEW K, NEW V, NEW m \in Maps(K, V)
  PROVE  /\ DOMAIN m \subseteq K
         /\ \A k \in DOMAIN m : m[k] \in V
         /\ m = [k \in DOMAIN m |-> m[k]]
BY DEF Maps

\* A function from keys to values is a map.
LEMMA MapsIntro ==
  ASSUME NEW K, NEW V, NEW D \in SUBSET K, NEW m \in [D -> V]
  PROVE  m \in Maps(K, V)
BY DEF Maps

\* A store keeps the map's type.
LEMMA PutMap ==
  ASSUME NEW K, NEW V, NEW m \in Maps(K, V), NEW k \in K, NEW v \in V
  PROVE  Put(m, k, v) \in Maps(K, V)
<1>1. DOMAIN m \subseteq K /\ \A x \in DOMAIN m : m[x] \in V
  BY MapsElim
<1>2. Put(m, k, v) \in [DOMAIN m \cup {k} -> V]
  BY <1>1 DEF Put
<1> QED
  BY <1>1, <1>2, MapsIntro

\* A deletion keeps the map's type.
LEMMA DeleteMap ==
  ASSUME NEW K, NEW V, NEW m \in Maps(K, V), NEW k
  PROVE  Delete(m, k) \in Maps(K, V)
<1>1. DOMAIN m \subseteq K /\ \A x \in DOMAIN m : m[x] \in V
  BY MapsElim
<1>2. Delete(m, k) \in [DOMAIN m \ {k} -> V]
  BY <1>1 DEF Delete
<1> QED
  BY <1>1, <1>2, MapsIntro

\* The arguments a call of each operation carries.
LEMMA CallFields ==
  ASSUME NEW k \in Calls
  PROVE  /\ k.op \in {"ListTables", "GetTable", "CreateDataset", "DropDataset",
                      "CreateTable", "DropTable"} => k.ds \in Datasets
         /\ k.op \in {"GetTable", "CreateTable", "DropTable"} => k.tbl \in Tables
         /\ k.op = "CreateDataset" => k.meta \in Metas
         /\ k.op = "CreateTable" => k.schema \in Schemas
BY DEF Calls, ReadCalls, DatasetCalls, TableCalls, EngineOps, JobOps

\* Every range loop starts from an empty listing.
LEMMA EmptyListing ==
  EmptyMap \in DatasetListings /\ EmptyMap \in TableListings
BY EmptyMapType DEF DatasetListings, TableListings

\* An answer is made of a code and a value of the types that answers carry.
LEMMA AnswerType ==
  ASSUME NEW code \in Codes,
         NEW value \in {Nothing} \cup Metas \cup Schemas \cup DatasetListings \cup TableListings
  PROVE  Answer(code, value) \in Answers /\ Answer(code, value) # NoAnswer
<1>1. Answer(code, value) \in Answers
  BY DEF Answer, Answers
<1> QED
  BY <1>1, CallAssumption

-----------------------------------------------------------------------------
(* The inductive invariant.                                                *)

\* Which operations a handler at each statement can be serving.
OpAt(c) ==
  /\ pc[c] = "idle" <=> call[c] = NoCall
  /\ pc[c] = "read" => call[c].op \in ReaderOps
  /\ pc[c] = "scanDatasets" => call[c].op = "ListDatasets"
  /\ pc[c] = "scanTables" => call[c].op = "ListTables"
  /\ pc[c] \in {"addDataset", "addTables"} => call[c].op = "CreateDataset"
  /\ pc[c] \in {"delDataset", "delTables"} => call[c].op = "DropDataset"
  /\ pc[c] = "addTable" => call[c].op = "CreateTable" /\ ~call[c].asSelect
  /\ pc[c] = "delTable" => call[c].op = "DropTable"
  /\ pc[c] \in {"lock", "acquire", "check"} =>
       call[c].op \notin ReaderOps /\ ~Refused(call[c])

\* Who is in the read and write sections, and who waits for them.
Locking(c) ==
  /\ announced = c <=> pc[c] \in {"acquire"} \cup WritePCs
  /\ announced = c /\ writing <=> pc[c] \in WritePCs
  /\ c \in readers => pc[c] \in ReadPCs
  /\ c \in queued => pc[c] = "read"
  /\ pc[c] \in ReadPCs \ {"read"} => c \in readers

\* What a handler collects of a dataset's names, and when an answer exists.
Listing(c) ==
  /\ pc[c] = "scanDatasets" => listing[c] \in DatasetListings
  /\ pc[c] = "scanTables" => listing[c] \in TableListings
  /\ pc[c] \notin {"scanDatasets", "scanTables", "runlock"} => listing[c] = EmptyMap
  /\ answer[c] # NoAnswer <=> pc[c] \in {"runlock", "unlock", "return"}

\* What a writer's check established and its statements rely on.
Checked(c) ==
  /\ pc[c] = "addDataset" => call[c].ds \notin DOMAIN datasets
  /\ pc[c] = "delDataset" => call[c].ds \in DOMAIN datasets /\ Droppable(call[c])
  /\ pc[c] = "addTable" =>
       call[c].ds \in DOMAIN tables /\ call[c].tbl \notin DOMAIN tables[call[c].ds]
  /\ pc[c] = "delTable" =>
       call[c].ds \in DOMAIN tables /\ call[c].tbl \in DOMAIN tables[call[c].ds]

\* How far the two maps are apart while a writer is between its statements.
MapsDiffer(c) ==
  /\ pc[c] = "addTables" =>
       /\ call[c].ds \notin DOMAIN tables
       /\ DOMAIN datasets = DOMAIN tables \cup {call[c].ds}
  /\ pc[c] = "delTables" =>
       /\ call[c].ds \notin DOMAIN datasets
       /\ DOMAIN tables = DOMAIN datasets \cup {call[c].ds}

IInv ==
  /\ TypeOK
  /\ RW!Exclusion
  /\ MapsAgree
  /\ \A c \in Clients :
       OpAt(c) /\ Locking(c) /\ Listing(c) /\ Checked(c) /\ MapsDiffer(c)

-----------------------------------------------------------------------------
(* What the invariant says of a handler that is about to take a step.      *)

\* While a handler is in the write section no other is, and the maps agree
\* unless it is between its two statements.
LEMMA WriterAlone ==
  ASSUME IInv, NEW c \in Clients, pc[c] \in WritePCs
  PROVE  /\ \A e \in Clients \ {c} : pc[e] \notin WritePCs
         /\ pc[c] \notin {"addTables", "delTables"} => DOMAIN tables = DOMAIN datasets
<1>1. \A e \in Clients \ {c} : pc[e] \notin WritePCs
  BY DEF IInv, Locking
<1> QED
  BY <1>1 DEF IInv, MapsAgree, WritePCs

\* A handler past its invocation has a call.
LEMMA HasCall ==
  ASSUME IInv, NEW c \in Clients, pc[c] # "idle"
  PROVE  call[c] \in Calls
BY DEF IInv, TypeOK, OpAt

\* The maps, and what indexing them gives, have their types.
LEMMA MapTypes ==
  ASSUME IInv
  PROVE  /\ datasets \in Maps(Datasets, Metas)
         /\ tables \in Maps(Datasets, Maps(Tables, Schemas))
         /\ \A d \in DOMAIN datasets : datasets[d] \in Metas
         /\ DOMAIN tables \subseteq Datasets
         /\ \A d \in DOMAIN tables : tables[d] \in Maps(Tables, Schemas)
         /\ \A d \in DOMAIN tables : \A t \in DOMAIN tables[d] : tables[d][t] \in Schemas
         /\ \A d : TablesOf(d) \in Maps(Tables, Schemas) /\ DOMAIN TablesOf(d) \subseteq Tables
<1>1. /\ datasets \in Maps(Datasets, Metas)
      /\ tables \in Maps(Datasets, Maps(Tables, Schemas))
  BY DEF IInv, TypeOK
<1>2. /\ \A d \in DOMAIN datasets : datasets[d] \in Metas
      /\ DOMAIN tables \subseteq Datasets
      /\ \A d \in DOMAIN tables : tables[d] \in Maps(Tables, Schemas)
  BY <1>1, MapsElim
<1>3. \A d \in DOMAIN tables : \A t \in DOMAIN tables[d] : tables[d][t] \in Schemas
  BY <1>2, MapsElim
<1>4. \A d : TablesOf(d) \in Maps(Tables, Schemas)
  BY <1>2, EmptyMapType DEF TablesOf
<1>5. \A d : DOMAIN TablesOf(d) \subseteq Tables
  BY <1>4, MapsElim
<1> QED
  BY <1>1, <1>2, <1>3, <1>4, <1>5

-----------------------------------------------------------------------------
(* Every step of a handler preserves the invariant.                        *)

\* Action Invoke.
LEMMA InvokeStep ==
  ASSUME IInv, NEW c \in Clients, Invoke(c)
  PROVE  IInv'
<1> USE ClientAssumption, CallAssumption DEF Invoke, memVars, mutexVars, At, Goto
<1>1. TypeOK'
  BY DEF IInv, TypeOK, RW!TypeOK, PCs, ReadPCs, WritePCs
<1>2. RW!Exclusion'
  BY DEF IInv, RW!Exclusion
<1>3. MapsAgree'
  BY DEF IInv, MapsAgree, TypeOK
<1>4. \A e \in Clients : OpAt(e)'
  BY DEF IInv, OpAt, TypeOK
<1>5. \A e \in Clients : Locking(e)'
  BY DEF IInv, Locking, TypeOK, ReadPCs, WritePCs, RW!Exclusion
<1>6. \A e \in Clients : Listing(e)'
  BY DEF IInv, Listing, TypeOK
<1>7. \A e \in Clients : Checked(e)'
  BY DEF IInv, Checked, Droppable, TablesOf, TypeOK
<1>8. \A e \in Clients : MapsDiffer(e)'
  BY DEF IInv, MapsDiffer, TypeOK
<1> QED
  BY <1>1, <1>2, <1>3, <1>4, <1>5, <1>6, <1>7, <1>8 DEF IInv

\* Action Refuse.
LEMMA RefuseStep ==
  ASSUME IInv, NEW c \in Clients, Refuse(c)
  PROVE  IInv'
<1> USE ClientAssumption, CallAssumption DEF Refuse, memVars, mutexVars, At, Goto, Refused, Finish
<1>1. TypeOK'
  BY AnswerType DEF IInv, TypeOK, RW!TypeOK, PCs, ReadPCs, WritePCs, Codes
<1>2. RW!Exclusion'
  BY DEF IInv, RW!Exclusion
<1>3. MapsAgree'
  BY DEF IInv, MapsAgree, TypeOK
<1>4. \A e \in Clients : OpAt(e)'
  BY DEF IInv, OpAt, TypeOK
<1>5. \A e \in Clients : Locking(e)'
  BY DEF IInv, Locking, TypeOK, ReadPCs, WritePCs, RW!Exclusion
<1>6. \A e \in Clients : Listing(e)'
  BY AnswerType DEF IInv, Listing, TypeOK, Codes
<1>7. \A e \in Clients : Checked(e)'
  BY DEF IInv, Checked, Droppable, TablesOf, TypeOK
<1>8. \A e \in Clients : MapsDiffer(e)'
  BY DEF IInv, MapsDiffer, TypeOK
<1> QED
  BY <1>1, <1>2, <1>3, <1>4, <1>5, <1>6, <1>7, <1>8 DEF IInv

\* Action RLock.
LEMMA RLockStep ==
  ASSUME IInv, NEW c \in Clients, RLock(c)
  PROVE  IInv'
<1> USE ClientAssumption, CallAssumption DEF RLock, memVars, mutexVars, At, Goto, RW!RLock
<1>1. TypeOK'
  BY DEF IInv, TypeOK, RW!TypeOK, PCs, ReadPCs, WritePCs
<1>2. RW!Exclusion'
  BY DEF IInv, RW!Exclusion, TypeOK, RW!TypeOK, Locking, ReadPCs
<1>3. MapsAgree'
  BY DEF IInv, MapsAgree, TypeOK
<1>4. \A e \in Clients : OpAt(e)'
  BY DEF IInv, OpAt, TypeOK
<1>5. \A e \in Clients : Locking(e)'
  BY DEF IInv, Locking, TypeOK, ReadPCs, WritePCs, RW!Exclusion
<1>6. \A e \in Clients : Listing(e)'
  BY DEF IInv, Listing, TypeOK
<1>7. \A e \in Clients : Checked(e)'
  BY DEF IInv, Checked, Droppable, TablesOf, TypeOK
<1>8. \A e \in Clients : MapsDiffer(e)'
  BY DEF IInv, MapsDiffer, TypeOK
<1> QED
  BY <1>1, <1>2, <1>3, <1>4, <1>5, <1>6, <1>7, <1>8 DEF IInv

\* Action RUnlock.
LEMMA RUnlockStep ==
  ASSUME IInv, NEW c \in Clients, RUnlock(c)
  PROVE  IInv'
<1> USE ClientAssumption, CallAssumption DEF RUnlock, memVars, mutexVars, At, Goto, RW!RUnlock, RW!RHolds
<1>1. TypeOK'
  BY EmptyListing DEF IInv, TypeOK, RW!TypeOK, PCs, ReadPCs, WritePCs
<1>2. RW!Exclusion'
  BY DEF IInv, RW!Exclusion, TypeOK, RW!TypeOK, Locking, ReadPCs
<1>3. MapsAgree'
  BY DEF IInv, MapsAgree, TypeOK
<1>4. \A e \in Clients : OpAt(e)'
  BY DEF IInv, OpAt, TypeOK
<1>5. \A e \in Clients : Locking(e)'
  BY DEF IInv, Locking, TypeOK, ReadPCs, WritePCs, RW!Exclusion
<1>6. \A e \in Clients : Listing(e)'
  BY EmptyListing DEF IInv, Listing, TypeOK
<1>7. \A e \in Clients : Checked(e)'
  BY DEF IInv, Checked, Droppable, TablesOf, TypeOK
<1>8. \A e \in Clients : MapsDiffer(e)'
  BY DEF IInv, MapsDiffer, TypeOK
<1> QED
  BY <1>1, <1>2, <1>3, <1>4, <1>5, <1>6, <1>7, <1>8 DEF IInv

\* Action Lock.
LEMMA LockStep ==
  ASSUME IInv, NEW c \in Clients, Lock(c)
  PROVE  IInv'
<1> USE ClientAssumption, CallAssumption DEF Lock, memVars, mutexVars, At, Goto
<1>1. TypeOK'
  BY DEF IInv, TypeOK, RW!TypeOK, PCs, ReadPCs, WritePCs
<1>2. RW!Exclusion'
  BY DEF IInv, RW!Exclusion
<1>3. MapsAgree'
  BY DEF IInv, MapsAgree, TypeOK
<1>4. \A e \in Clients : OpAt(e)'
  BY DEF IInv, OpAt, TypeOK
<1>5. \A e \in Clients : Locking(e)'
  BY DEF IInv, Locking, TypeOK, ReadPCs, WritePCs, RW!Exclusion
<1>6. \A e \in Clients : Listing(e)'
  BY DEF IInv, Listing, TypeOK
<1>7. \A e \in Clients : Checked(e)'
  BY DEF IInv, Checked, Droppable, TablesOf, TypeOK
<1>8. \A e \in Clients : MapsDiffer(e)'
  BY DEF IInv, MapsDiffer, TypeOK
<1> QED
  BY <1>1, <1>2, <1>3, <1>4, <1>5, <1>6, <1>7, <1>8 DEF IInv

\* Action Announce.
LEMMA AnnounceStep ==
  ASSUME IInv, NEW c \in Clients, Announce(c)
  PROVE  IInv'
<1> USE ClientAssumption, CallAssumption DEF Announce, memVars, mutexVars, At, Goto, RW!Announce
<1>1. TypeOK'
  BY DEF IInv, TypeOK, RW!TypeOK, PCs, ReadPCs, WritePCs
<1>2. RW!Exclusion'
  BY DEF IInv, RW!Exclusion, TypeOK, RW!TypeOK, Locking, ReadPCs
<1>3. MapsAgree'
  BY DEF IInv, MapsAgree, TypeOK
<1>4. \A e \in Clients : OpAt(e)'
  BY DEF IInv, OpAt, TypeOK
<1>5. \A e \in Clients : Locking(e)'
  BY DEF IInv, Locking, TypeOK, ReadPCs, WritePCs, RW!Exclusion
<1>6. \A e \in Clients : Listing(e)'
  BY DEF IInv, Listing, TypeOK
<1>7. \A e \in Clients : Checked(e)'
  BY DEF IInv, Checked, Droppable, TablesOf, TypeOK
<1>8. \A e \in Clients : MapsDiffer(e)'
  BY DEF IInv, MapsDiffer, TypeOK
<1> QED
  BY <1>1, <1>2, <1>3, <1>4, <1>5, <1>6, <1>7, <1>8 DEF IInv

\* Action Acquire.
LEMMA AcquireStep ==
  ASSUME IInv, NEW c \in Clients, Acquire(c)
  PROVE  IInv'
<1> USE ClientAssumption, CallAssumption DEF Acquire, memVars, mutexVars, At, Goto, RW!Acquire
<1>1. TypeOK'
  BY DEF IInv, TypeOK, RW!TypeOK, PCs, ReadPCs, WritePCs
<1>2. RW!Exclusion'
  BY DEF IInv, RW!Exclusion, TypeOK, RW!TypeOK, Locking, ReadPCs
<1>3. MapsAgree'
  BY DEF IInv, MapsAgree, TypeOK
<1>4. \A e \in Clients : OpAt(e)'
  BY DEF IInv, OpAt, TypeOK
<1>5. \A e \in Clients : Locking(e)'
  BY DEF IInv, Locking, TypeOK, ReadPCs, WritePCs, RW!Exclusion
<1>6. \A e \in Clients : Listing(e)'
  BY DEF IInv, Listing, TypeOK
<1>7. \A e \in Clients : Checked(e)'
  BY DEF IInv, Checked, Droppable, TablesOf, TypeOK
<1>8. \A e \in Clients : MapsDiffer(e)'
  BY DEF IInv, MapsDiffer, TypeOK
<1> QED
  BY <1>1, <1>2, <1>3, <1>4, <1>5, <1>6, <1>7, <1>8 DEF IInv

\* Action Unlock.
LEMMA UnlockStep ==
  ASSUME IInv, NEW c \in Clients, Unlock(c)
  PROVE  IInv'
<1> USE ClientAssumption, CallAssumption DEF Unlock, memVars, mutexVars, At, Goto, RW!Unlock
<1>1. TypeOK'
  BY DEF IInv, TypeOK, RW!TypeOK, PCs, ReadPCs, WritePCs
<1>2. RW!Exclusion'
  BY DEF IInv, RW!Exclusion, TypeOK, RW!TypeOK, Locking, ReadPCs
<1>3. MapsAgree'
  BY DEF IInv, MapsAgree, TypeOK
<1>4. \A e \in Clients : OpAt(e)'
  BY DEF IInv, OpAt, TypeOK
<1>5. \A e \in Clients : Locking(e)'
  BY DEF IInv, Locking, TypeOK, ReadPCs, WritePCs, RW!Exclusion
<1>6. \A e \in Clients : Listing(e)'
  BY DEF IInv, Listing, TypeOK
<1>7. \A e \in Clients : Checked(e)'
  BY DEF IInv, Checked, Droppable, TablesOf, TypeOK
<1>8. \A e \in Clients : MapsDiffer(e)'
  BY DEF IInv, MapsDiffer, TypeOK
<1> QED
  BY <1>1, <1>2, <1>3, <1>4, <1>5, <1>6, <1>7, <1>8 DEF IInv

\* Action Return.
LEMMA ReturnStep ==
  ASSUME IInv, NEW c \in Clients, Return(c)
  PROVE  IInv'
<1> USE ClientAssumption, CallAssumption DEF Return, memVars, mutexVars, At, Goto
<1>1. TypeOK'
  BY DEF IInv, TypeOK, RW!TypeOK, PCs, ReadPCs, WritePCs
<1>2. RW!Exclusion'
  BY DEF IInv, RW!Exclusion
<1>3. MapsAgree'
  BY DEF IInv, MapsAgree, TypeOK
<1>4. \A e \in Clients : OpAt(e)'
  BY DEF IInv, OpAt, TypeOK
<1>5. \A e \in Clients : Locking(e)'
  BY DEF IInv, Locking, TypeOK, ReadPCs, WritePCs, RW!Exclusion
<1>6. \A e \in Clients : Listing(e)'
  BY DEF IInv, Listing, TypeOK
<1>7. \A e \in Clients : Checked(e)'
  BY DEF IInv, Checked, Droppable, TablesOf, TypeOK
<1>8. \A e \in Clients : MapsDiffer(e)'
  BY DEF IInv, MapsDiffer, TypeOK
<1> QED
  BY <1>1, <1>2, <1>3, <1>4, <1>5, <1>6, <1>7, <1>8 DEF IInv

\* Action ListDatasets.
LEMMA ListDatasetsStep ==
  ASSUME IInv, NEW c \in Clients, ListDatasets(c)
  PROVE  IInv'
<1> USE ClientAssumption, CallAssumption DEF ListDatasets, memVars, mutexVars, At, Goto, Reading, RW!RHolds
<1>1. TypeOK'
  BY EmptyListing DEF IInv, TypeOK, RW!TypeOK, PCs, ReadPCs, WritePCs
<1>2. RW!Exclusion'
  BY DEF IInv, RW!Exclusion
<1>3. MapsAgree'
  BY DEF IInv, MapsAgree, TypeOK
<1>4. \A e \in Clients : OpAt(e)'
  BY DEF IInv, OpAt, TypeOK
<1>5. \A e \in Clients : Locking(e)'
  BY DEF IInv, Locking, TypeOK, ReadPCs, WritePCs, RW!Exclusion
<1>6. \A e \in Clients : Listing(e)'
  BY EmptyListing DEF IInv, Listing, TypeOK
<1>7. \A e \in Clients : Checked(e)'
  BY DEF IInv, Checked, Droppable, TablesOf, TypeOK
<1>8. \A e \in Clients : MapsDiffer(e)'
  BY DEF IInv, MapsDiffer, TypeOK
<1> QED
  BY <1>1, <1>2, <1>3, <1>4, <1>5, <1>6, <1>7, <1>8 DEF IInv

\* Action ScanDatasets.
LEMMA ScanDatasetsStep ==
  ASSUME IInv, NEW c \in Clients, ScanDatasets(c)
  PROVE  IInv'
<1>f. /\ listing[c] \in DatasetListings
      /\ \A d \in DOMAIN datasets : Put(listing[c], d, datasets[d]) \in DatasetListings
  <2>1. listing[c] \in DatasetListings /\ datasets \in Maps(Datasets, Metas)
    BY DEF IInv, Listing, TypeOK, ScanDatasets, At
  <2> QED
    BY <2>1, MapsElim, PutMap DEF DatasetListings
<1> USE ClientAssumption, CallAssumption DEF ScanDatasets, memVars, mutexVars, At, Goto, Finish, Entry
<1>1. TypeOK'
  BY AnswerType, <1>f DEF IInv, TypeOK, RW!TypeOK, PCs, ReadPCs, WritePCs, Codes
<1>2. RW!Exclusion'
  BY DEF IInv, RW!Exclusion
<1>3. MapsAgree'
  BY <1>f DEF IInv, MapsAgree, TypeOK
<1>4. \A e \in Clients : OpAt(e)'
  BY <1>f DEF IInv, OpAt, TypeOK
<1>5. \A e \in Clients : Locking(e)'
  BY <1>f DEF IInv, Locking, TypeOK, ReadPCs, WritePCs, RW!Exclusion
<1>6. \A e \in Clients : Listing(e)'
  BY AnswerType, <1>f DEF IInv, Listing, TypeOK, Codes
<1>7. \A e \in Clients : Checked(e)'
  BY <1>f DEF IInv, Checked, Droppable, TablesOf, TypeOK
<1>8. \A e \in Clients : MapsDiffer(e)'
  BY <1>f DEF IInv, MapsDiffer, TypeOK
<1> QED
  BY <1>1, <1>2, <1>3, <1>4, <1>5, <1>6, <1>7, <1>8 DEF IInv

\* Action ListTables.
LEMMA ListTablesStep ==
  ASSUME IInv, NEW c \in Clients, ListTables(c)
  PROVE  IInv'
<1> USE ClientAssumption, CallAssumption DEF ListTables, memVars, mutexVars, At, Goto, Reading, RW!RHolds, Finish
<1>1. TypeOK'
  BY AnswerType, EmptyListing DEF IInv, TypeOK, RW!TypeOK, PCs, ReadPCs, WritePCs, Codes
<1>2. RW!Exclusion'
  BY DEF IInv, RW!Exclusion
<1>3. MapsAgree'
  BY DEF IInv, MapsAgree, TypeOK
<1>4. \A e \in Clients : OpAt(e)'
  BY DEF IInv, OpAt, TypeOK
<1>5. \A e \in Clients : Locking(e)'
  BY DEF IInv, Locking, TypeOK, ReadPCs, WritePCs, RW!Exclusion
<1>6. \A e \in Clients : Listing(e)'
  BY AnswerType, EmptyListing DEF IInv, Listing, TypeOK, Codes
<1>7. \A e \in Clients : Checked(e)'
  BY DEF IInv, Checked, Droppable, TablesOf, TypeOK
<1>8. \A e \in Clients : MapsDiffer(e)'
  BY DEF IInv, MapsDiffer, TypeOK
<1> QED
  BY <1>1, <1>2, <1>3, <1>4, <1>5, <1>6, <1>7, <1>8 DEF IInv

\* Action ScanTables.
LEMMA ScanTablesStep ==
  ASSUME IInv, NEW c \in Clients, ScanTables(c)
  PROVE  IInv'
<1>f. /\ listing[c] \in TableListings
      /\ \A t \in DOMAIN TablesOf(call[c].ds) : Put(listing[c], t, Nothing) \in TableListings
  <2>1. listing[c] \in TableListings
    BY DEF IInv, Listing, ScanTables, At
  <2> QED
    BY <2>1, MapTypes, PutMap DEF TableListings
<1> USE ClientAssumption, CallAssumption DEF ScanTables, memVars, mutexVars, At, Goto, Finish
<1>1. TypeOK'
  BY AnswerType, <1>f DEF IInv, TypeOK, RW!TypeOK, PCs, ReadPCs, WritePCs, Codes
<1>2. RW!Exclusion'
  BY DEF IInv, RW!Exclusion
<1>3. MapsAgree'
  BY <1>f DEF IInv, MapsAgree, TypeOK
<1>4. \A e \in Clients : OpAt(e)'
  BY <1>f DEF IInv, OpAt, TypeOK
<1>5. \A e \in Clients : Locking(e)'
  BY <1>f DEF IInv, Locking, TypeOK, ReadPCs, WritePCs, RW!Exclusion
<1>6. \A e \in Clients : Listing(e)'
  BY AnswerType, <1>f DEF IInv, Listing, TypeOK, Codes
<1>7. \A e \in Clients : Checked(e)'
  BY <1>f DEF IInv, Checked, Droppable, TablesOf, TypeOK
<1>8. \A e \in Clients : MapsDiffer(e)'
  BY <1>f DEF IInv, MapsDiffer, TypeOK
<1> QED
  BY <1>1, <1>2, <1>3, <1>4, <1>5, <1>6, <1>7, <1>8 DEF IInv

\* Action GetTable.
LEMMA GetTableStep ==
  ASSUME IInv, NEW c \in Clients, GetTable(c)
  PROVE  IInv'
<1>f. call[c].tbl \in DOMAIN TablesOf(call[c].ds) => tables[call[c].ds][call[c].tbl] \in Schemas
  BY MapTypes, EmptyMapType DEF TablesOf
<1> USE ClientAssumption, CallAssumption DEF GetTable, memVars, mutexVars, At, Goto, Reading, RW!RHolds, Finish
<1>1. TypeOK'
  BY AnswerType, <1>f DEF IInv, TypeOK, RW!TypeOK, PCs, ReadPCs, WritePCs, Codes
<1>2. RW!Exclusion'
  BY DEF IInv, RW!Exclusion
<1>3. MapsAgree'
  BY <1>f DEF IInv, MapsAgree, TypeOK
<1>4. \A e \in Clients : OpAt(e)'
  BY <1>f DEF IInv, OpAt, TypeOK
<1>5. \A e \in Clients : Locking(e)'
  BY <1>f DEF IInv, Locking, TypeOK, ReadPCs, WritePCs, RW!Exclusion
<1>6. \A e \in Clients : Listing(e)'
  BY AnswerType, <1>f DEF IInv, Listing, TypeOK, Codes
<1>7. \A e \in Clients : Checked(e)'
  BY <1>f DEF IInv, Checked, Droppable, TablesOf, TypeOK
<1>8. \A e \in Clients : MapsDiffer(e)'
  BY <1>f DEF IInv, MapsDiffer, TypeOK
<1> QED
  BY <1>1, <1>2, <1>3, <1>4, <1>5, <1>6, <1>7, <1>8 DEF IInv

\* Action CreateDataset.
LEMMA CreateDatasetStep ==
  ASSUME IInv, NEW c \in Clients, CreateDataset(c)
  PROVE  IInv'
<1>w. \A e \in Clients \ {c} : pc[e] \notin WritePCs
  BY WriterAlone DEF CreateDataset, At, Checking, WritePCs
<1>f. call[c].ds \in DOMAIN datasets => datasets[call[c].ds] \in Metas
  BY MapTypes
<1> USE ClientAssumption, CallAssumption DEF CreateDataset, memVars, mutexVars, At, Goto, Checking, Proceed, Finish
<1>1. TypeOK'
  BY AnswerType, <1>w, <1>f DEF IInv, TypeOK, RW!TypeOK, PCs, ReadPCs, WritePCs, Codes
<1>2. RW!Exclusion'
  BY DEF IInv, RW!Exclusion
<1>3. MapsAgree'
  BY <1>w, <1>f DEF IInv, MapsAgree, TypeOK, WritePCs
<1>4. \A e \in Clients : OpAt(e)'
  BY <1>w, <1>f DEF IInv, OpAt, TypeOK, WritePCs
<1>5. \A e \in Clients : Locking(e)'
  BY <1>w, <1>f DEF IInv, Locking, TypeOK, ReadPCs, WritePCs, RW!Exclusion
<1>6. \A e \in Clients : Listing(e)'
  BY AnswerType, <1>w, <1>f DEF IInv, Listing, TypeOK, Codes
<1>7. \A e \in Clients : Checked(e)'
  BY <1>w, <1>f DEF IInv, Checked, Droppable, TablesOf, TypeOK, WritePCs
<1>8. \A e \in Clients : MapsDiffer(e)'
  BY <1>w, <1>f DEF IInv, MapsDiffer, TypeOK, WritePCs
<1> QED
  BY <1>1, <1>2, <1>3, <1>4, <1>5, <1>6, <1>7, <1>8 DEF IInv

\* Action AddDataset.
LEMMA AddDatasetStep ==
  ASSUME IInv, NEW c \in Clients, AddDataset(c)
  PROVE  IInv'
<1>w. \A e \in Clients \ {c} : pc[e] \notin WritePCs
  BY WriterAlone DEF AddDataset, At, WritePCs
<1>f. /\ datasets' \in Maps(Datasets, Metas)
      /\ DOMAIN datasets' = DOMAIN tables \cup {call[c].ds}
      /\ call[c].ds \notin DOMAIN tables
  <2>1. DOMAIN tables = DOMAIN datasets /\ call[c].ds \notin DOMAIN datasets
    BY WriterAlone DEF AddDataset, At, WritePCs, IInv, Checked
  <2>2. call[c].ds \in Datasets /\ call[c].meta \in Metas
    BY HasCall, CallFields DEF AddDataset, At, IInv, OpAt
  <2>3. Put(datasets, call[c].ds, call[c].meta) \in Maps(Datasets, Metas)
    BY <2>2, MapTypes, PutMap
  <2>4. DOMAIN Put(datasets, call[c].ds, call[c].meta) = DOMAIN datasets \cup {call[c].ds}
    BY DEF Put
  <2> QED
    BY <2>1, <2>3, <2>4 DEF AddDataset
<1> USE ClientAssumption, CallAssumption DEF AddDataset, memVars, mutexVars, At, Goto, Proceed
<1>1. TypeOK'
  BY <1>w, <1>f DEF IInv, TypeOK, RW!TypeOK, PCs, ReadPCs, WritePCs
<1>2. RW!Exclusion'
  BY DEF IInv, RW!Exclusion
<1>3. MapsAgree'
  BY <1>w, <1>f DEF IInv, MapsAgree, TypeOK, WritePCs
<1>4. \A e \in Clients : OpAt(e)'
  BY <1>w, <1>f DEF IInv, OpAt, TypeOK, WritePCs
<1>5. \A e \in Clients : Locking(e)'
  BY <1>w, <1>f DEF IInv, Locking, TypeOK, ReadPCs, WritePCs, RW!Exclusion
<1>6. \A e \in Clients : Listing(e)'
  BY <1>w, <1>f DEF IInv, Listing, TypeOK
<1>7. \A e \in Clients : Checked(e)'
  BY <1>w, <1>f DEF IInv, Checked, Droppable, TablesOf, TypeOK, WritePCs
<1>8. \A e \in Clients : MapsDiffer(e)'
  BY <1>w, <1>f DEF IInv, MapsDiffer, TypeOK, WritePCs
<1> QED
  BY <1>1, <1>2, <1>3, <1>4, <1>5, <1>6, <1>7, <1>8 DEF IInv

\* Action AddTables.
LEMMA AddTablesStep ==
  ASSUME IInv, NEW c \in Clients, AddTables(c)
  PROVE  IInv'
<1>w. \A e \in Clients \ {c} : pc[e] \notin WritePCs
  BY WriterAlone DEF AddTables, At, WritePCs
<1>f. /\ tables' \in Maps(Datasets, Maps(Tables, Schemas))
      /\ DOMAIN tables' = DOMAIN datasets
      /\ call[c].meta \in Metas
  <2>1. DOMAIN datasets = DOMAIN tables \cup {call[c].ds}
    BY DEF AddTables, At, IInv, MapsDiffer
  <2>2. call[c].ds \in Datasets /\ call[c].meta \in Metas
    BY HasCall, CallFields DEF AddTables, At, IInv, OpAt
  <2>3. Put(tables, call[c].ds, EmptyMap) \in Maps(Datasets, Maps(Tables, Schemas))
    BY <2>2, MapTypes, EmptyMapType, PutMap
  <2>4. DOMAIN Put(tables, call[c].ds, EmptyMap) = DOMAIN tables \cup {call[c].ds}
    BY DEF Put
  <2> QED
    BY <2>1, <2>2, <2>3, <2>4 DEF AddTables
<1> USE ClientAssumption, CallAssumption DEF AddTables, memVars, mutexVars, At, Goto, Finish
<1>1. TypeOK'
  BY AnswerType, <1>w, <1>f DEF IInv, TypeOK, RW!TypeOK, PCs, ReadPCs, WritePCs, Codes
<1>2. RW!Exclusion'
  BY DEF IInv, RW!Exclusion
<1>3. MapsAgree'
  BY <1>w, <1>f DEF IInv, MapsAgree, TypeOK, WritePCs
<1>4. \A e \in Clients : OpAt(e)'
  BY <1>w, <1>f DEF IInv, OpAt, TypeOK, WritePCs
<1>5. \A e \in Clients : Locking(e)'
  BY <1>w, <1>f DEF IInv, Locking, TypeOK, ReadPCs, WritePCs, RW!Exclusion
<1>6. \A e \in Clients : Listing(e)'
  BY AnswerType, <1>w, <1>f DEF IInv, Listing, TypeOK, Codes
<1>7. \A e \in Clients : Checked(e)'
  BY <1>w, <1>f DEF IInv, Checked, Droppable, TablesOf, TypeOK, WritePCs
<1>8. \A e \in Clients : MapsDiffer(e)'
  BY <1>w, <1>f DEF IInv, MapsDiffer, TypeOK, WritePCs
<1> QED
  BY <1>1, <1>2, <1>3, <1>4, <1>5, <1>6, <1>7, <1>8 DEF IInv

\* Action DropDataset.
LEMMA DropDatasetStep ==
  ASSUME IInv, NEW c \in Clients, DropDataset(c)
  PROVE  IInv'
<1>w. \A e \in Clients \ {c} : pc[e] \notin WritePCs
  BY WriterAlone DEF DropDataset, At, Checking, WritePCs
<1>f. DOMAIN tables = DOMAIN datasets
  BY WriterAlone DEF DropDataset, At, Checking, WritePCs
<1> USE ClientAssumption, CallAssumption DEF DropDataset, memVars, mutexVars, At, Goto, Checking, Proceed, Finish
<1>1. TypeOK'
  BY AnswerType, <1>w, <1>f DEF IInv, TypeOK, RW!TypeOK, PCs, ReadPCs, WritePCs, Codes
<1>2. RW!Exclusion'
  BY DEF IInv, RW!Exclusion
<1>3. MapsAgree'
  BY <1>w, <1>f DEF IInv, MapsAgree, TypeOK, WritePCs
<1>4. \A e \in Clients : OpAt(e)'
  BY <1>w, <1>f DEF IInv, OpAt, TypeOK, WritePCs
<1>5. \A e \in Clients : Locking(e)'
  BY <1>w, <1>f DEF IInv, Locking, TypeOK, ReadPCs, WritePCs, RW!Exclusion
<1>6. \A e \in Clients : Listing(e)'
  BY AnswerType, <1>w, <1>f DEF IInv, Listing, TypeOK, Codes
<1>7. \A e \in Clients : Checked(e)'
  BY <1>w, <1>f DEF IInv, Checked, Droppable, TablesOf, TypeOK, WritePCs
<1>8. \A e \in Clients : MapsDiffer(e)'
  BY <1>w, <1>f DEF IInv, MapsDiffer, TypeOK, WritePCs
<1> QED
  BY <1>1, <1>2, <1>3, <1>4, <1>5, <1>6, <1>7, <1>8 DEF IInv

\* Action DelDataset.
LEMMA DelDatasetStep ==
  ASSUME IInv, NEW c \in Clients, DelDataset(c)
  PROVE  IInv'
<1>w. \A e \in Clients \ {c} : pc[e] \notin WritePCs
  BY WriterAlone DEF DelDataset, At, WritePCs
<1>f. /\ datasets' \in Maps(Datasets, Metas)
      /\ DOMAIN tables = DOMAIN datasets' \cup {call[c].ds}
      /\ call[c].ds \notin DOMAIN datasets'
  <2>1. DOMAIN tables = DOMAIN datasets /\ call[c].ds \in DOMAIN datasets
    BY WriterAlone DEF DelDataset, At, WritePCs, IInv, Checked
  <2>2. Delete(datasets, call[c].ds) \in Maps(Datasets, Metas)
    BY MapTypes, DeleteMap
  <2>3. DOMAIN Delete(datasets, call[c].ds) = DOMAIN datasets \ {call[c].ds}
    BY DEF Delete
  <2> QED
    BY <2>1, <2>2, <2>3 DEF DelDataset
<1> USE ClientAssumption, CallAssumption DEF DelDataset, memVars, mutexVars, At, Goto, Proceed
<1>1. TypeOK'
  BY <1>w, <1>f DEF IInv, TypeOK, RW!TypeOK, PCs, ReadPCs, WritePCs
<1>2. RW!Exclusion'
  BY DEF IInv, RW!Exclusion
<1>3. MapsAgree'
  BY <1>w, <1>f DEF IInv, MapsAgree, TypeOK, WritePCs
<1>4. \A e \in Clients : OpAt(e)'
  BY <1>w, <1>f DEF IInv, OpAt, TypeOK, WritePCs
<1>5. \A e \in Clients : Locking(e)'
  BY <1>w, <1>f DEF IInv, Locking, TypeOK, ReadPCs, WritePCs, RW!Exclusion
<1>6. \A e \in Clients : Listing(e)'
  BY <1>w, <1>f DEF IInv, Listing, TypeOK
<1>7. \A e \in Clients : Checked(e)'
  BY <1>w, <1>f DEF IInv, Checked, Droppable, TablesOf, TypeOK, WritePCs
<1>8. \A e \in Clients : MapsDiffer(e)'
  BY <1>w, <1>f DEF IInv, MapsDiffer, TypeOK, WritePCs
<1> QED
  BY <1>1, <1>2, <1>3, <1>4, <1>5, <1>6, <1>7, <1>8 DEF IInv

\* Action DelTables.
LEMMA DelTablesStep ==
  ASSUME IInv, NEW c \in Clients, DelTables(c)
  PROVE  IInv'
<1>w. \A e \in Clients \ {c} : pc[e] \notin WritePCs
  BY WriterAlone DEF DelTables, At, WritePCs
<1>f. /\ tables' \in Maps(Datasets, Maps(Tables, Schemas))
      /\ DOMAIN tables' = DOMAIN datasets
  <2>1. /\ call[c].ds \notin DOMAIN datasets
        /\ DOMAIN tables = DOMAIN datasets \cup {call[c].ds}
    BY DEF DelTables, At, IInv, MapsDiffer
  <2>2. Delete(tables, call[c].ds) \in Maps(Datasets, Maps(Tables, Schemas))
    BY MapTypes, DeleteMap
  <2>3. DOMAIN Delete(tables, call[c].ds) = DOMAIN tables \ {call[c].ds}
    BY DEF Delete
  <2> QED
    BY <2>1, <2>2, <2>3 DEF DelTables
<1> USE ClientAssumption, CallAssumption DEF DelTables, memVars, mutexVars, At, Goto, Finish
<1>1. TypeOK'
  BY AnswerType, <1>w, <1>f DEF IInv, TypeOK, RW!TypeOK, PCs, ReadPCs, WritePCs, Codes
<1>2. RW!Exclusion'
  BY DEF IInv, RW!Exclusion
<1>3. MapsAgree'
  BY <1>w, <1>f DEF IInv, MapsAgree, TypeOK, WritePCs
<1>4. \A e \in Clients : OpAt(e)'
  BY <1>w, <1>f DEF IInv, OpAt, TypeOK, WritePCs
<1>5. \A e \in Clients : Locking(e)'
  BY <1>w, <1>f DEF IInv, Locking, TypeOK, ReadPCs, WritePCs, RW!Exclusion
<1>6. \A e \in Clients : Listing(e)'
  BY AnswerType, <1>w, <1>f DEF IInv, Listing, TypeOK, Codes
<1>7. \A e \in Clients : Checked(e)'
  BY <1>w, <1>f DEF IInv, Checked, Droppable, TablesOf, TypeOK, WritePCs
<1>8. \A e \in Clients : MapsDiffer(e)'
  BY <1>w, <1>f DEF IInv, MapsDiffer, TypeOK, WritePCs
<1> QED
  BY <1>1, <1>2, <1>3, <1>4, <1>5, <1>6, <1>7, <1>8 DEF IInv

\* Action CreateTable.
LEMMA CreateTableStep ==
  ASSUME IInv, NEW c \in Clients, CreateTable(c)
  PROVE  IInv'
<1>w. \A e \in Clients \ {c} : pc[e] \notin WritePCs
  BY WriterAlone DEF CreateTable, At, Checking, WritePCs
<1>f. /\ Taken(call[c]) => ExistingSchema(call[c]) \in Schemas
      /\ call[c].ds \in DOMAIN datasets /\ ~Taken(call[c]) =>
           call[c].ds \in DOMAIN tables /\ call[c].tbl \notin DOMAIN tables[call[c].ds]
      /\ ~call[c].asSelect
  <2>1. DOMAIN tables = DOMAIN datasets
    BY WriterAlone DEF CreateTable, At, Checking, WritePCs
  <2>2. ~call[c].asSelect
    BY DEF CreateTable, At, Checking, IInv, OpAt, Refused
  <2>3. Taken(call[c]) => ExistingSchema(call[c]) \in Schemas
    BY MapTypes, EmptyMapType DEF Taken, ExistingSchema, TablesOf
  <2> QED
    BY <2>1, <2>2, <2>3 DEF Taken, TablesOf
<1> USE ClientAssumption, CallAssumption DEF CreateTable, memVars, mutexVars, At, Goto, Checking, Proceed, Finish
<1>1. TypeOK'
  BY AnswerType, <1>w, <1>f DEF IInv, TypeOK, RW!TypeOK, PCs, ReadPCs, WritePCs, Codes
<1>2. RW!Exclusion'
  BY DEF IInv, RW!Exclusion
<1>3. MapsAgree'
  BY <1>w, <1>f DEF IInv, MapsAgree, TypeOK, WritePCs
<1>4. \A e \in Clients : OpAt(e)'
  BY <1>w, <1>f DEF IInv, OpAt, TypeOK, WritePCs
<1>5. \A e \in Clients : Locking(e)'
  BY <1>w, <1>f DEF IInv, Locking, TypeOK, ReadPCs, WritePCs, RW!Exclusion
<1>6. \A e \in Clients : Listing(e)'
  BY AnswerType, <1>w, <1>f DEF IInv, Listing, TypeOK, Codes
<1>7. \A e \in Clients : Checked(e)'
  BY <1>w, <1>f DEF IInv, Checked, Droppable, TablesOf, TypeOK, WritePCs
<1>8. \A e \in Clients : MapsDiffer(e)'
  BY <1>w, <1>f DEF IInv, MapsDiffer, TypeOK, WritePCs
<1> QED
  BY <1>1, <1>2, <1>3, <1>4, <1>5, <1>6, <1>7, <1>8 DEF IInv

\* Action AddTable.
LEMMA AddTableStep ==
  ASSUME IInv, NEW c \in Clients, AddTable(c)
  PROVE  IInv'
<1>w. \A e \in Clients \ {c} : pc[e] \notin WritePCs
  BY WriterAlone DEF AddTable, At, WritePCs
<1>f. /\ tables' \in Maps(Datasets, Maps(Tables, Schemas))
      /\ DOMAIN tables' = DOMAIN tables
      /\ call[c].schema \in Schemas
  <2>1. call[c].tbl \in Tables /\ call[c].schema \in Schemas /\ call[c].ds \in DOMAIN tables
    BY HasCall, CallFields DEF AddTable, At, IInv, OpAt
  <2>2. Put(tables[call[c].ds], call[c].tbl, call[c].schema) \in Maps(Tables, Schemas)
    BY <2>1, MapTypes, PutMap
  <2>3. tables' \in [DOMAIN tables -> Maps(Tables, Schemas)]
    <3>1. tables \in [DOMAIN tables -> Maps(Tables, Schemas)]
      BY MapTypes, MapsElim
    <3> QED
      BY <2>1, <2>2, <3>1 DEF AddTable
  <2> QED
    BY <2>1, <2>3, MapTypes, MapsIntro
<1> USE ClientAssumption, CallAssumption DEF AddTable, memVars, mutexVars, At, Goto, Finish
<1>1. TypeOK'
  BY AnswerType, <1>w, <1>f DEF IInv, TypeOK, RW!TypeOK, PCs, ReadPCs, WritePCs, Codes
<1>2. RW!Exclusion'
  BY DEF IInv, RW!Exclusion
<1>3. MapsAgree'
  BY <1>w, <1>f DEF IInv, MapsAgree, TypeOK, WritePCs
<1>4. \A e \in Clients : OpAt(e)'
  BY <1>w, <1>f DEF IInv, OpAt, TypeOK, WritePCs
<1>5. \A e \in Clients : Locking(e)'
  BY <1>w, <1>f DEF IInv, Locking, TypeOK, ReadPCs, WritePCs, RW!Exclusion
<1>6. \A e \in Clients : Listing(e)'
  BY AnswerType, <1>w, <1>f DEF IInv, Listing, TypeOK, Codes
<1>7. \A e \in Clients : Checked(e)'
  BY <1>w, <1>f DEF IInv, Checked, Droppable, TablesOf, TypeOK, WritePCs
<1>8. \A e \in Clients : MapsDiffer(e)'
  BY <1>w, <1>f DEF IInv, MapsDiffer, TypeOK, WritePCs
<1> QED
  BY <1>1, <1>2, <1>3, <1>4, <1>5, <1>6, <1>7, <1>8 DEF IInv

\* Action DropTable.
LEMMA DropTableStep ==
  ASSUME IInv, NEW c \in Clients, DropTable(c)
  PROVE  IInv'
<1>w. \A e \in Clients \ {c} : pc[e] \notin WritePCs
  BY WriterAlone DEF DropTable, At, Checking, WritePCs
<1>f. call[c].tbl \in DOMAIN TablesOf(call[c].ds) =>
        call[c].ds \in DOMAIN tables /\ call[c].tbl \in DOMAIN tables[call[c].ds]
  BY EmptyMapType DEF TablesOf
<1> USE ClientAssumption, CallAssumption DEF DropTable, memVars, mutexVars, At, Goto, Checking, Proceed, Finish
<1>1. TypeOK'
  BY AnswerType, <1>w, <1>f DEF IInv, TypeOK, RW!TypeOK, PCs, ReadPCs, WritePCs, Codes
<1>2. RW!Exclusion'
  BY DEF IInv, RW!Exclusion
<1>3. MapsAgree'
  BY <1>w, <1>f DEF IInv, MapsAgree, TypeOK, WritePCs
<1>4. \A e \in Clients : OpAt(e)'
  BY <1>w, <1>f DEF IInv, OpAt, TypeOK, WritePCs
<1>5. \A e \in Clients : Locking(e)'
  BY <1>w, <1>f DEF IInv, Locking, TypeOK, ReadPCs, WritePCs, RW!Exclusion
<1>6. \A e \in Clients : Listing(e)'
  BY AnswerType, <1>w, <1>f DEF IInv, Listing, TypeOK, Codes
<1>7. \A e \in Clients : Checked(e)'
  BY <1>w, <1>f DEF IInv, Checked, Droppable, TablesOf, TypeOK, WritePCs
<1>8. \A e \in Clients : MapsDiffer(e)'
  BY <1>w, <1>f DEF IInv, MapsDiffer, TypeOK, WritePCs
<1> QED
  BY <1>1, <1>2, <1>3, <1>4, <1>5, <1>6, <1>7, <1>8 DEF IInv

\* Action DelTable.
LEMMA DelTableStep ==
  ASSUME IInv, NEW c \in Clients, DelTable(c)
  PROVE  IInv'
<1>w. \A e \in Clients \ {c} : pc[e] \notin WritePCs
  BY WriterAlone DEF DelTable, At, WritePCs
<1>f. /\ tables' \in Maps(Datasets, Maps(Tables, Schemas))
      /\ DOMAIN tables' = DOMAIN tables
  <2>1. call[c].ds \in DOMAIN tables
    BY DEF DelTable, At, IInv, Checked
  <2>2. Delete(tables[call[c].ds], call[c].tbl) \in Maps(Tables, Schemas)
    BY <2>1, MapTypes, DeleteMap
  <2>3. tables' \in [DOMAIN tables -> Maps(Tables, Schemas)]
    <3>1. tables \in [DOMAIN tables -> Maps(Tables, Schemas)]
      BY MapTypes, MapsElim
    <3> QED
      BY <2>1, <2>2, <3>1 DEF DelTable
  <2> QED
    BY <2>3, MapTypes, MapsIntro
<1> USE ClientAssumption, CallAssumption DEF DelTable, memVars, mutexVars, At, Goto, Finish
<1>1. TypeOK'
  BY AnswerType, <1>w, <1>f DEF IInv, TypeOK, RW!TypeOK, PCs, ReadPCs, WritePCs, Codes
<1>2. RW!Exclusion'
  BY DEF IInv, RW!Exclusion
<1>3. MapsAgree'
  BY <1>w, <1>f DEF IInv, MapsAgree, TypeOK, WritePCs
<1>4. \A e \in Clients : OpAt(e)'
  BY <1>w, <1>f DEF IInv, OpAt, TypeOK, WritePCs
<1>5. \A e \in Clients : Locking(e)'
  BY <1>w, <1>f DEF IInv, Locking, TypeOK, ReadPCs, WritePCs, RW!Exclusion
<1>6. \A e \in Clients : Listing(e)'
  BY AnswerType, <1>w, <1>f DEF IInv, Listing, TypeOK, Codes
<1>7. \A e \in Clients : Checked(e)'
  BY <1>w, <1>f DEF IInv, Checked, Droppable, TablesOf, TypeOK, WritePCs
<1>8. \A e \in Clients : MapsDiffer(e)'
  BY <1>w, <1>f DEF IInv, MapsDiffer, TypeOK, WritePCs
<1> QED
  BY <1>1, <1>2, <1>3, <1>4, <1>5, <1>6, <1>7, <1>8 DEF IInv

-----------------------------------------------------------------------------
(* The theorems.                                                           *)

\* An empty backend nobody has called.
LEMMA InitInv ==
  ASSUME Init
  PROVE  IInv
<1> USE ClientAssumption DEF Init, RW!Init
<1>1. TypeOK
  BY EmptyMapType, EmptyListing DEF TypeOK, RW!TypeOK, PCs
<1>2. RW!Exclusion /\ MapsAgree
  BY DEF RW!Exclusion, MapsAgree
<1>3. \A c \in Clients : OpAt(c) /\ Locking(c)
  BY DEF OpAt, Locking, ReadPCs, WritePCs
<1>4. \A c \in Clients : Listing(c) /\ Checked(c) /\ MapsDiffer(c)
  BY DEF Listing, Checked, MapsDiffer
<1> QED
  BY <1>1, <1>2, <1>3, <1>4 DEF IInv

\* A step of something else.
LEMMA StutterInv ==
  ASSUME IInv, UNCHANGED vars
  PROVE  IInv'
<1> USE DEF vars, IInv
<1>1. TypeOK' /\ RW!Exclusion' /\ MapsAgree'
  BY DEF TypeOK, RW!TypeOK, RW!Exclusion, MapsAgree
<1>2. \A c \in Clients : OpAt(c)' /\ Locking(c)' /\ Listing(c)'
  BY DEF OpAt, Locking, Listing
<1>3. \A c \in Clients : Checked(c)' /\ MapsDiffer(c)'
  BY DEF Checked, MapsDiffer, Droppable, TablesOf
<1> QED
  BY <1>1, <1>2, <1>3

\* Any step.
LEMMA NextInv ==
  ASSUME IInv, [Next]_vars
  PROVE  IInv'
<1>1. CASE UNCHANGED vars
  BY <1>1, StutterInv
<1>2. CASE Next
  <2> SUFFICES ASSUME NEW c \in Clients, Invoke(c) \/ Step(c) \/ Announce(c)
               PROVE  IInv'
    BY <1>2 DEF Next
  <2>1. CASE Invoke(c) \/ Announce(c)
    BY <2>1, InvokeStep, AnnounceStep
  <2>2. CASE Refuse(c) \/ RLock(c) \/ RUnlock(c) \/ Lock(c) \/ Acquire(c) \/ Unlock(c) \/ Return(c)
    BY <2>2, RefuseStep, RLockStep, RUnlockStep, LockStep, AcquireStep, UnlockStep, ReturnStep
  <2>3. CASE Body(c)
    BY <2>3, ListDatasetsStep, ScanDatasetsStep, ListTablesStep, ScanTablesStep, GetTableStep,
       CreateDatasetStep, AddDatasetStep, AddTablesStep, DropDatasetStep, DelDatasetStep,
       DelTablesStep, CreateTableStep, AddTableStep, DropTableStep, DelTableStep DEF Body
  <2> QED
    BY <2>1, <2>2, <2>3 DEF Step
<1> QED
  BY <1>1, <1>2

\* The invariant holds in every reachable state.
THEOREM Invariance == Spec => []IInv
BY InitInv, NextInv, PTL DEF Spec

\* Every variable of the backend keeps its type: the maps stay maps of what
\* they are declared to hold, whatever the handlers interleave.
THEOREM TypeCorrectness == Spec => []TypeOK
<1>1. IInv => TypeOK
  BY DEF IInv
<1> QED
  BY <1>1, Invariance, PTL

\* No handler runs a statement of a critical section without the lock that
\* mem.go takes for it.
THEOREM SectionsAreLocked == Spec => []SectionsHoldTheLock
<1>1. IInv => SectionsHoldTheLock
  BY DEF IInv, Locking, SectionsHoldTheLock, RW!Holds, RW!RHolds
<1> QED
  BY <1>1, Invariance, PTL

\* The two maps of the backend describe the same datasets between writes.
THEOREM MapsStayTogether == Spec => []MapsAgree
<1>1. IInv => MapsAgree
  BY DEF IInv
<1> QED
  BY <1>1, Invariance, PTL

\* The store of CreateTable never panics: no DropDataset removes the inner map
\* between the check and the store.
THEOREM StoresAreSafe == Spec => []NoStoreIntoNilMap
<1>1. IInv => NoStoreIntoNilMap
  BY DEF IInv, Checked, NoStoreIntoNilMap, At
<1> QED
  BY <1>1, Invariance, PTL

-----------------------------------------------------------------------------
(* The implementation of Catalog.                                          *)

\* What a range loop has collected is what the maps hold.
Snapshot(c) ==
  /\ pc[c] = "scanDatasets" =>
       \A d \in DOMAIN listing[c] : d \in DOMAIN datasets /\ listing[c][d] = datasets[d]
  /\ pc[c] = "scanTables" =>
       /\ call[c].ds \in DOMAIN datasets
       /\ \A t \in DOMAIN listing[c] :
            t \in DOMAIN TablesOf(call[c].ds) /\ listing[c][t] = Nothing

Snapshots == \A c \in Clients : Snapshot(c)

\* A handler inside the read section.
InRead(c) == pc[c] \in ReadPCs \ {"read"} \/ (pc[c] = "read" /\ c \in readers)

-----------------------------------------------------------------------------
(* Readers and the maps.                                                   *)

\* While a reader is in, nobody is in the write section and the maps agree.
LEMMA ReaderAlone ==
  ASSUME IInv, NEW c \in Clients, InRead(c)
  PROVE  /\ \A e \in Clients : pc[e] \notin WritePCs
         /\ DOMAIN tables = DOMAIN datasets
<1>1. c \in readers
  BY DEF InRead, IInv, Locking
<1>2. ~writing
  BY <1>1 DEF IInv, RW!Exclusion
<1>3. \A e \in Clients : pc[e] \notin WritePCs
  BY <1>2 DEF IInv, Locking
<1> QED
  BY <1>3 DEF IInv, MapsAgree, WritePCs

\* Only a handler in the write section changes the maps.
LEMMA WritersWrite ==
  ASSUME NEW c \in Clients, Invoke(c) \/ Step(c) \/ Announce(c), pc[c] \notin WritePCs
  PROVE  UNCHANGED memVars
<1> USE DEF memVars, WritePCs, At, Checking
<1>1. CASE Invoke(c) \/ Announce(c)
  BY <1>1 DEF Invoke, Announce
<1>2. CASE Refuse(c) \/ RLock(c) \/ RUnlock(c) \/ Lock(c) \/ Acquire(c) \/ Unlock(c) \/ Return(c)
  BY <1>2 DEF Refuse, RLock, RUnlock, Lock, Acquire, Unlock, Return
<1>3. CASE Body(c)
  BY <1>3 DEF Body, ListDatasets, ScanDatasets, ListTables, ScanTables, GetTable, CreateDataset,
     AddDataset, AddTables, DropDataset, DelDataset, DelTables, CreateTable, AddTable, DropTable,
     DelTable
<1> QED
  BY <1>1, <1>2, <1>3 DEF Step

\* A step of one handler leaves what is another's alone.
LEMMA OthersUntouched ==
  ASSUME IInv, NEW c \in Clients, Invoke(c) \/ Step(c) \/ Announce(c),
         NEW e \in Clients, e # c
  PROVE  pc'[e] = pc[e] /\ listing'[e] = listing[e] /\ call'[e] = call[e]
<1> USE DEF IInv, TypeOK, memVars, At, Goto, Finish, Proceed, Checking
<1>1. CASE Invoke(c) \/ Announce(c)
  BY <1>1 DEF Invoke, Announce
<1>2. CASE Refuse(c) \/ RLock(c) \/ RUnlock(c) \/ Lock(c) \/ Acquire(c) \/ Unlock(c) \/ Return(c)
  BY <1>2 DEF Refuse, RLock, RUnlock, Lock, Acquire, Unlock, Return
<1>3. CASE ListDatasets(c) \/ ScanDatasets(c) \/ ListTables(c) \/ ScanTables(c) \/ GetTable(c)
  BY <1>3 DEF Reading, ListDatasets, ScanDatasets, ListTables, ScanTables, GetTable
<1>4. CASE CreateDataset(c) \/ AddDataset(c) \/ AddTables(c) \/ DropDataset(c)
           \/ DelDataset(c) \/ DelTables(c)
  BY <1>4 DEF CreateDataset, AddDataset, AddTables, DropDataset, DelDataset, DelTables
<1>5. CASE CreateTable(c) \/ AddTable(c) \/ DropTable(c) \/ DelTable(c)
  BY <1>5 DEF CreateTable, AddTable, DropTable, DelTable
<1> QED
  BY <1>1, <1>2, <1>3, <1>4, <1>5 DEF Step, Body

\* A handler that is scanning after its own step was, or has just begun with an
\* empty listing.
LEMMA ScansBegin ==
  ASSUME IInv, NEW c \in Clients, Invoke(c) \/ Step(c) \/ Announce(c),
         pc'[c] \in {"scanDatasets", "scanTables"}
  PROVE  ListDatasets(c) \/ ScanDatasets(c) \/ ListTables(c) \/ ScanTables(c)
<1> USE DEF IInv, TypeOK, memVars, At, Goto, Finish, Proceed, Checking
<1>1. ~(Invoke(c) \/ Announce(c))
  BY DEF Invoke, Announce
<1>2. ~(Refuse(c) \/ RLock(c) \/ RUnlock(c) \/ Lock(c) \/ Acquire(c) \/ Unlock(c) \/ Return(c))
  BY DEF Refuse, RLock, RUnlock, Lock, Acquire, Unlock, Return
<1>3. ~GetTable(c)
  BY DEF Reading, GetTable
<1>4. ~(CreateDataset(c) \/ AddDataset(c) \/ AddTables(c) \/ DropDataset(c)
        \/ DelDataset(c) \/ DelTables(c))
  BY DEF CreateDataset, AddDataset, AddTables, DropDataset, DelDataset, DelTables
<1>5. ~(CreateTable(c) \/ AddTable(c) \/ DropTable(c) \/ DelTable(c))
  BY DEF CreateTable, AddTable, DropTable, DelTable
<1> QED
  BY <1>1, <1>2, <1>3, <1>4, <1>5 DEF Step, Body

\* A step of a handler keeps its own snapshot.
LEMMA OwnSnapshot ==
  ASSUME IInv, Snapshots, NEW c \in Clients, Invoke(c) \/ Step(c) \/ Announce(c)
  PROVE  Snapshot(c)'
<1> SUFFICES ASSUME pc'[c] \in {"scanDatasets", "scanTables"}
             PROVE  Snapshot(c)'
  BY DEF Snapshot
<1> USE DEF IInv, TypeOK, memVars, At, Goto, Finish, TablesOf
<1>1. CASE ListDatasets(c)
  <2>1. listing'[c] = EmptyMap /\ pc'[c] = "scanDatasets"
    BY <1>1 DEF ListDatasets, Reading, Listing
  <2> QED
    BY <2>1, EmptyMapType DEF Snapshot
<1>2. CASE ListTables(c)
  <2>1. /\ listing'[c] = EmptyMap /\ pc'[c] = "scanTables"
        /\ call'[c].ds \in DOMAIN datasets'
    BY <1>2 DEF ListTables, Reading, Listing
  <2> QED
    BY <2>1, EmptyMapType DEF Snapshot
<1>3. CASE ScanDatasets(c)
  <2>1. PICK d \in DOMAIN datasets : listing'[c] = Put(listing[c], d, datasets[d])
    BY <1>3 DEF ScanDatasets, Entry
  <2>2. pc'[c] = "scanDatasets" /\ pc[c] = "scanDatasets" /\ datasets' = datasets
    BY <1>3 DEF ScanDatasets
  <2> QED
    BY <2>1, <2>2 DEF Snapshot, Snapshots, Put
<1>4. CASE ScanTables(c)
  <2>1. PICK t \in DOMAIN TablesOf(call[c].ds) : listing'[c] = Put(listing[c], t, Nothing)
    BY <1>4 DEF ScanTables
  <2>2. /\ pc'[c] = "scanTables" /\ pc[c] = "scanTables"
        /\ UNCHANGED <<datasets, tables, call>>
    BY <1>4 DEF ScanTables
  <2> QED
    BY <2>1, <2>2 DEF Snapshot, Snapshots, Put
<1> QED
  BY <1>1, <1>2, <1>3, <1>4, ScansBegin

\* Snapshots stay snapshots: nobody writes while a handler reads.
LEMMA SnapshotsStay ==
  ASSUME IInv, Snapshots, [Next]_vars
  PROVE  Snapshots'
<1>1. CASE UNCHANGED vars
  BY <1>1 DEF vars, Snapshots, Snapshot, TablesOf
<1>2. CASE Next
  <2>1. PICK c \in Clients : Invoke(c) \/ Step(c) \/ Announce(c)
    BY <1>2 DEF Next
  <2>2. ASSUME NEW e \in Clients, e # c
        PROVE  Snapshot(e)'
    <3>1. pc'[e] = pc[e] /\ listing'[e] = listing[e] /\ call'[e] = call[e]
      BY <2>1, <2>2, OthersUntouched
    <3>2. pc[e] \in {"scanDatasets", "scanTables"} => UNCHANGED memVars
      BY <2>1, ReaderAlone, WritersWrite DEF InRead, ReadPCs
    <3> QED
      BY <3>1, <3>2 DEF Snapshots, Snapshot, memVars, TablesOf
  <2> QED
    BY <2>1, <2>2, OwnSnapshot DEF Snapshots
<1> QED
  BY <1>1, <1>2

\* What a create has stored of its dataset when the table map is still to come.
Stored(c) == pc[c] = "addTables" => datasets[call[c].ds] = call[c].meta

\* Nobody else writes between the two statements of a create.
LEMMA StoredStays ==
  ASSUME IInv, \A c \in Clients : Stored(c), [Next]_vars
  PROVE  \A c \in Clients : Stored(c)'
<1>1. CASE UNCHANGED vars
  BY <1>1 DEF vars, Stored
<1>2. CASE Next
  <2>1. PICK c \in Clients : Invoke(c) \/ Step(c) \/ Announce(c)
    BY <1>2 DEF Next
  <2>2. ASSUME NEW e \in Clients, e # c
        PROVE  Stored(e)'
    <3>1. pc'[e] = pc[e] /\ call'[e] = call[e]
      BY <2>1, <2>2, OthersUntouched
    <3>2. pc[e] = "addTables" => UNCHANGED memVars
      BY <2>1, <2>2, WriterAlone, WritersWrite DEF WritePCs
    <3> QED
      BY <3>1, <3>2 DEF Stored, memVars
  <2>3. Stored(c)'
    <3> SUFFICES ASSUME pc'[c] = "addTables"
                 PROVE  datasets'[call'[c].ds] = call'[c].meta
      BY DEF Stored
    <3> USE DEF IInv, TypeOK, memVars, At, Goto, Finish, Proceed, Checking
    <3>1. ~(Invoke(c) \/ Announce(c))
      BY DEF Invoke, Announce
    <3>2. ~(Refuse(c) \/ RLock(c) \/ RUnlock(c) \/ Lock(c) \/ Acquire(c) \/ Unlock(c) \/ Return(c))
      BY DEF Refuse, RLock, RUnlock, Lock, Acquire, Unlock, Return
    <3>3. ~(ListDatasets(c) \/ ScanDatasets(c) \/ ListTables(c) \/ ScanTables(c) \/ GetTable(c))
      BY DEF Reading, ListDatasets, ScanDatasets, ListTables, ScanTables, GetTable
    <3>4. ~(CreateDataset(c) \/ AddTables(c) \/ DropDataset(c) \/ DelDataset(c) \/ DelTables(c))
      BY DEF CreateDataset, AddTables, DropDataset, DelDataset, DelTables
    <3>5. ~(CreateTable(c) \/ AddTable(c) \/ DropTable(c) \/ DelTable(c))
      BY DEF CreateTable, AddTable, DropTable, DelTable
    <3>6. AddDataset(c)
      BY <2>1, <3>1, <3>2, <3>3, <3>4, <3>5 DEF Step, Body
    <3> QED
      BY <3>6 DEF AddDataset, Put
  <2> QED
    BY <2>2, <2>3
<1> QED
  BY <1>1, <1>2

RInv == IInv /\ Snapshots /\ \A c \in Clients : Stored(c)

\* The invariant the refinement needs holds in every reachable state.
LEMMA RefinementInvariant == Spec => []RInv
<1>1. Init => RInv
  BY InitInv DEF RInv, Snapshots, Snapshot, Stored, Init
<1>2. RInv /\ [Next]_vars => RInv'
  BY NextInv, SnapshotsStay, StoredStays DEF RInv
<1> QED
  BY <1>1, <1>2, PTL DEF Spec

-----------------------------------------------------------------------------
(* What Catalog sees of the backend.                                       *)

\* Between writes the catalog holds what the two maps do.
LEMMA CatalogIsMaps ==
  ASSUME IInv, DOMAIN tables = DOMAIN datasets
  PROVE  /\ DOMAIN cat = DOMAIN datasets
         /\ \A d \in DOMAIN cat :
              cat[d] = [meta |-> datasets[d], tables |-> tables[d]] /\ TablesOf(d) = tables[d]
         /\ \A k : C!HasDataset(k) <=> k.ds \in DOMAIN datasets
         /\ \A k : C!HasTable(k) <=> k.tbl \in DOMAIN TablesOf(k.ds)
<1>1. DOMAIN cat = DOMAIN datasets
  BY DEF cat
<1>2. \A d \in DOMAIN cat :
        cat[d] = [meta |-> datasets[d], tables |-> tables[d]] /\ TablesOf(d) = tables[d]
  BY DEF cat, TablesOf
<1>3. \A k : C!HasDataset(k) <=> k.ds \in DOMAIN datasets
  BY <1>1 DEF C!HasDataset
<1>4. ASSUME NEW k
      PROVE  C!HasTable(k) <=> k.tbl \in DOMAIN TablesOf(k.ds)
  <2>1. CASE k.ds \in DOMAIN datasets
    BY <2>1, <1>1, <1>2, <1>3 DEF C!HasTable
  <2>2. CASE k.ds \notin DOMAIN datasets
    BY <2>2, <1>3, EmptyMapType DEF C!HasTable, TablesOf
  <2> QED BY <2>1, <2>2
<1> QED
  BY <1>1, <1>2, <1>3, <1>4

\* A step that decides an answer is seen as that answer.
LEMMA AnswerSeen ==
  ASSUME IInv, NEW c \in Clients, NEW l, NEW a, pc[c] # "delTables", l # "delTables",
         Goto(c, l), answer' = [answer EXCEPT ![c] = a]
  PROVE  effectiveAnswer' = [effectiveAnswer EXCEPT ![c] = a]
BY DEF IInv, TypeOK, Goto, At, effectiveAnswer

\* A step that decides none is not seen.
LEMMA NoAnswerSeen ==
  ASSUME IInv, NEW c \in Clients, NEW l, pc[c] # "delTables", l # "delTables",
         Goto(c, l), answer' = answer
  PROVE  effectiveAnswer' = effectiveAnswer
BY DEF IInv, TypeOK, Goto, At, effectiveAnswer

\* A call whose checks are still to come is open.
LEMMA OpenCall ==
  ASSUME IInv, NEW c \in Clients,
         pc[c] \in {"start", "read", "scanDatasets", "scanTables", "check", "addDataset",
                    "addTables", "delDataset", "addTable", "delTable"}
  PROVE  /\ call[c] \in Calls
         /\ C!Open(c, call[c].op)
<1>1. call[c] \in Calls /\ call[c] # NoCall
  BY HasCall DEF IInv, OpAt
<1>2. effectiveAnswer[c] = NoAnswer
  BY DEF IInv, Listing, effectiveAnswer, At
<1> QED
  BY <1>1, <1>2 DEF C!Open

\* Such a call is answered in this step, and the catalog becomes next.
LEMMA EffectSeen ==
  ASSUME IInv, NEW c \in Clients, NEW code, NEW value, NEW l,
         pc[c] # "delTables", l # "delTables", Finish(c, code, value, l)
  PROVE  C!Effect(c, code, value, cat')
<1>1. effectiveAnswer' = [effectiveAnswer EXCEPT ![c] = Answer(code, value)]
  BY AnswerSeen DEF Finish
<1> QED
  BY <1>1 DEF C!Effect, Finish, Answer, C!Answer

\* The catalog does not change while the maps do not.
LEMMA SameCatalog ==
  ASSUME UNCHANGED memVars
  PROVE  cat' = cat
BY DEF memVars, cat

-----------------------------------------------------------------------------
(* One lemma per statement that Catalog sees; "unseen" ones together.      *)

\* A request arrives.
LEMMA InvokeRefines ==
  ASSUME IInv, NEW c \in Clients, Invoke(c)
  PROVE  C!Next
<1>1. call[c] = NoCall
  BY DEF Invoke, At, IInv, OpAt
<1>2. \E k \in C!Calls : call' = [call EXCEPT ![c] = k]
  <2>1. C!Calls = Calls
    BY DEF C!Calls, C!ReadCalls, C!DatasetCalls, C!TableCalls, C!EngineOps, C!JobOps,
           Calls, ReadCalls, DatasetCalls, TableCalls, EngineOps, JobOps
  <2> QED BY <2>1, ClientAssumption DEF Invoke
<1>3. cat' = cat /\ effectiveAnswer' = effectiveAnswer
  BY NoAnswerSeen, SameCatalog DEF Invoke, At
<1> QED
  BY <1>1, <1>2, <1>3 DEF C!Next, C!Invoke

\* A handler ends.
LEMMA ReturnRefines ==
  ASSUME IInv, NEW c \in Clients, Return(c)
  PROVE  C!Next
<1>1. effectiveAnswer[c] # NoAnswer
  BY DEF Return, At, IInv, Listing, effectiveAnswer
<1>2. cat' = cat /\ effectiveAnswer' = [effectiveAnswer EXCEPT ![c] = NoAnswer]
  BY AnswerSeen, SameCatalog DEF Return, At
<1> QED
  BY <1>1, <1>2 DEF Return, C!Next, C!Return

\* The waits for the mutex, the first statement of a listing and of a create,
\* and the last one of a drop change nothing a caller sees.
LEMMA MutexIsUnseen ==
  ASSUME IInv, NEW c \in Clients,
         RLock(c) \/ RUnlock(c) \/ Lock(c) \/ Announce(c) \/ Acquire(c) \/ Unlock(c)
  PROVE  UNCHANGED C!vars
<1> USE DEF At
<1>1. UNCHANGED memVars /\ call' = call /\ answer' = answer
  BY DEF RLock, RUnlock, Lock, Announce, Acquire, Unlock
<1>2. effectiveAnswer' = effectiveAnswer
  BY NoAnswerSeen DEF RLock, RUnlock, Lock, Announce, Acquire, Unlock
<1> QED
  BY <1>1, <1>2, SameCatalog DEF C!vars

\* The operators of Catalog's own copy of the calls are those of the backend.
LEMMA SameOperators ==
  /\ C!EngineOps = EngineOps /\ C!JobOps = JobOps
  /\ C!EmptyMap = EmptyMap
  /\ \A m, k, v : C!Put(m, k, v) = Put(m, k, v)
  /\ \A m, k : C!Delete(m, k) = Delete(m, k)
  /\ \A code, value : C!Answer(code, value) = Answer(code, value)
BY DEF C!EngineOps, C!JobOps, C!EmptyMap, C!Put, C!Delete, C!Answer,
       EngineOps, JobOps, EmptyMap, Put, Delete, Answer

\* A call answered while the maps stay as they are reads or refuses.
LEMMA AnsweredOnly ==
  ASSUME IInv, NEW c \in Clients, NEW code, NEW value, NEW l,
         pc[c] # "delTables", l # "delTables", Finish(c, code, value, l),
         UNCHANGED memVars
  PROVE  /\ C!Effect(c, code, value, cat)
         /\ value = Nothing => C!Refuse(c, code)
<1>1. C!Effect(c, code, value, cat') /\ cat' = cat
  BY EffectSeen, SameCatalog
<1> QED
  BY <1>1 DEF C!Refuse

\* The planes the backend has no engine for, and CREATE TABLE AS SELECT.
LEMMA RefuseRefines ==
  ASSUME IInv, NEW c \in Clients, Refuse(c)
  PROVE  C!Next
<1> DEFINE code == IF call[c].op \in JobOps THEN "NotFound" ELSE "Unsupported"
<1>1. pc[c] = "start" /\ Finish(c, code, Nothing, "return") /\ UNCHANGED memVars
  BY DEF Refuse, At
<1>2. C!Open(c, call[c].op) /\ C!Refuse(c, code)
  BY <1>1, OpenCall, AnsweredOnly
<1>3. CASE call[c].op \in JobOps
  BY <1>2, <1>3, SameOperators DEF C!Next, C!TakeEffect, C!Unserved
<1>4. CASE call[c].op \in EngineOps
  <2>1. code = "Unsupported"
    BY <1>4 DEF EngineOps, JobOps
  <2> QED
    BY <2>1, <1>2, <1>4, SameOperators DEF C!Next, C!TakeEffect, C!Unserved
<1>5. CASE call[c].op = "CreateTable" /\ call[c].asSelect
  <2>1. code = "Unsupported"
    BY <1>5 DEF JobOps
  <2> QED
    BY <2>1, <1>2, <1>5 DEF C!Next, C!TakeEffect, C!CreateTable
<1> QED
  BY <1>3, <1>4, <1>5 DEF Refuse, Refused

\* The loop over the datasets ends with all of them in the listing.
LEMMA ScanDatasetsRefines ==
  ASSUME RInv, NEW c \in Clients, ScanDatasets(c)
  PROVE  C!Next \/ UNCHANGED C!vars
<1> USE DEF At
<1>1. pc[c] = "scanDatasets" /\ UNCHANGED memVars /\ IInv
  BY DEF ScanDatasets, RInv
<1>2. CASE UNCHANGED <<call, pc, answer>>
  <2>1. effectiveAnswer' = effectiveAnswer
    BY <1>2 DEF effectiveAnswer
  <2> QED BY <1>1, <1>2, <2>1, SameCatalog DEF C!vars
<1>3. CASE DOMAIN datasets \subseteq DOMAIN listing[c] /\ Finish(c, "OK", listing[c], "runlock")
  <2>1. DOMAIN tables = DOMAIN datasets
    BY <1>1, ReaderAlone DEF InRead, ReadPCs
  <2>2. listing[c] = [d \in DOMAIN listing[c] |-> listing[c][d]]
    BY <1>1, MapsElim DEF IInv, Listing, DatasetListings
  <2>3. listing[c] = [d \in DOMAIN cat |-> cat[d].meta]
    <3>1. DOMAIN listing[c] = DOMAIN cat
      BY <1>1, <1>3, <2>1, CatalogIsMaps DEF RInv, Snapshots, Snapshot
    <3>2. \A d \in DOMAIN cat : listing[c][d] = cat[d].meta
      BY <1>1, <2>1, <3>1, CatalogIsMaps DEF RInv, Snapshots, Snapshot
    <3> QED BY <2>2, <3>1, <3>2
  <2>4. C!Effect(c, "OK", listing[c], cat)
    BY <1>1, <1>3, AnsweredOnly
  <2>5. C!Open(c, "ListDatasets")
    BY <1>1, OpenCall DEF IInv, OpAt
  <2> QED
    BY <2>3, <2>4, <2>5 DEF C!Next, C!TakeEffect, C!ListDatasets
<1> QED
  BY <1>2, <1>3 DEF ScanDatasets

\* The loop over a dataset's tables ends with all of them in the listing.
LEMMA ScanTablesRefines ==
  ASSUME RInv, NEW c \in Clients, ScanTables(c)
  PROVE  C!Next \/ UNCHANGED C!vars
<1> USE DEF At
<1> DEFINE k == call[c]
<1>1. pc[c] = "scanTables" /\ UNCHANGED memVars /\ IInv
  BY DEF ScanTables, RInv
<1>2. CASE UNCHANGED <<call, pc, answer>>
  <2>1. effectiveAnswer' = effectiveAnswer
    BY <1>2 DEF effectiveAnswer
  <2> QED BY <1>1, <1>2, <2>1, SameCatalog DEF C!vars
<1>3. CASE DOMAIN TablesOf(k.ds) \subseteq DOMAIN listing[c] /\ Finish(c, "OK", listing[c], "runlock")
  <2>1. DOMAIN tables = DOMAIN datasets
    BY <1>1, ReaderAlone DEF InRead, ReadPCs
  <2>2. listing[c] = [t \in DOMAIN listing[c] |-> listing[c][t]]
    BY <1>1, MapsElim DEF IInv, Listing, TableListings
  <2>3. C!HasDataset(k) /\ cat[k.ds].tables = TablesOf(k.ds)
    BY <1>1, <2>1, CatalogIsMaps DEF RInv, Snapshots, Snapshot
  <2>4. listing[c] = [t \in DOMAIN cat[k.ds].tables |-> Nothing]
    <3>1. DOMAIN listing[c] = DOMAIN cat[k.ds].tables
      BY <1>1, <1>3, <2>3 DEF RInv, Snapshots, Snapshot
    <3>2. \A t \in DOMAIN listing[c] : listing[c][t] = Nothing
      BY <1>1 DEF RInv, Snapshots, Snapshot
    <3> QED BY <2>2, <3>1, <3>2
  <2>5. C!Effect(c, "OK", listing[c], cat)
    BY <1>1, <1>3, AnsweredOnly
  <2>6. C!Open(c, "ListTables")
    BY <1>1, OpenCall DEF IInv, OpAt
  <2> QED
    BY <2>3, <2>4, <2>5, <2>6 DEF C!Next, C!TakeEffect, C!ListTables
<1> QED
  BY <1>2, <1>3 DEF ScanTables

\* The first statement of a read, under the read lock.
LEMMA ReadRefines ==
  ASSUME IInv, NEW c \in Clients, ListDatasets(c) \/ ListTables(c) \/ GetTable(c)
  PROVE  C!Next \/ UNCHANGED C!vars
<1> USE DEF At
<1> DEFINE k == call[c]
<1>1. pc[c] = "read" /\ c \in readers /\ UNCHANGED memVars
  BY DEF ListDatasets, ListTables, GetTable, Reading, RW!RHolds
<1>2. DOMAIN tables = DOMAIN datasets
  BY <1>1, ReaderAlone DEF InRead
<1>3. C!Open(c, k.op)
  BY <1>1, OpenCall
<1>4. ASSUME NEW l \in {"scanDatasets", "scanTables"}, Goto(c, l), UNCHANGED <<call, answer>>
      PROVE  UNCHANGED C!vars
  BY <1>1, <1>4, NoAnswerSeen, SameCatalog DEF C!vars
<1>5. CASE ListDatasets(c)
  BY <1>4, <1>5 DEF ListDatasets
<1>6. CASE ListTables(c)
  <2>1. CASE k.ds \in DOMAIN datasets
    BY <1>4, <1>6, <2>1 DEF ListTables
  <2>2. CASE k.ds \notin DOMAIN datasets
    <3>1. C!Refuse(c, "NotFound")
      BY <1>1, <1>6, <2>2, AnsweredOnly DEF ListTables
    <3> QED
      BY <1>2, <1>3, <1>6, <2>2, <3>1, CatalogIsMaps
         DEF ListTables, Reading, C!Next, C!TakeEffect, C!ListTables
  <2> QED BY <2>1, <2>2
<1>7. CASE GetTable(c)
  <2>1. CASE k.tbl \notin DOMAIN TablesOf(k.ds)
    <3>1. C!Refuse(c, "NotFound")
      BY <1>1, <1>7, <2>1, AnsweredOnly DEF GetTable
    <3> QED
      BY <1>2, <1>3, <1>7, <2>1, <3>1, CatalogIsMaps
         DEF GetTable, Reading, C!Next, C!TakeEffect, C!GetTable
  <2>2. CASE k.tbl \in DOMAIN TablesOf(k.ds)
    <3>1. C!HasTable(k) /\ cat[k.ds].tables[k.tbl] = tables[k.ds][k.tbl]
      BY <1>2, <2>2, CatalogIsMaps DEF C!HasTable, C!HasDataset
    <3>2. C!Effect(c, "OK", tables[k.ds][k.tbl], cat)
      BY <1>1, <1>7, <2>2, AnsweredOnly DEF GetTable
    <3> QED
      BY <1>3, <1>7, <3>1, <3>2 DEF GetTable, Reading, C!Next, C!TakeEffect, C!GetTable
  <2> QED BY <2>1, <2>2
<1> QED
  BY <1>5, <1>6, <1>7

\* A check that lets the call through is not seen.
LEMMA ProceedUnseen ==
  ASSUME IInv, NEW c \in Clients, NEW l, pc[c] = "check", l # "delTables",
         Proceed(c, l), UNCHANGED memVars
  PROVE  UNCHANGED C!vars
BY NoAnswerSeen, SameCatalog DEF Proceed, C!vars

\* CreateDataset: the answer of its check.
LEMMA CreateDatasetRefines ==
  ASSUME IInv, NEW c \in Clients, CreateDataset(c)
  PROVE  C!Next \/ UNCHANGED C!vars
<1> DEFINE k == call[c]
<1>1. pc[c] = "check" /\ k.op = "CreateDataset" /\ UNCHANGED memVars
  BY DEF CreateDataset, Checking, At
<1>2. DOMAIN tables = DOMAIN datasets
  BY <1>1, WriterAlone DEF WritePCs
<1>3. C!Open(c, "CreateDataset")
  BY <1>1, OpenCall
<1>4. CASE Proceed(c, "addDataset")
  BY <1>1, <1>4, ProceedUnseen
<1>5. CASE k.ds \in DOMAIN datasets /\ k.ifNotExists /\ Finish(c, "OK", datasets[k.ds], "unlock")
  <2>1. C!HasDataset(k) /\ cat[k.ds].meta = datasets[k.ds]
    BY <1>2, <1>5, CatalogIsMaps
  <2>2. C!Effect(c, "OK", datasets[k.ds], cat)
    BY <1>1, <1>5, AnsweredOnly
  <2> QED
    BY <1>3, <1>5, <2>1, <2>2 DEF C!Next, C!TakeEffect, C!CreateDataset
<1>6. CASE k.ds \in DOMAIN datasets /\ ~k.ifNotExists /\ Finish(c, "AlreadyExists", Nothing, "unlock")
  <2>1. C!HasDataset(k)
    BY <1>2, <1>6, CatalogIsMaps
  <2>2. C!Refuse(c, "AlreadyExists")
    BY <1>1, <1>6, AnsweredOnly
  <2> QED
    BY <1>3, <1>6, <2>1, <2>2 DEF C!Next, C!TakeEffect, C!CreateDataset
<1> QED
  BY <1>4, <1>5, <1>6 DEF CreateDataset

\* b.datasets[name] = d: the dataset is not in the catalog yet.
LEMMA AddDatasetRefines ==
  ASSUME IInv, NEW c \in Clients, AddDataset(c)
  PROVE  UNCHANGED C!vars
<1>1. pc[c] = "addDataset" /\ Proceed(c, "addTables") /\ tables' = tables
  BY DEF AddDataset, At
<1>2. DOMAIN tables = DOMAIN datasets /\ call[c].ds \notin DOMAIN datasets
  BY <1>1, WriterAlone DEF WritePCs, IInv, Checked
<1>3. cat' = cat
  BY <1>1, <1>2 DEF AddDataset, cat, Put
<1> QED
  BY <1>1, <1>3, NoAnswerSeen DEF Proceed, C!vars

\* b.tables[name] = map[string]*table{}: now it is.
LEMMA AddTablesRefines ==
  ASSUME RInv, NEW c \in Clients, AddTables(c)
  PROVE  C!Next
<1> DEFINE k == call[c]
           new == [meta |-> k.meta, tables |-> EmptyMap]
<1>1. /\ pc[c] = "addTables" /\ Finish(c, "OK", k.meta, "unlock")
      /\ tables' = Put(tables, k.ds, EmptyMap) /\ datasets' = datasets /\ IInv
  BY DEF AddTables, At, RInv
<1>2. /\ k.ds \notin DOMAIN tables
      /\ DOMAIN datasets = DOMAIN tables \cup {k.ds}
      /\ datasets[k.ds] = k.meta
  BY <1>1 DEF IInv, MapsDiffer, RInv, Stored
<1>3. cat' = Put(cat, k.ds, new)
  BY <1>1, <1>2 DEF cat, Put
<1>4. ~C!HasDataset(k)
  BY <1>2 DEF C!HasDataset, cat
<1>5. C!Effect(c, "OK", k.meta, Put(cat, k.ds, new))
  BY <1>1, <1>3, EffectSeen
<1>6. C!Open(c, "CreateDataset")
  BY <1>1, OpenCall DEF IInv, OpAt
<1> QED
  BY <1>4, <1>5, <1>6, SameOperators DEF C!Next, C!TakeEffect, C!CreateDataset

\* A dataset has no table exactly when its table map is the empty one.
LEMMA NoTables ==
  ASSUME IInv, NEW d
  PROVE  DOMAIN TablesOf(d) = {} <=> TablesOf(d) = EmptyMap
<1>1. TablesOf(d) = [t \in DOMAIN TablesOf(d) |-> TablesOf(d)[t]]
  BY MapTypes, MapsElim
<1> QED
  BY <1>1, EmptyMapType DEF EmptyMap

\* DropDataset: the answer of its check.
LEMMA DropDatasetRefines ==
  ASSUME IInv, NEW c \in Clients, DropDataset(c)
  PROVE  C!Next \/ UNCHANGED C!vars
<1> DEFINE k == call[c]
<1>1. pc[c] = "check" /\ k.op = "DropDataset" /\ UNCHANGED memVars
  BY DEF DropDataset, Checking, At
<1>2. DOMAIN tables = DOMAIN datasets
  BY <1>1, WriterAlone DEF WritePCs
<1>3. C!Open(c, "DropDataset")
  BY <1>1, OpenCall
<1>4. CASE Proceed(c, "delDataset")
  BY <1>1, <1>4, ProceedUnseen
<1>5. CASE k.ds \notin DOMAIN datasets /\ k.ifExists /\ Finish(c, "OK", Nothing, "unlock")
  BY <1>1, <1>2, <1>3, <1>5, CatalogIsMaps, AnsweredOnly DEF C!Next, C!TakeEffect, C!DropDataset
<1>6. CASE k.ds \notin DOMAIN datasets /\ ~k.ifExists /\ Finish(c, "NotFound", Nothing, "unlock")
  BY <1>1, <1>2, <1>3, <1>6, CatalogIsMaps, AnsweredOnly DEF C!Next, C!TakeEffect, C!DropDataset
<1>7. CASE /\ k.ds \in DOMAIN datasets /\ ~Droppable(k)
           /\ Finish(c, "PreconditionFailed", Nothing, "unlock")
  <2>1. C!HasDataset(k) /\ cat[k.ds].tables = TablesOf(k.ds)
    BY <1>2, <1>7, CatalogIsMaps
  <2>2. cat[k.ds].tables # C!EmptyMap /\ ~k.cascade
    BY <1>7, <2>1, NoTables, SameOperators DEF Droppable
  <2>3. C!Refuse(c, "PreconditionFailed")
    BY <1>1, <1>7, AnsweredOnly
  <2> QED
    BY <1>3, <2>1, <2>2, <2>3 DEF C!Next, C!TakeEffect, C!DropDataset
<1> QED
  BY <1>4, <1>5, <1>6, <1>7 DEF DropDataset

\* delete(b.datasets, name): the dataset and its tables are gone, and the
\* caller's answer is decided.
LEMMA DelDatasetRefines ==
  ASSUME IInv, NEW c \in Clients, DelDataset(c)
  PROVE  C!Next
<1> DEFINE k == call[c]
<1>1. /\ pc[c] = "delDataset" /\ Proceed(c, "delTables")
      /\ datasets' = Delete(datasets, k.ds) /\ tables' = tables
  BY DEF DelDataset, At
<1>2. DOMAIN tables = DOMAIN datasets /\ k.ds \in DOMAIN datasets /\ Droppable(k)
  BY <1>1, WriterAlone DEF WritePCs, IInv, Checked
<1>3. C!HasDataset(k) /\ (cat[k.ds].tables = C!EmptyMap \/ k.cascade)
  BY <1>2, CatalogIsMaps, NoTables, SameOperators DEF Droppable
<1>4. cat' = Delete(cat, k.ds)
  BY <1>1, <1>2 DEF cat, Delete
<1>5. effectiveAnswer' = [effectiveAnswer EXCEPT ![c] = Answer("OK", Nothing)]
  BY <1>1 DEF IInv, TypeOK, Proceed, Goto, At, effectiveAnswer
<1>6. C!Effect(c, "OK", Nothing, Delete(cat, k.ds))
  BY <1>1, <1>4, <1>5, SameOperators DEF C!Effect, Proceed
<1>7. C!Open(c, "DropDataset")
  BY <1>1, OpenCall DEF IInv, OpAt
<1> QED
  BY <1>3, <1>6, <1>7, SameOperators DEF C!Next, C!TakeEffect, C!DropDataset

\* delete(b.tables, name): nothing a caller sees.
LEMMA DelTablesRefines ==
  ASSUME IInv, NEW c \in Clients, DelTables(c)
  PROVE  UNCHANGED C!vars
<1>1. /\ pc[c] = "delTables" /\ Finish(c, "OK", Nothing, "unlock")
      /\ tables' = Delete(tables, call[c].ds) /\ datasets' = datasets
  BY DEF DelTables, At
<1>2. /\ call[c].ds \notin DOMAIN datasets
      /\ DOMAIN tables = DOMAIN datasets \cup {call[c].ds}
  BY <1>1 DEF IInv, MapsDiffer
<1>3. cat' = cat
  BY <1>1, <1>2 DEF cat, Delete
<1>4. effectiveAnswer' = effectiveAnswer
  BY <1>1 DEF IInv, TypeOK, Finish, Goto, At, effectiveAnswer
<1> QED
  BY <1>1, <1>3, <1>4 DEF Finish, C!vars

\* CreateTable: the answer of its check.
LEMMA CreateTableRefines ==
  ASSUME IInv, NEW c \in Clients, CreateTable(c)
  PROVE  C!Next \/ UNCHANGED C!vars
<1> DEFINE k == call[c]
<1>1. pc[c] = "check" /\ k.op = "CreateTable" /\ UNCHANGED memVars
  BY DEF CreateTable, Checking, At
<1>2. DOMAIN tables = DOMAIN datasets /\ ~k.asSelect
  BY <1>1, WriterAlone DEF WritePCs, IInv, OpAt, Refused
<1>3. C!Open(c, "CreateTable")
  BY <1>1, OpenCall
<1>4. CASE Proceed(c, "addTable")
  BY <1>1, <1>4, ProceedUnseen
<1>5. CASE k.ds \notin DOMAIN datasets /\ Finish(c, "NotFound", Nothing, "unlock")
  BY <1>1, <1>2, <1>3, <1>5, CatalogIsMaps, AnsweredOnly DEF C!Next, C!TakeEffect, C!CreateTable
<1>6. CASE /\ k.ds \in DOMAIN datasets /\ Taken(k) /\ k.ifNotExists
           /\ Finish(c, "OK", ExistingSchema(k), "unlock")
  <2>1. C!HasTable(k) /\ cat[k.ds].tables[k.tbl] = ExistingSchema(k)
    BY <1>2, <1>6, CatalogIsMaps DEF Taken, ExistingSchema
  <2>2. C!Effect(c, "OK", ExistingSchema(k), cat)
    BY <1>1, <1>6, AnsweredOnly
  <2> QED
    BY <1>2, <1>3, <1>6, <2>1, <2>2 DEF C!Next, C!TakeEffect, C!CreateTable
<1>7. CASE Taken(k) /\ ~k.ifNotExists /\ Finish(c, "AlreadyExists", Nothing, "unlock")
  <2>1. C!HasTable(k)
    BY <1>2, <1>7, CatalogIsMaps DEF Taken
  <2>2. C!Refuse(c, "AlreadyExists")
    BY <1>1, <1>7, AnsweredOnly
  <2> QED
    BY <1>2, <1>3, <1>7, <2>1, <2>2 DEF C!Next, C!TakeEffect, C!CreateTable
<1> QED
  BY <1>4, <1>5, <1>6, <1>7 DEF CreateTable

\* b.tables[ref.Dataset][ref.Table] = &table{...}
LEMMA AddTableRefines ==
  ASSUME IInv, NEW c \in Clients, AddTable(c)
  PROVE  C!Next
<1> DEFINE k == call[c]
<1>1. /\ pc[c] = "addTable" /\ Finish(c, "OK", k.schema, "unlock")
      /\ tables' = [tables EXCEPT ![k.ds] = Put(@, k.tbl, k.schema)] /\ datasets' = datasets
  BY DEF AddTable, At
<1>2. /\ DOMAIN tables = DOMAIN datasets /\ k.ds \in DOMAIN tables
      /\ k.tbl \notin DOMAIN tables[k.ds] /\ ~k.asSelect
  BY <1>1, WriterAlone DEF WritePCs, IInv, Checked, OpAt
<1>3. C!HasDataset(k) /\ ~C!HasTable(k) /\ cat[k.ds].tables = tables[k.ds]
  BY <1>2, CatalogIsMaps
<1>4. cat' = C!WithTables(k.ds, Put(cat[k.ds].tables, k.tbl, k.schema))
  BY <1>1, <1>2, <1>3, CatalogIsMaps DEF cat, C!WithTables
<1>5. C!Effect(c, "OK", k.schema, cat')
  BY <1>1, EffectSeen
<1>6. C!Open(c, "CreateTable")
  BY <1>1, OpenCall DEF IInv, OpAt
<1> QED
  BY <1>2, <1>3, <1>4, <1>5, <1>6, SameOperators DEF C!Next, C!TakeEffect, C!CreateTable

\* DropTable: the answer of its check.
LEMMA DropTableRefines ==
  ASSUME IInv, NEW c \in Clients, DropTable(c)
  PROVE  C!Next \/ UNCHANGED C!vars
<1> DEFINE k == call[c]
<1>1. pc[c] = "check" /\ k.op = "DropTable" /\ UNCHANGED memVars
  BY DEF DropTable, Checking, At
<1>2. DOMAIN tables = DOMAIN datasets
  BY <1>1, WriterAlone DEF WritePCs
<1>3. C!Open(c, "DropTable")
  BY <1>1, OpenCall
<1>4. CASE Proceed(c, "delTable")
  BY <1>1, <1>4, ProceedUnseen
<1>5. CASE /\ k.tbl \notin DOMAIN TablesOf(k.ds) /\ k.ifExists
           /\ Finish(c, "OK", Nothing, "unlock")
  BY <1>1, <1>2, <1>3, <1>5, CatalogIsMaps, AnsweredOnly DEF C!Next, C!TakeEffect, C!DropTable
<1>6. CASE /\ k.tbl \notin DOMAIN TablesOf(k.ds) /\ ~k.ifExists
           /\ Finish(c, "NotFound", Nothing, "unlock")
  BY <1>1, <1>2, <1>3, <1>6, CatalogIsMaps, AnsweredOnly DEF C!Next, C!TakeEffect, C!DropTable
<1> QED
  BY <1>4, <1>5, <1>6 DEF DropTable

\* delete(b.tables[ref.Dataset], ref.Table)
LEMMA DelTableRefines ==
  ASSUME IInv, NEW c \in Clients, DelTable(c)
  PROVE  C!Next
<1> DEFINE k == call[c]
<1>1. /\ pc[c] = "delTable" /\ Finish(c, "OK", Nothing, "unlock") /\ datasets' = datasets
  BY DEF DelTable, At
<1>2. /\ DOMAIN tables = DOMAIN datasets /\ k.ds \in DOMAIN tables
      /\ k.tbl \in DOMAIN tables[k.ds]
  BY <1>1, WriterAlone DEF WritePCs, IInv, Checked
<1>3. C!HasTable(k) /\ cat[k.ds].tables = tables[k.ds]
  BY <1>2, CatalogIsMaps
<1>4. tables' = [tables EXCEPT ![k.ds] = Delete(@, k.tbl)]
  BY <1>2 DEF DelTable
<1>5. cat' = C!WithTables(k.ds, Delete(cat[k.ds].tables, k.tbl))
  BY <1>1, <1>2, <1>3, <1>4, CatalogIsMaps DEF cat, C!WithTables
<1>6. C!Effect(c, "OK", Nothing, cat')
  BY <1>1, EffectSeen
<1>7. C!Open(c, "DropTable")
  BY <1>1, OpenCall DEF IInv, OpAt
<1> QED
  BY <1>3, <1>5, <1>6, <1>7, SameOperators DEF C!Next, C!TakeEffect, C!DropTable

-----------------------------------------------------------------------------
(* The refinement.                                                         *)

\* Every step of the backend is a step of Catalog or is not seen.
LEMMA StepRefines ==
  ASSUME RInv, [Next]_vars
  PROVE  [C!Next]_C!vars
<1>1. CASE UNCHANGED vars
  BY <1>1 DEF vars, C!vars, cat, effectiveAnswer, At
<1>2. CASE Next
  <2>1. PICK c \in Clients : Invoke(c) \/ Step(c) \/ Announce(c)
    BY <1>2 DEF Next
  <2>2. IInv
    BY DEF RInv
  <2>3. CASE Invoke(c) \/ Refuse(c) \/ Return(c)
    BY <2>2, <2>3, InvokeRefines, RefuseRefines, ReturnRefines
  <2>4. CASE RLock(c) \/ RUnlock(c) \/ Lock(c) \/ Announce(c) \/ Acquire(c) \/ Unlock(c)
    BY <2>2, <2>4, MutexIsUnseen
  <2>5. CASE ListDatasets(c) \/ ScanDatasets(c) \/ ListTables(c) \/ ScanTables(c) \/ GetTable(c)
    BY <2>2, <2>5, ReadRefines, ScanDatasetsRefines, ScanTablesRefines
  <2>6. CASE CreateDataset(c) \/ AddDataset(c) \/ AddTables(c)
    BY <2>2, <2>6, CreateDatasetRefines, AddDatasetRefines, AddTablesRefines
  <2>7. CASE DropDataset(c) \/ DelDataset(c) \/ DelTables(c)
    BY <2>2, <2>7, DropDatasetRefines, DelDatasetRefines, DelTablesRefines
  <2>8. CASE CreateTable(c) \/ AddTable(c) \/ DropTable(c) \/ DelTable(c)
    BY <2>2, <2>8, CreateTableRefines, AddTableRefines, DropTableRefines, DelTableRefines
  <2> QED
    BY <2>1, <2>3, <2>4, <2>5, <2>6, <2>7, <2>8 DEF Step, Body
<1> QED
  BY <1>1, <1>2

\* Every interleaving of the handlers of mem.go is a behaviour of the atomic
\* catalog: each call takes effect in one step between its invocation and its
\* return, and each answer is the one that step gives.
THEOREM Linearizable == Spec => CatalogSpec
<1>1. Init => C!Init
  BY EmptyMapType, SameOperators DEF Init, C!Init, cat, effectiveAnswer, At, EmptyMap
<1>2. RInv /\ [Next]_vars => [C!Next]_C!vars
  BY StepRefines
<1> QED
  BY <1>1, <1>2, RefinementInvariant, PTL DEF Spec, CatalogSpec, C!Spec

-----------------------------------------------------------------------------
(* What no step may do.                                                    *)

\* The table t of d disappears in this step, and a call asked for that.
Gone(d, t) == C!TableAt(cat, d, t) /\ ~C!TableAt(cat', d, t)

Asked(d, t) ==
  \E c \in Clients :
    /\ effectiveAnswer[c] = NoAnswer
    /\ effectiveAnswer'[c] = C!Answer("OK", Nothing)
    /\ call[c].ds = d
    /\ \/ call[c].op = "DropTable" /\ call[c].tbl = t
       \/ call[c].op = "DropDataset" /\ call[c].cascade

\* A step of the atomic catalog takes only the tables it was asked to take.
LEMMA CatalogKeepsTables ==
  ASSUME C!Next, NEW d, NEW t, Gone(d, t)
  PROVE  Asked(d, t)
<1> USE DEF Gone, C!TableAt, C!Effect, C!Refuse
<1>1. PICK c \in Clients : C!Invoke(c) \/ C!TakeEffect(c) \/ C!Return(c)
  BY DEF C!Next
<1> DEFINE k == call[c]
<1>2. cat' # cat
  OBVIOUS
<1>3. ~C!Invoke(c) /\ ~C!Return(c) /\ ~C!Unserved(c)
  BY <1>2 DEF C!Invoke, C!Return, C!Unserved
<1>4. ~C!ListDatasets(c) /\ ~C!ListTables(c) /\ ~C!GetTable(c)
  BY <1>2 DEF C!ListDatasets, C!ListTables, C!GetTable
<1>5. \A e \in DOMAIN cat : cat[e] = [meta |-> datasets[e], tables |-> tables[e]]
  BY DEF cat
<1>6. effectiveAnswer = [e \in Clients |-> effectiveAnswer[e]]
  BY DEF effectiveAnswer
<1>7. ~C!CreateDataset(c)
  <2> SUFFICES ASSUME C!CreateDataset(c) PROVE FALSE
    OBVIOUS
  <2>1. k.ds \notin DOMAIN cat /\ cat' = Put(cat, k.ds, [meta |-> k.meta, tables |-> EmptyMap])
    BY <1>2, SameOperators DEF C!CreateDataset, C!HasDataset
  <2> QED
    BY <2>1 DEF Put
<1>8. ~C!CreateTable(c)
  <2> SUFFICES ASSUME C!CreateTable(c) PROVE FALSE
    OBVIOUS
  <2>1. /\ k.ds \in DOMAIN cat
        /\ cat' = [cat EXCEPT ![k.ds].tables = Put(cat[k.ds].tables, k.tbl, k.schema)]
    BY <1>2, SameOperators DEF C!CreateTable, C!HasDataset, C!WithTables
  <2>2. DOMAIN cat' = DOMAIN cat /\ \A e \in DOMAIN cat : e # k.ds => cat'[e] = cat[e]
    BY <2>1
  <2>3. cat'[k.ds].tables = Put(cat[k.ds].tables, k.tbl, k.schema)
    BY <2>1, <1>5
  <2> QED
    BY <2>2, <2>3 DEF Put
<1>9. CASE C!DropDataset(c)
  <2>1. /\ C!Open(c, "DropDataset") /\ k.ds \in DOMAIN cat
        /\ cat[k.ds].tables = EmptyMap \/ k.cascade
        /\ effectiveAnswer' = [effectiveAnswer EXCEPT ![c] = C!Answer("OK", Nothing)]
        /\ cat' = Delete(cat, k.ds)
    BY <1>2, <1>9, SameOperators DEF C!DropDataset, C!HasDataset
  <2>2. d = k.ds
    BY <2>1 DEF Delete
  <2>3. k.cascade
    BY <2>1, <2>2, EmptyMapType
  <2> QED
    BY <1>6, <2>1, <2>2, <2>3 DEF Asked, C!Open
<1>10. CASE C!DropTable(c)
  <2>1. /\ C!Open(c, "DropTable") /\ k.ds \in DOMAIN cat
        /\ effectiveAnswer' = [effectiveAnswer EXCEPT ![c] = C!Answer("OK", Nothing)]
        /\ cat' = [cat EXCEPT ![k.ds].tables = Delete(cat[k.ds].tables, k.tbl)]
    BY <1>2, <1>10, SameOperators DEF C!DropTable, C!HasTable, C!HasDataset, C!WithTables
  <2>2. DOMAIN cat' = DOMAIN cat /\ \A e \in DOMAIN cat : e # k.ds => cat'[e] = cat[e]
    BY <2>1
  <2>3. cat'[k.ds].tables = Delete(cat[k.ds].tables, k.tbl)
    BY <2>1, <1>5
  <2>4. d = k.ds /\ t = k.tbl
    BY <2>2, <2>3 DEF Delete
  <2> QED
    BY <1>6, <2>1, <2>4 DEF Asked, C!Open
<1> QED
  BY <1>1, <1>3, <1>4, <1>7, <1>8, <1>9, <1>10 DEF C!TakeEffect

\* A table of the in-memory backend disappears only in the step of a DropTable
\* of it or of a DropDataset of its dataset with Cascade.
THEOREM DropsAreAskedFor == Spec => TablesGoOnlyWhenAsked
<1>1. RInv /\ [Next]_vars => [C!GoneTablesWereAskedFor]_C!vars
  BY StepRefines, CatalogKeepsTables DEF Gone, Asked, C!GoneTablesWereAskedFor
<1> QED
  BY <1>1, RefinementInvariant, PTL DEF Spec, TablesGoOnlyWhenAsked, C!TablesGoOnlyWhenAsked
=============================================================================
