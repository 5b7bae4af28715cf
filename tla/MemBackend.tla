----------------------------- MODULE MemBackend -----------------------------
(***************************************************************************)
(* internal/backend/mem/mem.go: the in-memory catalog backend, called      *)
(* concurrently by the gRPC handlers of internal/server/server.go.         *)
(*                                                                         *)
(* Each client is one handler goroutine with one call in flight. A call    *)
(* runs statement by statement: it waits for the mutex, checks, changes    *)
(* the two maps one after the other, unlocks and returns. Listings range   *)
(* over a map one entry at a time. The mutex is what keeps the two maps    *)
(* consistent and every call atomic, and CatalogSpec says that it does:    *)
(* this module implements the atomic Catalog.                              *)
(***************************************************************************)
EXTENDS CatalogCalls

CONSTANTS Clients,    \* the handlers that may be running at once
          NoClient,
          Workload    \* the calls the clients make

ASSUME ClientAssumption == NoClient \notin Clients /\ Workload \subseteq Calls

VARIABLES datasets,   \* Backend.datasets: name -> what was said of it
          tables,     \* Backend.tables: dataset -> table -> schema
          call,       \* the request each handler serves
          pc,         \* the next statement of each handler
          listing,    \* what a handler's range loop has collected so far
          answer,     \* what the method returns
          announced, writing, readers, queued   \* Backend.mu

RW == INSTANCE RWMutex

memVars    == <<datasets, tables>>
mutexVars  == <<announced, writing, readers, queued>>
vars == <<datasets, tables, call, pc, listing, answer,
          announced, writing, readers, queued>>

ReaderOps == {"ListDatasets", "ListTables", "GetTable"}

ReadPCs  == {"read", "scanDatasets", "scanTables", "runlock"}
WritePCs == {"check", "addDataset", "addTables", "delDataset", "delTables",
             "addTable", "delTable", "unlock"}
PCs == {"idle", "start", "lock", "acquire", "return"} \cup ReadPCs \cup WritePCs

TypeOK ==
  /\ datasets \in Maps(Datasets, Metas)
  /\ tables \in Maps(Datasets, Maps(Tables, Schemas))
  /\ call \in [Clients -> Calls \cup {NoCall}]
  /\ pc \in [Clients -> PCs]
  /\ listing \in [Clients -> DatasetListings \cup TableListings]
  /\ answer \in [Clients -> Answers \cup {NoAnswer}]
  /\ RW!TypeOK

Init ==
  /\ datasets = EmptyMap
  /\ tables = EmptyMap
  /\ call = [c \in Clients |-> NoCall]
  /\ pc = [c \in Clients |-> "idle"]
  /\ listing = [c \in Clients |-> EmptyMap]
  /\ answer = [c \in Clients |-> NoAnswer]
  /\ RW!Init

-----------------------------------------------------------------------------
(* The steps every call has.                                               *)

At(c, l)   == pc[c] = l
Goto(c, l) == pc' = [pc EXCEPT ![c] = l]

\* The method's result is decided: the deferred unlock at l is next.
Finish(c, code, value, l) ==
  /\ answer' = [answer EXCEPT ![c] = Answer(code, value)]
  /\ Goto(c, l)
  /\ UNCHANGED <<call, listing>>

\* The server hands a request to the backend.
Invoke(c) ==
  /\ At(c, "idle")
  /\ \E k \in Workload : call' = [call EXCEPT ![c] = k]
  /\ Goto(c, "start")
  /\ UNCHANGED <<memVars, listing, answer, mutexVars>>

\* The engine and job methods, and CREATE TABLE AS SELECT, are refused before
\* the mutex is touched.
Refused(k) == k.op \in EngineOps \cup JobOps \/ (k.op = "CreateTable" /\ k.asSelect)

Refuse(c) ==
  /\ At(c, "start")
  /\ Refused(call[c])
  /\ Finish(c, IF call[c].op \in JobOps THEN "NotFound" ELSE "Unsupported", Nothing, "return")
  /\ UNCHANGED <<memVars, mutexVars>>

RLock(c) ==
  /\ At(c, "start")
  /\ call[c].op \in ReaderOps
  /\ RW!RLock(c)
  /\ Goto(c, "read")
  /\ UNCHANGED <<memVars, call, listing, answer>>

RUnlock(c) ==
  /\ At(c, "runlock")
  /\ RW!RUnlock(c)
  /\ Goto(c, "return")
  /\ listing' = [listing EXCEPT ![c] = EmptyMap]
  /\ UNCHANGED <<memVars, call, answer>>

\* Mutation of Lock: a writer checks before it locks.
CheckWithoutLock(c) ==
  /\ At(c, "start")
  /\ call[c].op \notin ReaderOps
  /\ ~Refused(call[c])
  /\ Goto(c, "check")
  /\ UNCHANGED <<memVars, call, listing, answer, mutexVars>>

\* b.mu.Lock(), up to the wait for other writers.
Lock(c) ==
  /\ At(c, "start")
  /\ call[c].op \notin ReaderOps
  /\ ~Refused(call[c])
  /\ Goto(c, "lock")
  /\ UNCHANGED <<memVars, call, listing, answer, mutexVars>>

Announce(c) ==
  /\ At(c, "lock")
  /\ RW!Announce(c)
  /\ Goto(c, "acquire")
  /\ UNCHANGED <<memVars, call, listing, answer>>

Acquire(c) ==
  /\ At(c, "acquire")
  /\ RW!Acquire(c)
  /\ Goto(c, "check")
  /\ UNCHANGED <<memVars, call, listing, answer>>

Unlock(c) ==
  /\ At(c, "unlock")
  /\ RW!Unlock(c)
  /\ Goto(c, "return")
  /\ UNCHANGED <<memVars, call, listing, answer>>

\* The handler sends the answer and ends.
Return(c) ==
  /\ At(c, "return")
  /\ Goto(c, "idle")
  /\ call' = [call EXCEPT ![c] = NoCall]
  /\ answer' = [answer EXCEPT ![c] = NoAnswer]
  /\ UNCHANGED <<memVars, listing, mutexVars>>

-----------------------------------------------------------------------------
(* Reads, under the read lock.                                             *)

Reading(c, op) == At(c, "read") /\ RW!RHolds(c) /\ call[c].op = op

\* b.tables[ds]: indexing a nil map yields no entries.
TablesOf(ds) == IF ds \in DOMAIN tables THEN tables[ds] ELSE EmptyMap

ListDatasets(c) ==
  /\ Reading(c, "ListDatasets")
  /\ Goto(c, "scanDatasets")
  /\ UNCHANGED <<memVars, call, listing, answer, mutexVars>>

\* What a listing says of d.
ListingWithoutContents(d) == Nothing   \* mutation: only the name is copied
Entry(d) == datasets[d]

\* One turn of the loop over b.datasets, or its end.
ScanDatasets(c) ==
  /\ At(c, "scanDatasets")
  /\ \/ /\ \E d \in DOMAIN datasets \ DOMAIN listing[c] :
             listing' = [listing EXCEPT ![c] = Put(@, d, Entry(d))]
        /\ UNCHANGED <<call, pc, answer>>
     \/ /\ DOMAIN datasets \subseteq DOMAIN listing[c]
        /\ Finish(c, "OK", listing[c], "runlock")
  /\ UNCHANGED <<memVars, mutexVars>>

ListTables(c) ==
  LET k == call[c]
  IN /\ Reading(c, "ListTables")
     /\ \/ k.ds \notin DOMAIN datasets /\ Finish(c, "NotFound", Nothing, "runlock")
        \/ /\ k.ds \in DOMAIN datasets
           /\ Goto(c, "scanTables")
           /\ UNCHANGED <<call, listing, answer>>
     /\ UNCHANGED <<memVars, mutexVars>>

\* One turn of the loop over b.tables[ds], or its end.
ScanTables(c) ==
  LET tabs == TablesOf(call[c].ds)
  IN /\ At(c, "scanTables")
     /\ \/ /\ \E t \in DOMAIN tabs \ DOMAIN listing[c] :
                listing' = [listing EXCEPT ![c] = Put(@, t, Nothing)]
           /\ UNCHANGED <<call, pc, answer>>
        \/ /\ DOMAIN tabs \subseteq DOMAIN listing[c]
           /\ Finish(c, "OK", listing[c], "runlock")
     /\ UNCHANGED <<memVars, mutexVars>>

GetTable(c) ==
  LET k == call[c]
  IN /\ Reading(c, "GetTable")
     /\ \/ k.tbl \notin DOMAIN TablesOf(k.ds) /\ Finish(c, "NotFound", Nothing, "runlock")
        \/ k.tbl \in DOMAIN TablesOf(k.ds) /\ Finish(c, "OK", tables[k.ds][k.tbl], "runlock")
     /\ UNCHANGED <<memVars, mutexVars>>

-----------------------------------------------------------------------------
(* Writes, under the write lock: first the checks, which may answer, then  *)
(* the statements that change the maps.                                    *)

Checking(c, op) == At(c, "check") /\ call[c].op = op

\* The checks let the call through to the statement at l.
Proceed(c, l) == Goto(c, l) /\ UNCHANGED <<call, listing, answer>>

\* Mutation of CreateDataset: the early error return leaves the mutex locked.
CreateDatasetKeepsLock(c) ==
  LET k == call[c]
      exists == k.ds \in DOMAIN datasets
  IN /\ Checking(c, "CreateDataset")
     /\ \/ ~exists /\ Proceed(c, "addDataset")
        \/ exists /\ k.ifNotExists /\ Finish(c, "OK", datasets[k.ds], "unlock")
        \/ exists /\ ~k.ifNotExists /\ Finish(c, "AlreadyExists", Nothing, "return")
     /\ UNCHANGED <<memVars, mutexVars>>

CreateDataset(c) ==
  LET k == call[c]
      exists == k.ds \in DOMAIN datasets
  IN /\ Checking(c, "CreateDataset")
     /\ \/ ~exists /\ Proceed(c, "addDataset")
        \/ exists /\ k.ifNotExists /\ Finish(c, "OK", datasets[k.ds], "unlock")
        \/ exists /\ ~k.ifNotExists /\ Finish(c, "AlreadyExists", Nothing, "unlock")
     /\ UNCHANGED <<memVars, mutexVars>>

\* b.datasets[name] = d
AddDataset(c) ==
  /\ At(c, "addDataset")
  /\ datasets' = Put(datasets, call[c].ds, call[c].meta)
  /\ Proceed(c, "addTables")
  /\ UNCHANGED <<tables, mutexVars>>

\* Mutation of AddTables: the inner map is not made.
AddTablesForgotten(c) ==
  /\ At(c, "addTables")
  /\ Finish(c, "OK", call[c].meta, "unlock")
  /\ UNCHANGED <<memVars, mutexVars>>

\* b.tables[name] = map[string]*table{}; return &d
AddTables(c) ==
  /\ At(c, "addTables")
  /\ tables' = Put(tables, call[c].ds, EmptyMap)
  /\ Finish(c, "OK", call[c].meta, "unlock")
  /\ UNCHANGED <<datasets, mutexVars>>

\* An existing dataset may be dropped.
AlwaysDroppable(k) == TRUE   \* mutation: every drop cascades
Droppable(k) == DOMAIN TablesOf(k.ds) = {} \/ k.cascade

DropDataset(c) ==
  LET k == call[c]
      exists == k.ds \in DOMAIN datasets
  IN /\ Checking(c, "DropDataset")
     /\ \/ ~exists /\ k.ifExists /\ Finish(c, "OK", Nothing, "unlock")
        \/ ~exists /\ ~k.ifExists /\ Finish(c, "NotFound", Nothing, "unlock")
        \/ exists /\ ~Droppable(k) /\ Finish(c, "PreconditionFailed", Nothing, "unlock")
        \/ exists /\ Droppable(k) /\ Proceed(c, "delDataset")
     /\ UNCHANGED <<memVars, mutexVars>>

\* delete(b.datasets, name)
DelDataset(c) ==
  /\ At(c, "delDataset")
  /\ datasets' = Delete(datasets, call[c].ds)
  /\ Proceed(c, "delTables")
  /\ UNCHANGED <<tables, mutexVars>>

\* Mutation of DelTables: the tables of the dropped dataset are left behind.
DelTablesForgotten(c) ==
  /\ At(c, "delTables")
  /\ Finish(c, "OK", Nothing, "unlock")
  /\ UNCHANGED <<memVars, mutexVars>>

\* delete(b.tables, name); return nil
DelTables(c) ==
  /\ At(c, "delTables")
  /\ tables' = Delete(tables, call[c].ds)
  /\ Finish(c, "OK", Nothing, "unlock")
  /\ UNCHANGED <<datasets, mutexVars>>

\* The name is taken, and CREATE TABLE stops there.
Taken(k) == k.tbl \in DOMAIN TablesOf(k.ds)

\* What IfNotExists answers with.
RequestedSchema(k) == k.schema   \* mutation: it echoes the request
ExistingSchema(k) == tables[k.ds][k.tbl]

CreateTable(c) ==
  LET k == call[c]
  IN /\ Checking(c, "CreateTable")
     /\ \/ k.ds \notin DOMAIN datasets /\ Finish(c, "NotFound", Nothing, "unlock")
        \/ /\ k.ds \in DOMAIN datasets
           /\ \/ Taken(k) /\ k.ifNotExists /\ Finish(c, "OK", ExistingSchema(k), "unlock")
              \/ Taken(k) /\ ~k.ifNotExists /\ Finish(c, "AlreadyExists", Nothing, "unlock")
              \/ ~Taken(k) /\ Proceed(c, "addTable")
     /\ UNCHANGED <<memVars, mutexVars>>

\* b.tables[ref.Dataset][ref.Table] = &table{...}. Storing into a nil map is a
\* panic that ends the process, so the statement needs the inner map.
AddTable(c) ==
  LET k == call[c]
  IN /\ At(c, "addTable")
     /\ k.ds \in DOMAIN tables
     /\ tables' = [tables EXCEPT ![k.ds] = Put(@, k.tbl, k.schema)]
     /\ Finish(c, "OK", k.schema, "unlock")
     /\ UNCHANGED <<datasets, mutexVars>>

DropTable(c) ==
  LET k == call[c]
      exists == k.tbl \in DOMAIN TablesOf(k.ds)
  IN /\ Checking(c, "DropTable")
     /\ \/ ~exists /\ k.ifExists /\ Finish(c, "OK", Nothing, "unlock")
        \/ ~exists /\ ~k.ifExists /\ Finish(c, "NotFound", Nothing, "unlock")
        \/ exists /\ Proceed(c, "delTable")
     /\ UNCHANGED <<memVars, mutexVars>>

\* delete(b.tables[ref.Dataset], ref.Table); deleting from a nil map is a no-op.
DelTable(c) ==
  LET k == call[c]
  IN /\ At(c, "delTable")
     /\ tables' = IF k.ds \in DOMAIN tables
                    THEN [tables EXCEPT ![k.ds] = Delete(@, k.tbl)] ELSE tables
     /\ Finish(c, "OK", Nothing, "unlock")
     /\ UNCHANGED <<datasets, mutexVars>>

-----------------------------------------------------------------------------
Body(c) ==
  \/ ListDatasets(c) \/ ScanDatasets(c) \/ ListTables(c) \/ ScanTables(c) \/ GetTable(c)
  \/ CreateDataset(c) \/ AddDataset(c) \/ AddTables(c)
  \/ DropDataset(c) \/ DelDataset(c) \/ DelTables(c)
  \/ CreateTable(c) \/ AddTable(c) \/ DropTable(c) \/ DelTable(c)

\* What a handler does on its own once it is called, but for the wait of a
\* writer for the other writers.
Step(c) ==
  \/ Refuse(c) \/ RLock(c) \/ RUnlock(c) \/ Lock(c) \/ Acquire(c) \/ Unlock(c)
  \/ Body(c) \/ Return(c)

Next == \E c \in Clients : Invoke(c) \/ Step(c) \/ Announce(c)

\* Goroutines are scheduled, so a step that stays possible is taken. A writer
\* waiting for the inner Mutex is passed over only finitely often: after 1ms
\* of waiting sync.Mutex hands the lock over in arrival order.
Fairness == \A c \in Clients : WF_vars(Step(c)) /\ SF_vars(Announce(c))

Spec     == Init /\ [][Next]_vars
FairSpec == Spec /\ Fairness

-----------------------------------------------------------------------------
(* Properties.                                                             *)

\* A handler is inside the read (write) section only while it holds the read
\* (write) lock, and a writer is alone: no statement of another handler runs
\* between a writer's check and the change the check allowed.
SectionsHoldTheLock ==
  \A c \in Clients :
    /\ pc[c] \in WritePCs => RW!Holds(c)
    /\ pc[c] \in ReadPCs \ {"read"} => RW!RHolds(c)

\* The two maps describe the same datasets whenever no writer is between its
\* two statements: no dataset without a table map, no table map left behind by
\* a dropped dataset for a later dataset of that name to inherit.
MapsAgree ==
  (\A c \in Clients : pc[c] \notin {"addTables", "delTables"}) =>
    DOMAIN tables = DOMAIN datasets

\* CreateTable never stores into the map of a dataset that is gone: the store
\* would panic and end the gateway for every caller.
NoStoreIntoNilMap ==
  \A c \in Clients : At(c, "addTable") => call[c].ds \in DOMAIN tables

\* The catalog the maps represent: while a writer is between its two
\* statements, a half-created or half-dropped dataset is not in it.
cat == [d \in DOMAIN datasets \cap DOMAIN tables |->
          [meta |-> datasets[d], tables |-> tables[d]]]

\* A drop has taken effect once the dataset is deleted, before it returns.
effectiveAnswer ==
  [c \in Clients |-> IF At(c, "delTables") THEN Answer("OK", Nothing) ELSE answer[c]]

C == INSTANCE Catalog WITH answer <- effectiveAnswer

\* Every interleaving of calls is one of the atomic catalog: each call takes
\* effect in a single step between its invocation and its return, listings are
\* snapshots, and each answer is the one that step gives.
CatalogSpec == C!Spec

\* A table disappears only in the step of a DropTable of that table, or of a
\* DropDataset of its dataset with Cascade: a drop without Cascade racing a
\* CreateTable never takes the new table with it.
TablesGoOnlyWhenAsked == C!TablesGoOnlyWhenAsked

\* Every call returns, whatever the other clients do: readers and writers do
\* not starve or deadlock each other on the mutex.
EveryCallReturns == \A c \in Clients : pc[c] # "idle" ~> pc[c] = "idle"

\* What serr.go:20 says of its code: AlreadyExists means an if-not-exists
\* create found an existing object.
AlreadyExistsMeansIfNotExists ==
  \A c \in Clients :
    answer[c] # NoAnswer /\ answer[c].code = "AlreadyExists" => call[c].ifNotExists
=============================================================================
