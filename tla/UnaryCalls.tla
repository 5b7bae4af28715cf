---------------------------- MODULE UnaryCalls -----------------------------
(***************************************************************************)
(* The unary handlers of Server (internal/server/server.go) between one    *)
(* client and a backend: tables are created, described and given, rows    *)
(* are loaded and unloaded by jobs the client polls and cancels. Each      *)
(* handler translates, calls the backend, and translates the answer.       *)
(*                                                                         *)
(* The backend (external for jobs: no backend of the repository runs them  *)
(* yet) does what backend.go says of the options it is given. The catalog's *)
(* own rules are those of MemBackend.                                      *)
(***************************************************************************)
EXTENDS Translation

CONSTANTS Tables,
          Jobs,       \* the loads and unloads the client asks for
          Loadable,   \* formats the backend loads, besides FormatUnspecified
          Lists,      \* the lists of columns a client asks for
          None        \* what is not there

\* The backend's Job.
JobRecords ==
  [op : {"load", "unload"}, dest : Tables \cup {None}, disposition : WriteAppend .. WriteEmpty,
   state : JobStates, created : {1}, started : {ZeroTime, 1}, ended : {ZeroTime, 1}]

ASSUME LoadableAssumption == Loadable \subseteq LoadFormats
ASSUME NoneAssumption == None \notin JobRecords

\* Columns as a client may send them, of any number and depth: every node has its
\* parent, and any number for a type, as the wire's enumeration is open.
IsForest(list) ==
  \A path \in DOMAIN list :
    /\ path \in Seq(Nat \ {0}) \ {<<>>}
    /\ Len(path) > 1 => SubSeq(path, 1, Len(path) - 1) \in DOMAIN list
    /\ list[path].type \in Int

ASSUME ListsAssumption == \A list \in Lists : IsForest(list)

VARIABLES tables,      \* the backend's schema of each table
          rows,        \* the loads whose rows a table holds
          jobs,        \* the backend's jobs
          reply,       \* the last answer: a schema, a job, formats, a refusal
          given,       \* the columns a table was asked with
          asked        \* the disposition a load was asked with

backendVars == <<tables, rows, jobs>>
vars == <<backendVars, reply, given, asked>>

Is(x) == x # None

Answer(call, of, body) == [call |-> call, of |-> of, body |-> body]
Replied(call) == Is(reply) /\ reply.call = call

\* The oneof of an UnloadRequest: a table, a query, or nothing.
Sources == Tables \cup {"sql", None}

WireFormats      == LoadFormats \cup {6}
WireDispositions == 0 .. 4   \* 4: a value the gateway's proto does not have

TypeOK ==
  /\ \A t \in Tables : Is(tables[t]) =>
       \A path \in DOMAIN tables[t].columns : tables[t].columns[path].type \in ColumnTypes
  /\ rows \in [Tables -> SUBSET Jobs]
  /\ \A t \in Tables : rows[t] # {} => Is(tables[t])
  /\ jobs \in [Jobs -> JobRecords \cup {None}]
  /\ \A j \in Jobs : Is(jobs[j]) =>
       ((jobs[j].ended = ZeroTime) <=> (jobs[j].state \in {JobPending, JobRunning}))

Init ==
  /\ tables = [t \in Tables |-> None] /\ rows = [t \in Tables |-> {}]
  /\ jobs = [j \in Jobs |-> None]
  /\ reply = None
  /\ given = [t \in Tables |-> None] /\ asked = [j \in Jobs |-> None]

-----------------------------------------------------------------------------
(* Tables *)

Schema(t, columns) ==
  [info |-> [ref |-> t, kind |-> KindTable, created |-> ZeroTime, modified |-> ZeroTime],
   columns |-> columns]

Describe(t) == reply' = Answer("schema", t, TableSchemaOut(tables'[t]))

\* Of a table that exists: its schema if IfNotExists, or AlreadyExists.
CreateTable(t, columns) ==
  /\ ~Is(tables[t])
  /\ tables' = [tables EXCEPT ![t] = Schema(t, ColumnsIn(columns))] /\ Describe(t)
  /\ given' = [given EXCEPT ![t] = columns]
  /\ UNCHANGED <<rows, jobs, asked>>

GetTable(t) ==
  /\ Is(tables[t]) /\ UNCHANGED <<backendVars, given, asked>> /\ Describe(t)

DropTable(t) ==
  /\ Is(tables[t])
  /\ tables' = [tables EXCEPT ![t] = None] /\ rows' = [rows EXCEPT ![t] = {}]
  /\ given' = [given EXCEPT ![t] = None]
  /\ UNCHANGED <<jobs, reply, asked>>

-----------------------------------------------------------------------------
(* Loads, unloads, and their jobs; "1" is any instant *)

Show(j) == reply' = Answer("job", j, JobOut(jobs'[j]))

Submit(j, op, t, disposition) ==
  /\ ~Is(jobs[j])
  /\ jobs' = [jobs EXCEPT ![j] =
       [op |-> op, dest |-> t, disposition |-> disposition, state |-> JobPending,
        created |-> 1, started |-> ZeroTime, ended |-> ZeroTime]]
  /\ Show(j) /\ UNCHANGED <<tables, rows, given>>

Load(j, t, format, disposition) ==
  IF LoadFormatIn(format) \in Loadable \cup {0}
    THEN /\ Is(tables[t])
         /\ Submit(j, "load", t, Lookup(ProtoToWriteDisp, disposition))
         /\ asked' = [asked EXCEPT ![j] = disposition]
    ELSE /\ reply' = Answer("refused", t, format)
         /\ UNCHANGED <<backendVars, given, asked>>

\* Without a source the handler refuses the call itself.
Unload(j, source) ==
  /\ Is(source) /\ Submit(j, "unload", None, WriteAppend) /\ UNCHANGED asked

GetJob(j) ==
  /\ Is(jobs[j]) /\ UNCHANGED <<backendVars, given, asked>> /\ Show(j)

\* What the backend says it can do; only the formats are read again.
Capabilities == [formats |-> Loadable]

GetCapabilities ==
  /\ reply' = Answer("formats", None, CapabilitiesOut(Capabilities).formats)
  /\ UNCHANGED <<backendVars, given, asked>>

Ended(j) == jobs[j].state \in {JobDone, JobFailed, JobCancelled}
Become(j, state) ==
  jobs' = [jobs EXCEPT ![j].state = state, ![j].ended = 1]

CancelJob(j) ==
  /\ Is(jobs[j]) /\ ~Ended(j) /\ Become(j, JobCancelled)
  /\ UNCHANGED <<tables, rows, reply, given, asked>>

-----------------------------------------------------------------------------
(* The backend runs its jobs *)

Start(j) ==
  /\ Is(jobs[j]) /\ jobs[j].state = JobPending
  /\ jobs' = [jobs EXCEPT ![j].state = JobRunning, ![j].started = 1]
  /\ UNCHANGED <<tables, rows, reply, given, asked>>

Finish(j) ==
  /\ Is(jobs[j]) /\ jobs[j].state = JobRunning
  /\ LET t == jobs[j].dest
         d == jobs[j].disposition
     IN \/ /\ jobs[j].op = "load" /\ Is(tables[t])
           /\ d = WriteEmpty => rows[t] = {}
           /\ rows' = [rows EXCEPT ![t] = IF d = WriteTruncate THEN {j} ELSE @ \cup {j}]
           /\ Become(j, JobDone)
        \/ jobs[j].op = "unload" /\ Become(j, JobDone) /\ UNCHANGED rows
        \/ Become(j, JobFailed) /\ UNCHANGED rows
  /\ UNCHANGED <<tables, reply, given, asked>>

Catalog ==
  \E t \in Tables :
    \/ \E columns \in Lists : CreateTable(t, columns)
    \/ Replied("schema") /\ CreateTable(t, reply.body.columns)
    \/ GetTable(t) \/ DropTable(t)

Movement ==
  \E j \in Jobs :
    \/ \E t \in Tables, format \in WireFormats, disposition \in WireDispositions :
         Load(j, t, format, disposition)
    \/ \E source \in Sources : Unload(j, source)

Next ==
  \/ Catalog \/ Movement \/ GetCapabilities
  \/ \E j \in Jobs : GetJob(j) \/ CancelJob(j) \/ Start(j) \/ Finish(j)

Spec == Init /\ [][Next]_vars

\* The backend runs its jobs, and the client polls.
FairSpec == Spec /\ \A j \in Jobs : WF_vars(Start(j)) /\ WF_vars(Finish(j)) /\ WF_vars(GetJob(j))

-----------------------------------------------------------------------------
\* A table is described as it was asked for, at every depth, but for types the
\* backend has no word for, which become UNKNOWN: so a table made from a reply
\* is described by that reply, through any number of copies (convert.go:23-118).
Normal(pcs) ==
  [path \in DOMAIN pcs |->
     [type |-> IF pcs[path].type \in 1 .. 15 THEN pcs[path].type ELSE WireUnknown,
      rest |-> pcs[path].rest]]
SchemasAreKept ==
  \A t \in Tables : Is(tables[t]) => ColumnsOut(tables[t].columns) = Normal(given[t])

\* A load leaves a table as the client's disposition says: EMPTY adds to no
\* rows, TRUNCATE leaves only its own, anything else loses none (convert.go:
\* 241-246, warehouse.proto:258-264).
DispositionIsHonoured ==
  [][\A j \in Jobs : Is(asked[j]) /\ jobs'[j].state = JobDone /\ ~Ended(j) =>
       LET t == jobs[j].dest IN
         /\ asked[j] = WireEmpty => rows[t] = {}
         /\ asked[j] = WireTruncate => rows'[t] = {j}
         /\ asked[j] # WireTruncate => rows[t] \subseteq rows'[t]]_vars

\* A format the gateway advertises is one a Load is not refused for (convert.go:
\* 222-239, 264-266; backend.go:307-309).
AdvertisedFormatsLoad ==
  [][Replied("formats") /\ Replied("refused")' => reply'.body \notin reply.body]_vars

\* A client that polls a job sees it ended, with the time it did, however it
\* ended (convert.go:14-19, 132-157).
PollingEnds ==
  \A j \in Jobs : Is(jobs[j]) ~> /\ Replied("job") /\ reply.of = j
                                 /\ reply.body.state \in WireEnded /\ reply.body.ended # 0
=============================================================================
