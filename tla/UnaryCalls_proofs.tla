------------------------- MODULE UnaryCalls_proofs -------------------------
(***************************************************************************)
(* The translation loses nothing that matters: schemas of any shape are    *)
(* described as they were asked for, loads honour the disposition they     *)
(* were asked with, and what is advertised loads, for any tables, jobs and *)
(* formats.                                                                *)
(*                                                                         *)
(* The argument: each table of convert.go is followed back by its inverse  *)
(* (ColumnsTwice, FormatsTwice); a table holds the translation of the      *)
(* columns it was given (Kept), a load that of the disposition it was      *)
(* asked with (Submitted), and the last answer about formats is what the   *)
(* backend still loads (Advertised).                                       *)
(***************************************************************************)
EXTENDS UnaryCalls, TLAPS

\* A table holds the columns it was given, translated.
Kept ==
  /\ DOMAIN tables = Tables /\ DOMAIN given = Tables
  /\ \A t \in Tables : Is(tables[t]) => tables[t] = Schema(t, ColumnsIn(given[t]))

\* Only a table that is there holds rows.
Held ==
  /\ rows \in [Tables -> SUBSET Jobs]
  /\ \A t \in Tables : rows[t] # {} => Is(tables[t])

\* A job has a type, and has ended if it has a time when it did.
Jobbed ==
  /\ jobs \in [Jobs -> JobRecords \cup {None}]
  /\ \A j \in Jobs : Is(jobs[j]) =>
       ((jobs[j].ended = ZeroTime) <=> (jobs[j].state \in {JobPending, JobRunning}))

\* A load has the disposition it was asked with, translated.
Submitted ==
  /\ DOMAIN asked = Jobs
  /\ \A j \in Jobs : Is(asked[j]) =>
       /\ Is(jobs[j]) /\ jobs[j].op = "load" /\ jobs[j].dest \in Tables
       /\ jobs[j].disposition = Lookup(ProtoToWriteDisp, asked[j])

\* The formats a client was told are those there are.
Advertised == Replied("formats") => reply.body = CapabilitiesOut(Capabilities).formats

IInv == Kept /\ Held /\ Jobbed /\ Submitted /\ Advertised

-----------------------------------------------------------------------------
(* The tables of convert.go.                                               *)

\* Any number on the wire is a type of the backend.
LEMMA TypesIn == \A p : ColTypeIn(p) \in ColumnTypes
<1>1. \A t \in ColumnTypes : ColTypeToProto[t] = IF t = 0 THEN 16 ELSE t
  BY DEF ColTypeToProto, TypeUnknown, WireUnknown
<1>2. DOMAIN ColTypeToProto = ColumnTypes /\ ColumnTypes = 0 .. 15
  BY DEF ColTypeToProto, ColumnTypes, TypeUnknown
<1>3. \A p \in DOMAIN ProtoToColType : ProtoToColType[p] \in ColumnTypes
  <2>1. ASSUME NEW p \in DOMAIN ProtoToColType
        PROVE  ProtoToColType[p] \in ColumnTypes
    <3>1. PICK t \in ColumnTypes : ColTypeToProto[t] = p
      BY <1>2, <2>1 DEF ProtoToColType, AntiFunction, Inverse, Range
    <3>2. ProtoToColType[p] = CHOOSE s \in ColumnTypes :
                                p \in Range(ColTypeToProto) => ColTypeToProto[s] = p
      BY <1>2, <2>1 DEF ProtoToColType, AntiFunction, Inverse
    <3> QED
      BY <3>1, <3>2
  <2> QED
    BY <2>1
<1> QED
  BY <1>3 DEF ColTypeIn, ColumnTypes, TypeUnknown

\* A type goes through the backend and comes back, if the backend has a word for
\* it, and as UNKNOWN otherwise.
LEMMA TypesTwice ==
  \A p : ColTypeOut(ColTypeIn(p)) = IF p \in 1 .. 15 THEN p ELSE WireUnknown
<1>1. \A t \in ColumnTypes : ColTypeToProto[t] = IF t = 0 THEN 16 ELSE t
  BY DEF ColTypeToProto, TypeUnknown, WireUnknown
<1>2. DOMAIN ColTypeToProto = ColumnTypes /\ ColumnTypes = 0 .. 15
  BY DEF ColTypeToProto, ColumnTypes, TypeUnknown
<1>3. Range(ColTypeToProto) = 1 .. 16
  <2>1. \A p \in 1 .. 16 : \E t \in ColumnTypes : ColTypeToProto[t] = p
    <3>1. ASSUME NEW p \in 1 .. 16
          PROVE  \E t \in ColumnTypes : ColTypeToProto[t] = p
      <4>1. CASE p = 16
        BY <1>1, <1>2, <4>1
      <4>2. CASE p # 16
        BY <1>1, <1>2, <4>2
      <4> QED
        BY <4>1, <4>2
    <3> QED
      BY <3>1
  <2>2. \A t \in ColumnTypes : ColTypeToProto[t] \in 1 .. 16
    BY <1>1, <1>2
  <2> QED
    BY <1>2, <2>1, <2>2 DEF Range
<1>4. DOMAIN ProtoToColType = 1 .. 16
  BY <1>3 DEF ProtoToColType, AntiFunction, Inverse
<1>5. ASSUME NEW p \in 1 .. 16
      PROVE  ProtoToColType[p] = IF p = 16 THEN 0 ELSE p
  <2>1. ProtoToColType[p] = CHOOSE s \in ColumnTypes :
                              p \in Range(ColTypeToProto) => ColTypeToProto[s] = p
    BY <1>2, <1>3 DEF ProtoToColType, AntiFunction, Inverse
  <2>2. \E s \in ColumnTypes : p \in Range(ColTypeToProto) => ColTypeToProto[s] = p
    BY <1>2, <1>3 DEF Range
  <2>3. ProtoToColType[p] \in ColumnTypes /\ ColTypeToProto[ProtoToColType[p]] = p
    BY <1>3, <2>1, <2>2
  <2> QED
    BY <1>1, <1>2, <2>3
<1> QED
  <2> SUFFICES ASSUME NEW p
               PROVE  ColTypeOut(ColTypeIn(p)) = IF p \in 1 .. 15 THEN p ELSE WireUnknown
    OBVIOUS
  <2>1. CASE p \in 1 .. 15
    <3>1. ColTypeIn(p) = p /\ p \in ColumnTypes /\ p # 0
      BY <1>2, <1>4, <1>5, <2>1 DEF ColTypeIn
    <3> QED
      BY <1>1, <1>2, <2>1, <3>1 DEF ColTypeOut
  <2>2. CASE p \notin 1 .. 15
    <3>1. ColTypeIn(p) = 0
      BY <1>4, <1>5, <2>2 DEF ColTypeIn, TypeUnknown
    <3> QED
      BY <1>1, <1>2, <2>2, <3>1 DEF ColTypeOut, WireUnknown
  <2> QED
    BY <2>1, <2>2

\* So do columns, of any number and depth.
LEMMA ColumnsTwice ==
  ASSUME NEW pcs
  PROVE  ColumnsOut(ColumnsIn(pcs)) = Normal(pcs)
<1>1. ASSUME NEW path \in DOMAIN pcs
      PROVE  ColumnOut(ColumnsIn(pcs)[path]) =
               [type |-> IF pcs[path].type \in 1 .. 15 THEN pcs[path].type ELSE WireUnknown,
                rest |-> pcs[path].rest]
  <2>1. ColumnsIn(pcs)[path] = [type |-> ColTypeIn(pcs[path].type), rest |-> pcs[path].rest]
    BY DEF ColumnsIn, ColumnIn
  <2>2. ASSUME NEW t, NEW r
        PROVE  ColumnOut([type |-> t, rest |-> r]) = [type |-> ColTypeOut(t), rest |-> r]
    BY DEF ColumnOut
  <2>3. ColumnOut(ColumnsIn(pcs)[path]) =
          [type |-> ColTypeOut(ColTypeIn(pcs[path].type)), rest |-> pcs[path].rest]
    BY <2>1, <2>2, Zenon
  <2> QED
    BY <2>3, TypesTwice
<1>2. DOMAIN ColumnsIn(pcs) = DOMAIN pcs
  BY DEF ColumnsIn
<1> QED
  BY <1>1, <1>2 DEF ColumnsOut, Normal

\* An advertised format is translated back to the one it stands for.
LEMMA FormatsTwice ==
  \A f \in LoadFormats : LoadFormatIn(Lookup(LoadFormatToProto, f)) = f
<1>1. /\ DOMAIN ProtoToLoadFormat = LoadFormats
      /\ \A f \in LoadFormats : ProtoToLoadFormat[f] = f
  BY DEF ProtoToLoadFormat
<1>2. Range(ProtoToLoadFormat) = LoadFormats
  BY <1>1 DEF Range
<1>3. ASSUME NEW f \in LoadFormats
      PROVE  LoadFormatToProto[f] = f
  <2>1. LoadFormatToProto[f] = CHOOSE s \in LoadFormats :
                                 f \in Range(ProtoToLoadFormat) => ProtoToLoadFormat[s] = f
    BY <1>1, <1>2 DEF LoadFormatToProto, AntiFunction, Inverse
  <2>2. \E s \in LoadFormats : f \in Range(ProtoToLoadFormat) => ProtoToLoadFormat[s] = f
    BY <1>1
  <2> QED
    BY <1>1, <1>2, <2>1, <2>2
<1>4. DOMAIN LoadFormatToProto = LoadFormats
  BY <1>2 DEF LoadFormatToProto, AntiFunction, Inverse
<1> QED
  BY <1>1, <1>3, <1>4 DEF LoadFormatIn, Lookup

-----------------------------------------------------------------------------
(* Every step preserves the invariant.                                     *)

\* An answer is what it says.
LEMMA Answers ==
  ASSUME NEW call, NEW of, NEW body
  PROVE  Answer(call, of, body).call = call /\ Answer(call, of, body).body = body
BY DEF Answer

\* An answer that is not about formats leaves nothing to be shown of formats.
LEMMA OtherAnswers ==
  ASSUME NEW call, NEW of, NEW body, reply' = Answer(call, of, body), call # "formats"
  PROVE  Advertised'
<1>1. Answer(call, of, body).call = call
  BY Answers
<1>2. reply'.call = call
  BY <1>1, Zenon
<1> QED
  BY <1>2 DEF Advertised, Replied

\* A table is created: it had no rows.
LEMMA CreateTableStep ==
  ASSUME IInv, NEW t \in Tables, NEW columns, CreateTable(t, columns)
  PROVE  IInv'
<1>1. /\ ~Is(tables[t]) /\ tables' = [tables EXCEPT ![t] = Schema(t, ColumnsIn(columns))]
      /\ given' = [given EXCEPT ![t] = columns] /\ UNCHANGED <<rows, jobs, asked>>
      /\ reply' = Answer("schema", t, TableSchemaOut(tables'[t]))
  BY DEF CreateTable, Describe
<1>2. Kept'
  <2>1. DOMAIN tables' = Tables /\ DOMAIN given' = Tables
    BY <1>1 DEF IInv, Kept
  <2>2. ASSUME NEW u \in Tables, Is(tables'[u])
        PROVE  tables'[u] = Schema(u, ColumnsIn(given'[u]))
    <3>1. CASE u = t
      BY <1>1, <3>1 DEF IInv, Kept
    <3>2. CASE u # t
      BY <1>1, <2>2, <3>2 DEF IInv, Kept, Is
    <3> QED
      BY <3>1, <3>2
  <2> QED
    BY <2>1, <2>2 DEF Kept, Is
<1>3. Held'
  BY <1>1 DEF IInv, Kept, Held, Is
<1>4. Jobbed' /\ Submitted'
  BY <1>1 DEF IInv, Jobbed, Submitted, Is
<1>5. Advertised'
  BY <1>1, OtherAnswers
<1> QED
  BY <1>2, <1>3, <1>4, <1>5 DEF IInv

\* A table is dropped, with its rows.
LEMMA DropTableStep ==
  ASSUME IInv, NEW t \in Tables, DropTable(t)
  PROVE  IInv'
<1>1. /\ tables' = [tables EXCEPT ![t] = None] /\ rows' = [rows EXCEPT ![t] = {}]
      /\ given' = [given EXCEPT ![t] = None] /\ UNCHANGED <<jobs, reply, asked>>
  BY DEF DropTable
<1>2. Kept' /\ Held'
  BY <1>1 DEF IInv, Kept, Held, Is
<1>3. Jobbed' /\ Submitted' /\ Advertised'
  BY <1>1 DEF IInv, Jobbed, Submitted, Advertised, Replied, Is
<1> QED
  BY <1>2, <1>3 DEF IInv

\* A step that only answers, and not about formats.
LEMMA AnswerStep ==
  ASSUME IInv, UNCHANGED <<backendVars, given, asked>>,
         NEW call, NEW of, NEW body, reply' = Answer(call, of, body), call # "formats"
  PROVE  IInv'
<1>1. Kept' /\ Held' /\ Jobbed' /\ Submitted'
  BY DEF backendVars, IInv, Kept, Held, Jobbed, Submitted, Is
<1>2. Advertised'
  BY OtherAnswers
<1> QED
  BY <1>1, <1>2 DEF IInv

\* The answer about formats.
LEMMA GetCapabilitiesStep ==
  ASSUME IInv, GetCapabilities
  PROVE  IInv'
<1>1. Kept' /\ Held' /\ Jobbed' /\ Submitted'
  BY DEF GetCapabilities, backendVars, IInv, Kept, Held, Jobbed, Submitted, Is
<1>2. reply'.body = CapabilitiesOut(Capabilities).formats
  <2>1. reply' = Answer("formats", None, CapabilitiesOut(Capabilities).formats)
    BY DEF GetCapabilities
  <2>2. Answer("formats", None, CapabilitiesOut(Capabilities).formats).body =
          CapabilitiesOut(Capabilities).formats
    BY Answers
  <2> QED
    BY <2>1, <2>2, Zenon
<1> QED
  BY <1>1, <1>2 DEF IInv, Advertised

\* What one job becomes.
LEMMA JobChanges ==
  ASSUME Jobbed, NEW j \in Jobs, NEW record \in JobRecords, jobs' = [jobs EXCEPT ![j] = record],
         (record.ended = ZeroTime) <=> (record.state \in {JobPending, JobRunning})
  PROVE  Jobbed' /\ Is(jobs'[j])
BY NoneAssumption DEF Jobbed, Is

\* A job of any kind is submitted, where there was none.
LEMMA SubmitStep ==
  ASSUME IInv, NEW j \in Jobs, NEW op \in {"load", "unload"}, NEW t \in Tables \cup {None},
         NEW d \in WriteAppend .. WriteEmpty, Submit(j, op, t, d)
  PROVE  /\ Kept' /\ Held' /\ Jobbed' /\ Advertised' /\ ~Is(jobs[j]) /\ Is(jobs'[j])
         /\ jobs'[j].op = op /\ jobs'[j].dest = t /\ jobs'[j].disposition = d
         /\ \A k \in Jobs \ {j} : jobs'[k] = jobs[k]
<1> DEFINE record == [op |-> op, dest |-> t, disposition |-> d, state |-> JobPending,
                      created |-> 1, started |-> ZeroTime, ended |-> ZeroTime]
<1>1. /\ ~Is(jobs[j]) /\ jobs' = [jobs EXCEPT ![j] = record] /\ UNCHANGED <<tables, rows, given>>
      /\ reply' = Answer("job", j, JobOut(jobs'[j]))
  BY DEF Submit, Show
<1>2. record \in JobRecords
  BY DEF JobRecords, JobStates, JobPending, JobCancelled
<1>3. /\ record.op = op /\ record.dest = t /\ record.disposition = d
      /\ record.state = JobPending /\ record.ended = ZeroTime
  OBVIOUS
<1> HIDE DEF record
<1>4. Jobbed' /\ Is(jobs'[j])
  BY <1>1, <1>2, <1>3, JobChanges DEF IInv
<1>5. jobs'[j] = record /\ \A k \in Jobs \ {j} : jobs'[k] = jobs[k]
  BY <1>1 DEF IInv, Jobbed
<1>6. Kept' /\ Held'
  BY <1>1 DEF IInv, Kept, Held, Is
<1>7. Advertised'
  BY <1>1, OtherAnswers
<1> QED
  BY <1>1, <1>3, <1>4, <1>5, <1>6, <1>7

\* A disposition on the wire is one of the backend's, whatever number it is.
LEMMA DispositionsIn == \A p : Lookup(ProtoToWriteDisp, p) \in WriteAppend .. WriteEmpty
BY DEF Lookup, ProtoToWriteDisp, WriteAppend, WriteEmpty, WriteTruncate, WireTruncate, WireEmpty

\* A load is submitted, or refused.
LEMMA LoadStep ==
  ASSUME IInv, NEW j \in Jobs, NEW t \in Tables, NEW format, NEW disposition,
         Load(j, t, format, disposition)
  PROVE  IInv'
<1>1. CASE LoadFormatIn(format) \in Loadable \cup {0}
  <2>1. /\ Submit(j, "load", t, Lookup(ProtoToWriteDisp, disposition))
        /\ asked' = [asked EXCEPT ![j] = disposition]
    BY <1>1 DEF Load
  <2>2. /\ Kept' /\ Held' /\ Jobbed' /\ Advertised' /\ Is(jobs'[j])
        /\ jobs'[j].op = "load" /\ jobs'[j].dest = t
        /\ jobs'[j].disposition = Lookup(ProtoToWriteDisp, disposition)
        /\ \A k \in Jobs \ {j} : jobs'[k] = jobs[k]
    BY <2>1, DispositionsIn, SubmitStep
  <2>3. Submitted'
    BY <2>1, <2>2 DEF IInv, Submitted, Is
  <2> QED
    BY <2>2, <2>3 DEF IInv
<1>2. CASE LoadFormatIn(format) \notin Loadable \cup {0}
  <2>1. /\ reply' = Answer("refused", t, format) /\ UNCHANGED <<backendVars, given, asked>>
    BY <1>2 DEF Load
  <2> QED
    BY <2>1, AnswerStep
<1> QED
  BY <1>1, <1>2

\* An unload is submitted, under the name of no load.
LEMMA UnloadStep ==
  ASSUME IInv, NEW j \in Jobs, NEW source, Unload(j, source)
  PROVE  IInv'
<1>1. Submit(j, "unload", None, WriteAppend) /\ UNCHANGED asked
  BY DEF Unload
<1>2. WriteAppend \in WriteAppend .. WriteEmpty
  BY DEF WriteAppend, WriteEmpty
<1>3. /\ Kept' /\ Held' /\ Jobbed' /\ Advertised' /\ ~Is(jobs[j])
      /\ \A k \in Jobs \ {j} : jobs'[k] = jobs[k]
  BY <1>1, <1>2, SubmitStep
<1>4. Submitted'
  BY <1>1, <1>3 DEF IInv, Submitted, Is
<1> QED
  BY <1>3, <1>4 DEF IInv

\* A job that is there becomes another record of the same load or unload.
LEMMA JobStep ==
  ASSUME IInv, NEW j \in Jobs, Is(jobs[j]), NEW record \in JobRecords,
         jobs' = [jobs EXCEPT ![j] = record],
         (record.ended = ZeroTime) <=> (record.state \in {JobPending, JobRunning}),
         record.op = jobs[j].op, record.dest = jobs[j].dest,
         record.disposition = jobs[j].disposition,
         UNCHANGED asked
  PROVE  Jobbed' /\ Submitted'
<1>1. Jobbed' /\ Is(jobs'[j])
  BY JobChanges DEF IInv
<1>2. jobs'[j] = record /\ \A k \in Jobs \ {j} : jobs'[k] = jobs[k]
  BY DEF IInv, Jobbed
<1>3. Submitted'
  BY <1>1, <1>2 DEF IInv, Submitted, Is
<1> QED
  BY <1>1, <1>3

\* A job ends.
LEMMA BecomeStep ==
  ASSUME IInv, NEW j \in Jobs, Is(jobs[j]), NEW state \in {JobDone, JobFailed, JobCancelled},
         Become(j, state), UNCHANGED asked
  PROVE  Jobbed' /\ Submitted'
<1> DEFINE record == [jobs[j] EXCEPT !.state = state, !.ended = 1]
<1>1. jobs[j] \in JobRecords
  BY DEF IInv, Jobbed, Is
<1>2. jobs' = [jobs EXCEPT ![j] = record]
  BY DEF Become
<1>3. state \in JobStates /\ state \notin {JobPending, JobRunning}
  BY DEF JobStates, JobPending, JobRunning, JobDone, JobFailed, JobCancelled
<1>4. /\ record \in JobRecords /\ record.state = state /\ record.ended = 1
      /\ record.op = jobs[j].op /\ record.dest = jobs[j].dest
      /\ record.disposition = jobs[j].disposition
  BY <1>1, <1>3 DEF JobRecords
<1>5. (record.ended = ZeroTime) <=> (record.state \in {JobPending, JobRunning})
  BY <1>3, <1>4 DEF ZeroTime
<1> HIDE DEF record
<1> QED
  BY <1>2, <1>4, <1>5, JobStep

\* A job is cancelled.
LEMMA CancelJobStep ==
  ASSUME IInv, NEW j \in Jobs, CancelJob(j)
  PROVE  IInv'
<1>1. Is(jobs[j]) /\ Become(j, JobCancelled) /\ UNCHANGED <<tables, rows, reply, given, asked>>
  BY DEF CancelJob
<1>2. Jobbed' /\ Submitted'
  BY <1>1, BecomeStep
<1>3. Kept' /\ Held' /\ Advertised'
  BY <1>1 DEF IInv, Kept, Held, Advertised, Replied, Is
<1> QED
  BY <1>2, <1>3 DEF IInv

\* The backend starts a job.
LEMMA StartStep ==
  ASSUME IInv, NEW j \in Jobs, Start(j)
  PROVE  IInv'
<1> DEFINE record == [jobs[j] EXCEPT !.state = JobRunning, !.started = 1]
<1>1. /\ Is(jobs[j]) /\ jobs[j].state = JobPending
      /\ jobs' = [jobs EXCEPT ![j] = record] /\ UNCHANGED <<tables, rows, reply, given, asked>>
  BY DEF Start
<1>2. jobs[j] \in JobRecords /\ jobs[j].ended = ZeroTime
  BY <1>1 DEF IInv, Jobbed, Is
<1>3. /\ record \in JobRecords /\ record.state = JobRunning /\ record.ended = ZeroTime
      /\ record.op = jobs[j].op /\ record.dest = jobs[j].dest
      /\ record.disposition = jobs[j].disposition
  <2>1. JobRunning \in JobStates
    BY DEF JobStates, JobPending, JobRunning, JobCancelled
  <2> QED
    BY <1>2, <2>1 DEF JobRecords
<1> HIDE DEF record
<1>4. Jobbed' /\ Submitted'
  BY <1>1, <1>3, JobStep
<1>5. Kept' /\ Held' /\ Advertised'
  BY <1>1 DEF IInv, Kept, Held, Advertised, Replied, Is
<1> QED
  BY <1>4, <1>5 DEF IInv

\* The backend finishes a job: a load that is done has changed a table that is
\* there.
LEMMA FinishStep ==
  ASSUME IInv, NEW j \in Jobs, Finish(j)
  PROVE  IInv'
<1>1. Is(jobs[j]) /\ UNCHANGED <<tables, reply, given, asked>>
  BY DEF Finish
<1>2. \E state \in {JobDone, JobFailed, JobCancelled} : Become(j, state)
  BY DEF Finish
<1>3. Jobbed' /\ Submitted'
  BY <1>1, <1>2, BecomeStep
<1>4. Held'
  <2>1. CASE UNCHANGED rows
    BY <1>1, <2>1 DEF IInv, Held, Is
  <2>2. ASSUME NEW t, t = jobs[j].dest, jobs[j].op = "load", Is(tables[t]),
               NEW S \in SUBSET Jobs, rows' = [rows EXCEPT ![t] = S]
        PROVE  Held'
    BY <1>1, <2>2 DEF IInv, Held, Is
  <2>3. CASE ~UNCHANGED rows
    <3> DEFINE t == jobs[j].dest
               d == jobs[j].disposition
    <3>1. /\ jobs[j].op = "load" /\ Is(tables[t])
          /\ rows' = [rows EXCEPT ![t] = IF d = WriteTruncate THEN {j} ELSE @ \cup {j}]
      BY <2>3 DEF Finish
    <3>2. CASE t \in Tables
      <4> DEFINE S == IF d = WriteTruncate THEN {j} ELSE rows[t] \cup {j}
      <4>1. S \in SUBSET Jobs /\ rows' = [rows EXCEPT ![t] = S]
        BY <3>1, <3>2 DEF IInv, Held
      <4> QED
        BY <2>2, <3>1, <4>1
    <3>3. CASE t \notin Tables
      <4>1. rows' = rows
        BY <3>1, <3>3 DEF IInv, Held
      <4> QED
        BY <2>3, <4>1
    <3> QED
      BY <3>2, <3>3
  <2> QED
    BY <2>1, <2>3
<1>5. Kept' /\ Advertised'
  BY <1>1 DEF IInv, Kept, Advertised, Replied, Is
<1> QED
  BY <1>3, <1>4, <1>5 DEF IInv

\* Every step.
LEMMA NextInv ==
  ASSUME IInv, [Next]_vars
  PROVE  IInv'
<1>1. CASE UNCHANGED vars
  BY <1>1 DEF vars, backendVars, IInv, Kept, Held, Jobbed, Submitted, Advertised, Replied, Is
<1>2. ASSUME NEW t \in Tables, GetTable(t)
      PROVE  IInv'
  BY <1>2, AnswerStep DEF GetTable, Describe
<1>3. ASSUME NEW j \in Jobs, GetJob(j)
      PROVE  IInv'
  BY <1>3, AnswerStep DEF GetJob, Show
<1>4. CASE Catalog
  BY <1>2, <1>4, CreateTableStep, DropTableStep DEF Catalog
<1>5. CASE Movement
  BY <1>5, LoadStep, UnloadStep DEF Movement
<1> QED
  BY <1>1, <1>3, <1>4, <1>5, GetCapabilitiesStep, CancelJobStep, StartStep, FinishStep DEF Next

-----------------------------------------------------------------------------
(* The theorems.                                                           *)

\* In every reachable state the two sides of the translation agree.
THEOREM Invariance == Spec => []IInv
<1>1. Init => IInv
  <2> SUFFICES ASSUME Init PROVE IInv
    OBVIOUS
  <2>1. Kept /\ Held /\ Jobbed /\ Submitted
    BY DEF Init, Kept, Held, Jobbed, Submitted, Is
  <2>2. Advertised
    BY DEF Init, Advertised, Replied, Is
  <2> QED
    BY <2>1, <2>2 DEF IInv
<1> QED
  BY <1>1, NextInv, PTL DEF Spec

\* Tables hold columns the backend has types for, and only tables that are there
\* hold rows; a job that ended says when.
THEOREM TypeCorrectness == Spec => []TypeOK
<1>1. IInv => TypeOK
  <2> SUFFICES ASSUME IInv, NEW t \in Tables, Is(tables[t]),
                      NEW path \in DOMAIN tables[t].columns
               PROVE  tables[t].columns[path].type \in ColumnTypes
    BY DEF IInv, Held, Jobbed, TypeOK
  <2>1. tables[t] = Schema(t, ColumnsIn(given[t]))
    BY DEF IInv, Kept
  <2>2. Schema(t, ColumnsIn(given[t])).columns = ColumnsIn(given[t])
    BY DEF Schema
  <2>3. tables[t].columns = ColumnsIn(given[t])
    BY <2>1, <2>2, Zenon
  <2> QED
    BY <2>3, TypesIn DEF ColumnsIn, ColumnIn
<1> QED
  BY <1>1, Invariance, PTL

\* A table is described as it was asked for, at every depth, through any number
\* of copies.
THEOREM SchemasComeBack == Spec => []SchemasAreKept
<1>1. IInv => SchemasAreKept
  <2> SUFFICES ASSUME IInv, NEW t \in Tables, Is(tables[t])
               PROVE  ColumnsOut(tables[t].columns) = Normal(given[t])
    BY DEF SchemasAreKept
  <2>1. tables[t] = Schema(t, ColumnsIn(given[t]))
    BY DEF IInv, Kept
  <2>2. Schema(t, ColumnsIn(given[t])).columns = ColumnsIn(given[t])
    BY DEF Schema
  <2>3. tables[t].columns = ColumnsIn(given[t])
    BY <2>1, <2>2, Zenon
  <2> QED
    BY <2>3, ColumnsTwice, Zenon
<1> QED
  BY <1>1, Invariance, PTL

\* What is advertised loads: a format that was advertised is not refused.
THEOREM AdvertisedIsLoadable == Spec => AdvertisedFormatsLoad
<1> DEFINE Step == Replied("formats") /\ Replied("refused")' => reply'.body \notin reply.body
<1>1. ASSUME IInv, [Next]_vars
      PROVE  [Step]_vars
  <2> SUFFICES ASSUME Next, Replied("formats"), Replied("refused")', reply'.body \in reply.body
               PROVE  FALSE
    BY <1>1
  <2>1. reply' # reply
    BY DEF Replied
  <2>2. ASSUME NEW call, NEW of, NEW body, reply' = Answer(call, of, body)
        PROVE  call = "refused" /\ reply'.body = body
    <3>1. Answer(call, of, body).call = call /\ Answer(call, of, body).body = body
      BY Answers
    <3>2. reply'.call = call /\ reply'.body = body
      BY <2>2, <3>1, Zenon
    <3> QED
      BY <3>2 DEF Replied
  <2>3. PICK j \in Jobs, t \in Tables, format \in WireFormats, disposition \in WireDispositions :
          Load(j, t, format, disposition)
    <3>1. ASSUME NEW t \in Tables
          PROVE  ~GetTable(t) /\ ~DropTable(t) /\ \A columns : ~CreateTable(t, columns)
      BY <2>1, <2>2 DEF GetTable, DropTable, CreateTable, Describe
    <3>2. ASSUME NEW j \in Jobs
          PROVE  /\ ~GetJob(j) /\ ~CancelJob(j) /\ ~Start(j) /\ ~Finish(j)
                 /\ \A source : ~Unload(j, source)
      BY <2>1, <2>2 DEF GetJob, CancelJob, Start, Finish, Unload, Submit, Show
    <3>3. ~GetCapabilities
      BY <2>2 DEF GetCapabilities
    <3> QED
      BY <3>1, <3>2, <3>3 DEF Next, Catalog, Movement
  <2>4. LoadFormatIn(format) \notin Loadable \cup {0} /\ reply'.body = format
    BY <2>2, <2>3 DEF Load, Submit, Show
  <2>5. format \in CapabilitiesOut(Capabilities).formats
    BY <1>1, <2>4 DEF IInv, Advertised
  <2>6. CapabilitiesOut(Capabilities).formats = {Lookup(LoadFormatToProto, f) : f \in Loadable}
    BY DEF CapabilitiesOut, Capabilities
  <2>7. PICK f \in Loadable : format = Lookup(LoadFormatToProto, f)
    BY <2>5, <2>6
  <2>8. LoadFormatIn(format) = f
    BY <2>7, FormatsTwice, LoadableAssumption
  <2> QED
    BY <2>4, <2>8
<1> QED
  BY <1>1, Invariance, PTL DEF Spec, AdvertisedFormatsLoad

\* What a disposition on the wire is to the backend.
LEMMA Dispositions ==
  /\ Lookup(ProtoToWriteDisp, WireEmpty) = WriteEmpty
  /\ Lookup(ProtoToWriteDisp, WireTruncate) = WriteTruncate
  /\ \A p : p # WireTruncate => Lookup(ProtoToWriteDisp, p) # WriteTruncate
BY DEF Lookup, ProtoToWriteDisp, WriteAppend, WriteEmpty, WriteTruncate, WireTruncate, WireEmpty

\* A load that is done has left its table as the client's disposition says.
THEOREM DispositionsAreHonoured == Spec => DispositionIsHonoured
<1> DEFINE Step ==
      \A j \in Jobs : Is(asked[j]) /\ jobs'[j].state = JobDone /\ ~Ended(j) =>
        LET t == jobs[j].dest IN
          /\ asked[j] = WireEmpty => rows[t] = {}
          /\ asked[j] = WireTruncate => rows'[t] = {j}
          /\ asked[j] # WireTruncate => rows[t] \subseteq rows'[t]
<1>1. ASSUME IInv, [Next]_vars
      PROVE  [Step]_vars
  <2> SUFFICES ASSUME Next, NEW j \in Jobs, Is(asked[j]), jobs'[j].state = JobDone, ~Ended(j)
               PROVE  /\ asked[j] = WireEmpty => rows[jobs[j].dest] = {}
                      /\ asked[j] = WireTruncate => rows'[jobs[j].dest] = {j}
                      /\ asked[j] # WireTruncate => rows[jobs[j].dest] \subseteq rows'[jobs[j].dest]
    BY <1>1
  <2>1. /\ Is(jobs[j]) /\ jobs[j].op = "load" /\ jobs[j].dest \in Tables
        /\ jobs[j].disposition = Lookup(ProtoToWriteDisp, asked[j])
        /\ DOMAIN jobs = Jobs /\ rows \in [Tables -> SUBSET Jobs]
    BY <1>1 DEF IInv, Submitted, Jobbed, Held
  <2>2. jobs'[j] # jobs[j] /\ jobs[j].state # JobDone
    BY DEF Ended
  <2>3. Finish(j)
    <3>1. ASSUME NEW k \in Jobs, Is(jobs[k]), NEW state, Become(k, state)
          PROVE  k = j /\ state = JobDone
      <4>1. k = j
        BY <2>1, <2>2, <3>1 DEF Become
      <4>2. jobs[j] \in JobRecords
        BY <1>1, <2>1 DEF IInv, Jobbed, Is
      <4>3. jobs'[j] = [jobs[j] EXCEPT !.state = state, !.ended = 1]
        BY <2>1, <3>1, <4>1 DEF Become
      <4>4. jobs'[j].state = state
        BY <4>2, <4>3 DEF JobRecords
      <4> QED
        BY <4>1, <4>4
    <3>2. ASSUME NEW t \in Tables
          PROVE  ~GetTable(t) /\ ~DropTable(t) /\ \A columns : ~CreateTable(t, columns)
      BY <2>2 DEF GetTable, DropTable, CreateTable, backendVars
    <3>3. ASSUME NEW k \in Jobs, NEW op, NEW t, NEW d
          PROVE  ~Submit(k, op, t, d)
      BY <2>1, <2>2 DEF Submit
    <3>4. ASSUME NEW k \in Jobs
          PROVE  ~GetJob(k) /\ ~CancelJob(k) /\ ~Start(k) /\ (Finish(k) => k = j)
      <4>1. ~GetJob(k)
        BY <2>2 DEF GetJob, backendVars
      <4>2. ~CancelJob(k)
        BY <3>1 DEF CancelJob, JobCancelled, JobDone
      <4>3. ~Start(k)
        <5> SUFFICES ASSUME Start(k) PROVE FALSE
          OBVIOUS
        <5>1. k = j
          BY <2>1, <2>2 DEF Start
        <5>2. jobs[j] \in JobRecords
          BY <1>1, <2>1 DEF IInv, Jobbed, Is
        <5>3. jobs'[j] = [jobs[j] EXCEPT !.state = JobRunning, !.started = 1]
          BY <2>1, <5>1 DEF Start
        <5>4. jobs'[j].state = JobRunning
          BY <5>2, <5>3 DEF JobRecords
        <5> QED
          BY <5>4 DEF JobRunning, JobDone
      <4>4. Finish(k) => k = j
        BY <3>1 DEF Finish
      <4> QED
        BY <4>1, <4>2, <4>3, <4>4
    <3>5. ~Movement
      BY <2>2, <3>3 DEF Movement, Load, Unload, backendVars
    <3>6. ~GetCapabilities
      BY <2>2 DEF GetCapabilities, backendVars
    <3> QED
      BY <3>2, <3>4, <3>5, <3>6 DEF Next, Catalog
  <2>4. CASE UNCHANGED rows /\ Become(j, JobFailed)
    <3>1. jobs[j] \in JobRecords
      BY <1>1, <2>1 DEF IInv, Jobbed, Is
    <3>2. jobs'[j] = [jobs[j] EXCEPT !.state = JobFailed, !.ended = 1]
      BY <2>1, <2>4 DEF Become
    <3>3. jobs'[j].state = JobFailed
      BY <3>1, <3>2 DEF JobRecords
    <3> QED
      BY <3>3 DEF JobFailed, JobDone
  <2> DEFINE t == jobs[j].dest
             d == jobs[j].disposition
  <2>5. CASE /\ d = WriteEmpty => rows[t] = {}
             /\ rows' = [rows EXCEPT ![t] = IF d = WriteTruncate THEN {j} ELSE @ \cup {j}]
    <3>1. rows'[t] = IF d = WriteTruncate THEN {j} ELSE rows[t] \cup {j}
      BY <2>1, <2>5
    <3>2. /\ asked[j] = WireEmpty => d = WriteEmpty
          /\ asked[j] = WireTruncate => d = WriteTruncate
          /\ asked[j] # WireTruncate => d # WriteTruncate
      BY <2>1, Dispositions
    <3> QED
      BY <2>5, <3>1, <3>2
  <2> QED
    BY <2>1, <2>3, <2>4, <2>5 DEF Finish
<1> QED
  BY <1>1, Invariance, PTL DEF Spec, DispositionIsHonoured
=============================================================================
