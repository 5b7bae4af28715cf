---------------------------- MODULE Translation ----------------------------
(***************************************************************************)
(* The seam between the wire types and the backend's (internal/server/     *)
(* convert.go; the types are those of internal/backend/backend.go and of   *)
(* the proto). Enumerations are their numbers on both sides: the backend's *)
(* are counted from 0 in the order of their declaration, the wire's are    *)
(* open, so any number may arrive. What is copied as it is (names, texts,  *)
(* counters, labels, options) is one value, "rest".                        *)
(***************************************************************************)
EXTENDS Integers, Sequences, Functions

\* m[k] of a Go map: the zero value if k is not in it.
Lookup(m, k) == IF k \in DOMAIN m THEN m[k] ELSE 0

-----------------------------------------------------------------------------
(* Columns *)

TypeUnknown == 0
ArrayType   == 13
StructType  == 14
ColumnTypes == TypeUnknown .. 15   \* backend.ColumnType
WireUnknown == 16                  \* COLUMN_TYPE_UNKNOWN; 0 is UNSPECIFIED

ColTypeToProto == [t \in ColumnTypes |-> IF t = TypeUnknown THEN WireUnknown ELSE t]
ProtoToColType == AntiFunction(ColTypeToProto)

ColTypeOut(t) == IF t \in DOMAIN ColTypeToProto THEN ColTypeToProto[t] ELSE WireUnknown
ColTypeCast(p) == p   \* mutation: a conversion of the number
ColTypeIn(p)  == IF p \in DOMAIN ProtoToColType THEN ProtoToColType[p] ELSE TypeUnknown

\* Columns are a forest: the columns of a table, the element of an array and the
\* fields of a struct are nodes, each at its path (<<2, 1>> is the first field of
\* the second column). The conversions recur into the fields, and so reach every
\* node and leave it where it is.
ColumnOut(c)   == [type |-> ColTypeOut(c.type), rest |-> c.rest]
ColumnsOut(cs) == [path \in DOMAIN cs |-> ColumnOut(cs[path])]

ColumnIn(pc) == [type |-> ColTypeIn(pc.type), rest |-> pc.rest]
TopColumnsIn(pcs) ==   \* mutation: no recursion
  [path \in {p \in DOMAIN pcs : Len(p) = 1} |-> ColumnIn(pcs[path])]
ColumnsIn(pcs) == [path \in DOMAIN pcs |-> ColumnIn(pcs[path])]

-----------------------------------------------------------------------------
(* Tables, datasets and listings *)

KindTable == 1   \* KindUnspecified, KindTable, KindView, KindMaterializedView, KindExternal
TableKindToProto == [k \in 0 .. 4 |-> k]

\* A Go time is the instant it stands for, or the zero time, long before 1970.
ZeroTime == -1
UnixMS(t) == IF t = ZeroTime THEN 0 ELSE t

TableInfoOut(i) ==
  [ref |-> i.ref, kind |-> Lookup(TableKindToProto, i.kind),
   created |-> UnixMS(i.created), modified |-> UnixMS(i.modified)]
TableSchemaOut(s) == [info |-> TableInfoOut(s.info), columns |-> ColumnsOut(s.columns)]

-----------------------------------------------------------------------------
(* Jobs *)

JobPending   == 0
JobRunning   == 1
JobDone      == 2
JobFailed    == 3
JobCancelled == 4
JobStates  == JobPending .. JobCancelled
WireEnded  == {3, 4, 5}   \* DONE, FAILED, CANCELLED; 0 is UNSPECIFIED

JobStatesOfMostJobs == [s \in JobStates \ {JobCancelled} |-> s + 1]   \* mutation: a line is missing
JobStateToProto == [s \in JobStates |-> s + 1]

JobOut(j) ==
  [state |-> Lookup(JobStateToProto, j.state), created |-> UnixMS(j.created),
   started |-> UnixMS(j.started), ended |-> UnixMS(j.ended)]

-----------------------------------------------------------------------------
(* Load and unload *)

LoadFormats == 0 .. 5   \* Unspecified, CSV, JSON, Parquet, Avro, ORC: the same on the wire

SwappedFormats == [f \in LoadFormats |-> IF f \in {3, 4} THEN 7 - f ELSE f]   \* mutation: capabilities only
ProtoToLoadFormat == [f \in LoadFormats |-> f]
LoadFormatToProto == AntiFunction(ProtoToLoadFormat)
LoadFormatIn(p) == Lookup(ProtoToLoadFormat, p)

WriteAppend   == 0
WriteTruncate == 1
WriteEmpty    == 2
WireTruncate  == 2   \* 0 is UNSPECIFIED, 1 APPEND
WireEmpty     == 3

DispositionsWithoutEmpty == [p \in {0, 1, 2} |-> IF p = WireTruncate THEN WriteTruncate ELSE WriteAppend]   \* mutation
ProtoToWriteDisp ==
  [p \in 0 .. 3 |-> CASE p = WireTruncate -> WriteTruncate
                      [] p = WireEmpty    -> WriteEmpty
                      [] OTHER            -> WriteAppend]

\* capabilitiesOut: the flags and verbs are copied.
CapabilitiesOut(c) == [c EXCEPT !.formats = {Lookup(LoadFormatToProto, f) : f \in c.formats}]
=============================================================================
