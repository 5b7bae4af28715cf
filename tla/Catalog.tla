------------------------------ MODULE Catalog ------------------------------
(***************************************************************************)
(* What the catalog plane of the warehouse promises its callers, whatever  *)
(* the interleaving of their calls: every call takes effect in one atomic  *)
(* step between its invocation and its answer, and the answer is the one   *)
(* that step gives. cat maps each dataset to what was said of it and to    *)
(* its tables.                                                             *)
(*                                                                         *)
(* The promises are the ones the code keeps: without IfNotExists a create  *)
(* never replaces what exists, with it the existing object is what the     *)
(* caller gets; a drop without Cascade never takes a table with it; a      *)
(* dataset is created empty.                                               *)
(***************************************************************************)
EXTENDS CatalogCalls

CONSTANT Clients

VARIABLES cat, call, answer

vars == <<cat, call, answer>>

Catalogs == Maps(Datasets, [meta : Metas, tables : Maps(Tables, Schemas)])

TypeOK ==
  /\ cat \in Catalogs
  /\ call \in [Clients -> Calls \cup {NoCall}]
  /\ answer \in [Clients -> Answers \cup {NoAnswer}]

Init ==
  /\ cat = EmptyMap
  /\ call = [c \in Clients |-> NoCall]
  /\ answer = [c \in Clients |-> NoAnswer]

Invoke(c) ==
  /\ call[c] = NoCall
  /\ \E k \in Calls : call' = [call EXCEPT ![c] = k]
  /\ UNCHANGED <<cat, answer>>

\* c has called op and the call has not taken effect.
Open(c, op) ==
  /\ call[c] # NoCall
  /\ call[c].op = op
  /\ answer[c] = NoAnswer

\* The call of c takes effect: it is answered and the catalog becomes next.
Effect(c, code, value, next) ==
  /\ answer' = [answer EXCEPT ![c] = Answer(code, value)]
  /\ cat' = next
  /\ UNCHANGED call

Refuse(c, code) == Effect(c, code, Nothing, cat)

HasDataset(k) == k.ds \in DOMAIN cat
HasTable(k)   == HasDataset(k) /\ k.tbl \in DOMAIN cat[k.ds].tables

\* The catalog with the tables of ds replaced.
WithTables(ds, tabs) == [cat EXCEPT ![ds].tables = tabs]

ListDatasets(c) ==
  /\ Open(c, "ListDatasets")
  /\ Effect(c, "OK", [d \in DOMAIN cat |-> cat[d].meta], cat)

ListTables(c) ==
  LET k == call[c]
  IN /\ Open(c, "ListTables")
     /\ \/ ~HasDataset(k) /\ Refuse(c, "NotFound")
        \/ /\ HasDataset(k)
           /\ Effect(c, "OK", [t \in DOMAIN cat[k.ds].tables |-> Nothing], cat)

GetTable(c) ==
  LET k == call[c]
  IN /\ Open(c, "GetTable")
     /\ \/ ~HasTable(k) /\ Refuse(c, "NotFound")
        \/ HasTable(k) /\ Effect(c, "OK", cat[k.ds].tables[k.tbl], cat)

CreateDataset(c) ==
  LET k == call[c]
  IN /\ Open(c, "CreateDataset")
     /\ \/ /\ ~HasDataset(k)
           /\ Effect(c, "OK", k.meta, Put(cat, k.ds, [meta |-> k.meta, tables |-> EmptyMap]))
        \/ HasDataset(k) /\ k.ifNotExists /\ Effect(c, "OK", cat[k.ds].meta, cat)
        \/ HasDataset(k) /\ ~k.ifNotExists /\ Refuse(c, "AlreadyExists")

DropDataset(c) ==
  LET k == call[c]
  IN /\ Open(c, "DropDataset")
     /\ \/ ~HasDataset(k) /\ k.ifExists /\ Effect(c, "OK", Nothing, cat)
        \/ ~HasDataset(k) /\ ~k.ifExists /\ Refuse(c, "NotFound")
        \/ /\ HasDataset(k)
           /\ cat[k.ds].tables # EmptyMap
           /\ ~k.cascade
           /\ Refuse(c, "PreconditionFailed")
        \/ /\ HasDataset(k)
           /\ cat[k.ds].tables = EmptyMap \/ k.cascade
           /\ Effect(c, "OK", Nothing, Delete(cat, k.ds))

CreateTable(c) ==
  LET k == call[c]
  IN /\ Open(c, "CreateTable")
     /\ \/ k.asSelect /\ Refuse(c, "Unsupported")
        \/ ~k.asSelect /\ ~HasDataset(k) /\ Refuse(c, "NotFound")
        \/ /\ ~k.asSelect /\ HasTable(k) /\ k.ifNotExists
           /\ Effect(c, "OK", cat[k.ds].tables[k.tbl], cat)
        \/ ~k.asSelect /\ HasTable(k) /\ ~k.ifNotExists /\ Refuse(c, "AlreadyExists")
        \/ /\ ~k.asSelect /\ HasDataset(k) /\ ~HasTable(k)
           /\ Effect(c, "OK", k.schema,
                     WithTables(k.ds, Put(cat[k.ds].tables, k.tbl, k.schema)))

DropTable(c) ==
  LET k == call[c]
  IN /\ Open(c, "DropTable")
     /\ \/ ~HasTable(k) /\ k.ifExists /\ Effect(c, "OK", Nothing, cat)
        \/ ~HasTable(k) /\ ~k.ifExists /\ Refuse(c, "NotFound")
        \/ /\ HasTable(k)
           /\ Effect(c, "OK", Nothing, WithTables(k.ds, Delete(cat[k.ds].tables, k.tbl)))

\* The planes this catalog has no engine for are refused, never half served.
Unserved(c) ==
  \/ \E op \in EngineOps : Open(c, op) /\ Refuse(c, "Unsupported")
  \/ \E op \in JobOps : Open(c, op) /\ Refuse(c, "NotFound")

TakeEffect(c) ==
  \/ ListDatasets(c) \/ ListTables(c) \/ GetTable(c)
  \/ CreateDataset(c) \/ DropDataset(c)
  \/ CreateTable(c) \/ DropTable(c)
  \/ Unserved(c)

Return(c) ==
  /\ answer[c] # NoAnswer
  /\ call' = [call EXCEPT ![c] = NoCall]
  /\ answer' = [answer EXCEPT ![c] = NoAnswer]
  /\ UNCHANGED cat

Next == \E c \in Clients : Invoke(c) \/ TakeEffect(c) \/ Return(c)

Spec == Init /\ [][Next]_vars

-----------------------------------------------------------------------------
(* What a step of the catalog may never do.                                *)

TableAt(C, d, t) == d \in DOMAIN C /\ t \in DOMAIN C[d].tables

\* A table disappears only in the step of a call that asked for exactly that:
\* a DropTable naming it, or a DropDataset of its dataset with Cascade.
GoneTablesWereAskedFor ==
  \A d \in Datasets, t \in Tables :
    TableAt(cat, d, t) /\ ~TableAt(cat', d, t) =>
      \E c \in Clients :
        /\ answer[c] = NoAnswer /\ answer'[c] = Answer("OK", Nothing)
        /\ call[c].ds = d
        /\ \/ call[c].op = "DropTable" /\ call[c].tbl = t
           \/ call[c].op = "DropDataset" /\ call[c].cascade

\* No step of the catalog takes a table it was not asked to take.
TablesGoOnlyWhenAsked == [][GoneTablesWereAskedFor]_vars
=============================================================================
