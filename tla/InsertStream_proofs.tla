------------------------- MODULE InsertStream_proofs -------------------------
(***************************************************************************)
(* Server.InsertRows acknowledges all rows or none, for streams of any     *)
(* length.                                                                 *)
(*                                                                         *)
(* The argument: while the backend pulls, what was received is the header  *)
(* and then batches only, and the backend has taken each (Rows); the end   *)
(* of the stream is reached only with everything received, and a client    *)
(* that has closed sends no more.                                          *)
(***************************************************************************)
EXTENDS InsertStream, TLAPS

\* The first n messages were received, and are a header and batches.
Rows(n) ==
  /\ n \in 1 .. read
  /\ sent[1] = "header" /\ \A i \in 2 .. n : sent[i] = "batch"

\* Everything was sent, received and taken.
Complete == closed /\ read = Len(sent) /\ taken = read - 1 /\ Rows(read)

IInv ==
  /\ TypeOK
  /\ pc # "done" => status = "none"
  /\ pc = "recv" => taken = 0 /\ read = 0
  /\ pc = "backend" => taken = read - 1 /\ Rows(read)
  /\ pc = "eof" \/ status = "OK" => Complete
  /\ taken > 0 => Rows(taken + 1)

-----------------------------------------------------------------------------
(* What an error and a message are to the handler and to the client.       *)

\* No error is answered as OK, or as no answer.
LEMMA ErrorsAreErrors ==
  ASSUME NEW err
  PROVE  ToStatus(err) \in Statuses \ {"none", "OK"}
BY DEF ToStatus, CodeOf, SerrCodes, Statuses

\* What one more message leaves of those received.
LEMMA SentStays ==
  ASSUME TypeOK, NEW kind \in Kinds, sent' = Append(sent, kind)
  PROVE  /\ sent' \in Seq(Kinds) /\ Len(sent') = Len(sent) + 1
         /\ \A i \in 1 .. Len(sent) : sent'[i] = sent[i]
BY DEF TypeOK

-----------------------------------------------------------------------------
(* Every step preserves the invariant.                                     *)

\* The header, or what comes in its place.
LEMMA RecvHeaderStep ==
  ASSUME IInv, RecvHeader
  PROVE  IInv'
<1> USE DEF IInv, TypeOK, RecvHeader, clientVars, Rows, Complete
<1>1. CASE Received({"header"}) /\ pc' = "backend" /\ UNCHANGED status
  BY <1>1 DEF Received
<1>2. CASE Received({"batch", "neither"}) /\ Answer("InvalidArgument")
  BY <1>2 DEF Received, Answer, Statuses
<1>3. CASE AtEnd /\ Answer("Unknown")
  BY <1>3 DEF AtEnd, Answer, Statuses
<1>4. CASE RecvFails /\ Answer("Canceled")
  BY <1>4 DEF RecvFails, Answer, Statuses
<1> QED
  BY <1>1, <1>2, <1>3, <1>4

\* The batch reader's Next.
LEMMA NextBatchStep ==
  ASSUME IInv, NextBatch
  PROVE  IInv'
<1> USE DEF IInv, TypeOK, NextBatch, clientVars, Rows, Complete
<1>1. CASE Received({"batch"}) /\ taken' = taken + 1 /\ UNCHANGED <<pc, misplaced>>
  BY <1>1 DEF Received
<1>2. CASE Received({"header", "neither"}) /\ misplaced' = TRUE
           /\ pc' = "readerFailed" /\ UNCHANGED taken
  BY <1>2 DEF Received
<1>3. CASE AtEnd /\ pc' = "eof" /\ UNCHANGED <<taken, misplaced>>
  BY <1>3 DEF AtEnd
<1>4. CASE RecvFails /\ pc' = "readerFailed" /\ UNCHANGED <<taken, misplaced>>
  BY <1>4 DEF RecvFails
<1> QED
  BY <1>1, <1>2, <1>3, <1>4

\* The backend's return: only from the end of the stream is it a success.
LEMMA BackendReturnsStep ==
  ASSUME IInv, BackendReturns
  PROVE  IInv'
<1> USE DEF IInv, TypeOK, BackendReturns, clientVars, Rows, Complete, Answer
<1>1. CASE pc = "eof" /\ Answer("OK")
  BY <1>1 DEF Statuses
<1>2. CASE \E err : Answer(ToStatus(err))
  BY <1>2, ErrorsAreErrors
<1> QED
  BY <1>1, <1>2

\* The client sends, closes or cancels.
LEMMA ClientStep ==
  ASSUME IInv, Client
  PROVE  IInv'
<1> USE DEF handlerVars, ClientOpen
<1>1. ASSUME NEW kind \in Kinds, SendMessage(kind)
      PROVE  IInv'
  <2>1. /\ sent' \in Seq(Kinds) /\ Len(sent') = Len(sent) + 1
        /\ \A i \in 1 .. Len(sent) : sent'[i] = sent[i]
    BY <1>1, SentStays DEF IInv, SendMessage
  <2>2. /\ UNCHANGED <<handlerVars, closed, cancelled>> /\ Len(sent) < MaxMessages
        /\ pc # "eof" /\ status # "OK"
    BY <1>1 DEF IInv, SendMessage, Complete
  <2>3. TypeOK'
    BY <2>1, <2>2, MessagesAssumption DEF IInv, TypeOK
  <2>4. ASSUME NEW n \in Nat, Rows(n)
        PROVE  Rows(n)'
    BY <2>1, <2>2, <2>4 DEF Rows, IInv, TypeOK
  <2> QED
    BY <2>2, <2>3, <2>4 DEF IInv, TypeOK
<1>2. CASE CloseSend \/ Cancel
  BY <1>2 DEF CloseSend, Cancel, IInv, TypeOK, Rows, Complete
<1> QED
  BY <1>1, <1>2 DEF Client

\* Every step.
LEMMA NextInv ==
  ASSUME IInv, [Next]_vars
  PROVE  IInv'
<1>1. CASE UNCHANGED vars \/ Terminating
  BY <1>1 DEF Terminating, vars, handlerVars, clientVars, IInv, TypeOK, Rows, Complete
<1> QED
  BY <1>1, RecvHeaderStep, NextBatchStep, BackendReturnsStep, ClientStep DEF Next, Handler

-----------------------------------------------------------------------------
(* The theorems.                                                           *)

\* In every reachable state of a row stream, what was taken is what was sent.
THEOREM Invariance == Spec => []IInv
<1>1. Init => IInv
  <2> SUFFICES ASSUME Init PROVE IInv
    OBVIOUS
  <2>1. /\ sent = <<>> /\ sent \in Seq(Kinds) /\ Len(sent) = 0
    BY DEF Init
  <2>2. closed \in BOOLEAN /\ cancelled \in BOOLEAN /\ misplaced \in BOOLEAN
    BY Zenon DEF Init
  <2>3. TypeOK
    BY <2>1, <2>2, MessagesAssumption DEF Init, TypeOK, Statuses
  <2>4. pc = "recv" /\ status = "none" /\ taken = 0 /\ read = 0
    BY DEF Init
  <2> QED
    BY <2>3, <2>4 DEF IInv
<1> QED
  BY <1>1, NextInv, PTL DEF Spec

\* Every variable keeps its type, and no error is answered that serr and gRPC
\* have no name for (errors.go:11-35).
THEOREM TypeCorrectness == Spec => []TypeOK
<1>1. IInv => TypeOK
  BY DEF IInv
<1> QED
  BY <1>1, Invariance, PTL

\* A client that is told OK had every batch it sent taken, behind its header
\* (server.go:199-218, 239-252).
THEOREM RowsAreAcknowledgedWhole == Spec => []OkMeansEveryBatch
<1>1. IInv => OkMeansEveryBatch
  BY DEF IInv, TypeOK, Complete, Rows, OkMeansEveryBatch
<1> QED
  BY <1>1, Invariance, PTL

\* Whatever a stream is made of and however it ends, the backend takes the
\* batches behind its header in order, without a gap (server.go:204-207).
THEOREM RowsAreTakenInOrder == Spec => []RowsAreAPrefix
<1>1. IInv => RowsAreAPrefix
  BY DEF IInv, TypeOK, Rows, RowsAreAPrefix
<1> QED
  BY <1>1, Invariance, PTL
=============================================================================
