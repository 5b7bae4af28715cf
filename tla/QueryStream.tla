---------------------------- MODULE QueryStream ----------------------------
(***************************************************************************)
(* Server.Query (internal/server/server.go): the handler runs the query,   *)
(* sends a header, then every batch its reader gives, and the client reads *)
(* them off the stream, or gives up.                                       *)
(*                                                                         *)
(* The stream (gRPC, external) is FIFO, holds Window messages, and gives   *)
(* the handler's status to the client after what was sent. The backend     *)
(* (external: no backend of the repository runs queries yet) has some      *)
(* number of batches and may fail at any call. Batch i is the number i.    *)
(***************************************************************************)
EXTENDS Naturals, Sequences

CONSTANTS MaxBatches,   \* bound: batches of one result
          Window        \* messages a Send may be ahead of the client

VARIABLES pc,         \* "query", "header", "next", "send", "done"
          total,      \* batches of the result
          reader,     \* res.Batches: "none", "open", "closed"
          next,       \* the last batch Next gave
          status,     \* what the handler returned
          wire,       \* sent and not received
          received,   \* what the client has
          cancelled,  \* the client cancelled, or went away
          outcome     \* the status the client sees

handlerVars == <<pc, total, reader, next, status>>
clientVars  == <<received, cancelled, outcome>>
vars == <<handlerVars, wire, clientVars>>

\* A QueryResponse holds the header or a batch.
Header   == 0
Messages == 0 .. MaxBatches
Statuses == {"none", "OK", "failed", "cancelled", "unavailable"}

TypeOK ==
  /\ pc \in {"query", "header", "next", "send", "done"}
  /\ total \in 0 .. MaxBatches /\ next \in 0 .. total
  /\ reader \in {"none", "open", "closed"}
  /\ status \in Statuses /\ outcome \in Statuses
  /\ wire \in Seq(Messages) /\ Len(wire) <= Window
  /\ received \in Seq(Messages)
  /\ cancelled \in BOOLEAN

Init ==
  /\ pc = "query" /\ total = 0 /\ reader = "none" /\ next = 0 /\ status = "none"
  /\ wire = <<>> /\ received = <<>> /\ cancelled = FALSE /\ outcome = "none"

-----------------------------------------------------------------------------
\* The handler's return, with res.Batches.Close deferred.
ReturnOpen(s) ==   \* mutation: Close only where the loop ends well
  /\ pc' = "done" /\ status' = s
  /\ reader' = IF s = "OK" /\ reader = "open" THEN "closed" ELSE reader

Return(s) ==
  /\ pc' = "done" /\ status' = s
  /\ reader' = IF reader = "open" THEN "closed" ELSE reader

QueryFails ==
  /\ pc = "query" /\ Return("failed")
  /\ UNCHANGED <<total, next, wire, clientVars>>

\* A result has a reader unless it was a dry run or a statement without rows.
Query ==
  /\ pc = "query" /\ pc' = "header"
  /\ \/ reader' = "open" /\ total' \in 0 .. MaxBatches
     \/ UNCHANGED <<reader, total>>
  /\ UNCHANGED <<next, status, wire, clientVars>>

\* stream.Send(m): waits for room; an error once the stream is gone.
Send(m) == ~cancelled /\ Len(wire) < Window /\ wire' = Append(wire, m)
SendFails == cancelled /\ UNCHANGED wire /\ Return("cancelled")

SendHeader ==
  /\ pc = "header"
  /\ \/ Send(Header) /\ reader = "none" /\ Return("OK")
     \/ Send(Header) /\ reader = "open" /\ pc' = "next" /\ UNCHANGED <<reader, status>>
     \/ SendFails
  /\ UNCHANGED <<total, next, clientVars>>

NextErrorIsTheEnd ==   \* mutation: any error of Next ends the result
  /\ pc = "next"
  /\ \/ /\ next < total /\ next' = next + 1
        /\ pc' = "send" /\ UNCHANGED <<reader, status>>
     \/ Return("OK") /\ UNCHANGED next
  /\ UNCHANGED <<total, wire, clientVars>>

NextIgnoresTheEnd ==   \* mutation: io.EOF is not told from a batch
  /\ pc = "next"
  /\ \/ next' = next + 1 /\ pc' = "send" /\ UNCHANGED <<reader, status>>
     \/ Return("failed") /\ UNCHANGED next
  /\ UNCHANGED <<total, wire, clientVars>>

\* res.Batches.Next: a batch, io.EOF, or an error.
NextBatch ==
  /\ pc = "next"
  /\ \/ /\ next < total /\ next' = next + 1
        /\ pc' = "send" /\ UNCHANGED <<reader, status>>
     \/ next = total /\ Return("OK") /\ UNCHANGED next
     \/ Return("failed") /\ UNCHANGED next
  /\ UNCHANGED <<total, wire, clientVars>>

SendBatchForever ==   \* mutation: the error of Send is not looked at
  /\ pc = "send"
  /\ \/ Send(next) /\ pc' = "next"
     \/ cancelled /\ UNCHANGED <<wire, pc>>
  /\ UNCHANGED <<total, next, reader, status, clientVars>>

SendBatch ==
  /\ pc = "send"
  /\ \/ Send(next) /\ pc' = "next" /\ UNCHANGED <<reader, status>>
     \/ SendFails
  /\ UNCHANGED <<total, next, clientVars>>

-----------------------------------------------------------------------------
(* The client *)

Waiting == outcome = "none"

Receive ==
  /\ Waiting /\ wire # <<>>
  /\ received' = Append(received, Head(wire)) /\ wire' = Tail(wire)
  /\ UNCHANGED <<handlerVars, cancelled, outcome>>

ReceiveStatus ==
  /\ Waiting /\ wire = <<>> /\ pc = "done"
  /\ outcome' = status
  /\ UNCHANGED <<handlerVars, wire, received, cancelled>>

Cancel ==
  /\ Waiting /\ cancelled' = TRUE /\ outcome' = "cancelled"
  /\ wire' = <<>>
  /\ UNCHANGED <<handlerVars, received>>

\* The server's end of the connection goes away before the client has seen a
\* status: the handler's context is cancelled and what it sends is refused.
\* (What was on its way is dropped: a client that sees an error uses nothing.)
Lose ==
  /\ Waiting /\ cancelled' = TRUE /\ outcome' = "unavailable"
  /\ wire' = <<>>
  /\ UNCHANGED <<handlerVars, received>>

Handler == QueryFails \/ Query \/ SendHeader \/ NextBatch \/ SendBatch
=============================================================================
