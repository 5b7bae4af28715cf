---------------------------- MODULE InsertStream ----------------------------
(***************************************************************************)
(* Server.InsertRows and streamBatchReader (internal/server/server.go):    *)
(* the client sends a header, then Arrow batches, then closes its side;    *)
(* the handler reads the header and lets the backend pull the batches      *)
(* through the reader.                                                     *)
(*                                                                         *)
(* Clients send what they like: a header, a batch, or a message with       *)
(* neither, at any place, and they close or cancel at any point. The       *)
(* backend (external: no backend of the repository takes rows yet) pulls   *)
(* until io.EOF or an error, may fail with a normalized code at any point, *)
(* and returns an error its reader gave it as it is.                       *)
(***************************************************************************)
EXTENDS Naturals, Sequences

CONSTANT MaxMessages   \* bound: messages of one stream

ASSUME MessagesAssumption == MaxMessages \in Nat

VARIABLES pc,         \* "recv", "backend", "eof", "readerFailed", "done"
          status,     \* what the handler answered
          taken,      \* batches the backend has taken
          sent,       \* what the client sent
          read,       \* how many of those were received
          closed,     \* the client closed its side
          cancelled,  \* the client cancelled, or went away
          misplaced   \* the reader met a message that is not a batch

handlerVars == <<pc, status, taken, read, misplaced>>
clientVars  == <<sent, closed, cancelled>>
vars == <<handlerVars, clientVars>>

\* What the oneof of an InsertRowsRequest holds; "neither" is the nil one.
Kinds == {"header", "batch", "neither"}

\* serr's codes that matter here, and the statuses a client can see.
SerrCodes == {"NotFound", "InvalidArgument", "Unsupported"}
Statuses  == {"none", "OK", "NotFound", "InvalidArgument", "Unimplemented",
              "Internal", "Unknown", "Canceled"}

TypeOK ==
  /\ pc \in {"recv", "backend", "eof", "readerFailed", "done"}
  /\ status \in Statuses
  /\ sent \in Seq(Kinds) /\ Len(sent) <= MaxMessages
  /\ read \in 0 .. Len(sent) /\ taken \in 0 .. read
  /\ closed \in BOOLEAN /\ cancelled \in BOOLEAN /\ misplaced \in BOOLEAN

Init ==
  /\ pc = "recv" /\ status = "none" /\ taken = 0 /\ read = 0 /\ misplaced = FALSE
  /\ sent = <<>> /\ closed = FALSE /\ cancelled = FALSE

-----------------------------------------------------------------------------
(* stream.Recv: the next message; io.EOF once the client has closed and all *)
(* is read; an error once it has cancelled.                                 *)

Received(kinds) == read < Len(sent) /\ sent[read + 1] \in kinds /\ read' = read + 1
AtEnd     == closed /\ read = Len(sent) /\ UNCHANGED read
RecvFails == cancelled /\ UNCHANGED read

ToStatusUnmapped(code) ==   \* mutation: a code without a case of its own
  IF code \in SerrCodes THEN code ELSE "Internal"

\* serr.CodeOf: an error that is not a normalized one counts as Internal.
CodeOf(err) == IF err \in SerrCodes THEN err ELSE "Internal"

\* toStatus of an error: its code, by gRPC's name for it.
ToStatus(err) == IF CodeOf(err) = "Unsupported" THEN "Unimplemented" ELSE CodeOf(err)

Answer(s) == pc' = "done" /\ status' = s

RecvWaits ==   \* mutation: io.EOF is waited out
  /\ pc = "recv"
  /\ \/ Received({"header"}) /\ pc' = "backend" /\ UNCHANGED status
     \/ Received({"batch", "neither"}) /\ Answer("InvalidArgument")
     \/ RecvFails /\ Answer("Canceled")
  /\ UNCHANGED <<taken, misplaced, clientVars>>

\* An error Recv gives for the first message is returned as it is: io.EOF,
\* which is no status, reaches the client as Unknown.
RecvHeader ==
  /\ pc = "recv"
  /\ \/ Received({"header"}) /\ pc' = "backend" /\ UNCHANGED status
     \/ Received({"batch", "neither"}) /\ Answer("InvalidArgument")
     \/ AtEnd /\ Answer("Unknown")
     \/ RecvFails /\ Answer("Canceled")
  /\ UNCHANGED <<taken, misplaced, clientVars>>

NextSkips ==   \* mutation: what is not a batch is passed over
  /\ pc = "backend"
  /\ \/ Received({"batch"}) /\ taken' = taken + 1 /\ UNCHANGED <<pc, misplaced>>
     \/ Received({"header", "neither"}) /\ UNCHANGED <<pc, misplaced, taken>>
     \/ AtEnd /\ pc' = "eof" /\ UNCHANGED <<taken, misplaced>>
     \/ RecvFails /\ pc' = "readerFailed" /\ UNCHANGED <<taken, misplaced>>
  /\ UNCHANGED <<status, clientVars>>

NextDropsErrors ==   \* mutation: any error of Recv ends the rows
  /\ pc = "backend"
  /\ \/ Received({"batch"}) /\ taken' = taken + 1 /\ UNCHANGED <<pc, misplaced>>
     \/ /\ Received({"header", "neither"}) /\ misplaced' = TRUE
        /\ pc' = "readerFailed" /\ UNCHANGED taken
     \/ (AtEnd \/ RecvFails) /\ pc' = "eof" /\ UNCHANGED <<taken, misplaced>>
  /\ UNCHANGED <<status, clientVars>>

\* streamBatchReader.Next, as the backend calls it.
NextBatch ==
  /\ pc = "backend"
  /\ \/ Received({"batch"}) /\ taken' = taken + 1 /\ UNCHANGED <<pc, misplaced>>
     \/ /\ Received({"header", "neither"}) /\ misplaced' = TRUE
        /\ pc' = "readerFailed" /\ UNCHANGED taken
     \/ AtEnd /\ pc' = "eof" /\ UNCHANGED <<taken, misplaced>>
     \/ RecvFails /\ pc' = "readerFailed" /\ UNCHANGED <<taken, misplaced>>
  /\ UNCHANGED <<status, clientVars>>

\* The backend's InsertRows returns: its result, an error of its own, or the
\* error its reader gave it, which is not a normalized one.
BackendReturns ==
  /\ \/ pc = "eof" /\ Answer("OK")
     \/ pc \in {"backend", "eof"} /\ \E code \in SerrCodes : Answer(ToStatus(code))
     \/ pc = "readerFailed" /\ Answer(ToStatus("a status of gRPC"))
  /\ UNCHANGED <<taken, read, misplaced, clientVars>>

-----------------------------------------------------------------------------
(* The client *)

ClientOpen == ~closed /\ ~cancelled /\ pc # "done"

SendMessage(kind) ==
  /\ ClientOpen /\ Len(sent) < MaxMessages
  /\ sent' = Append(sent, kind)
  /\ UNCHANGED <<handlerVars, closed, cancelled>>

CloseSend ==
  /\ ClientOpen /\ closed' = TRUE
  /\ UNCHANGED <<handlerVars, sent, cancelled>>

Cancel ==
  /\ ~cancelled /\ pc # "done" /\ cancelled' = TRUE
  /\ UNCHANGED <<handlerVars, sent, closed>>

Terminating == pc = "done" /\ UNCHANGED vars

Handler == RecvHeader \/ NextBatch \/ BackendReturns
Client  == (\E kind \in Kinds : SendMessage(kind)) \/ CloseSend \/ Cancel
Next == Handler \/ Client \/ Terminating

Spec == Init /\ [][Next]_vars

\* Handlers run; no client need ever send, close or cancel.
FairSpec == Spec /\ WF_vars(Handler)

-----------------------------------------------------------------------------
\* OK means that the client sent a header and then nothing but batches, closed
\* its side, and the backend took every one (server.go:199-218, 239-252).
OkMeansEveryBatch ==
  status = "OK" =>
    /\ closed /\ sent # <<>> /\ taken = Len(sent) - 1
    /\ sent[1] = "header" /\ \A i \in 2 .. Len(sent) : sent[i] = "batch"

\* What the backend has taken is a prefix of the rows behind the header, also
\* of a stream that is refused or breaks off: no batch is taken over a gap
\* (server.go:204-207, 239-252).
RowsAreAPrefix ==
  taken > 0 => sent[1] = "header" /\ \A i \in 2 .. taken + 1 : sent[i] = "batch"

\* A client that closes or cancels is answered (server.go:199-218).
EveryStreamIsAnswered == (closed \/ cancelled) ~> pc = "done"

\* "A header seen mid-stream is a client error" (server.go:232-234): the reader
\* says InvalidArgument, and the client should see that.
MisplacedHeaderIsAClientError ==
  misplaced /\ sent[read] = "header" /\ pc = "done" => status = "InvalidArgument"
=============================================================================
