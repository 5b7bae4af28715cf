------------------------------ MODULE Serving ------------------------------
(***************************************************************************)
(* The gateway serving: the process (GatewayProcess) with the handler and  *)
(* the client of one Query stream (QueryStream) among its calls. The other *)
(* calls are opaque: they run, and end, or never do.                       *)
(*                                                                         *)
(* The handler of the stream steps only while the process lives; when it   *)
(* returns, the call has ended. What breaks a stream under its client is a *)
(* forced Stop, and the exit of a process that did not drain.              *)
(***************************************************************************)
EXTENDS Naturals, Sequences

CONSTANTS query,        \* the call that is a Query stream
          Others,       \* the other calls
          MaxBatches, Window

ASSUME CallsAssumption == query \notin Others
ASSUME StreamAssumption == MaxBatches \in Nat /\ Window \in Nat \ {0}

VARIABLES main, backend, failure, exit, notified, pending, stopper, drainer,
          stopping, stopped, forced, rpc,
          pc, total, reader, next, status, wire, received, cancelled, outcome

Calls == Others \cup {query}

P == INSTANCE GatewayProcess WITH Rpcs <- Calls
Q == INSTANCE QueryStream

processVars == <<main, backend, failure, exit, notified, pending, stopper,
                 drainer, stopping, stopped, forced, rpc>>
streamVars  == <<pc, total, reader, next, status, wire, received, cancelled, outcome>>
vars == <<processVars, streamVars>>

\* A stream that was not accepted has not begun, and one whose handler returned
\* has ended.
TypeOK ==
  /\ P!TypeOK /\ Q!TypeOK
  /\ rpc[query] = "unsent" => pc = "query" /\ outcome = "none"
  /\ rpc[query] = "ended" <=> pc = "done"

Init == P!Init /\ Q!Init

-----------------------------------------------------------------------------
Accepted == rpc[query] # "unsent"

\* The connection goes away under the stream. GracefulStop returns only when
\* the status of every handler was written, so a drained server loses nothing;
\* Stop, and an exit without it, lose what was not written yet.
Break ==
  \/ Accepted /\ (pc = "done" => drainer # "done") /\ Q!Lose
  \/ /\ Accepted /\ outcome = "none" => pc = "done"
     /\ UNCHANGED streamVars

Process == (P!Run \/ P!Stop \/ P!Signal) /\ UNCHANGED streamVars

GraceElapses == P!GraceElapses /\ Break
Exit == P!Exit /\ Break

Call(r)   == P!Accept(r) /\ UNCHANGED streamVars
Return(r) == r # query /\ P!Finish(r) /\ UNCHANGED streamVars

Handler ==
  /\ P!Alive /\ P!Running(query) /\ Q!Handler
  /\ IF pc' = "done" THEN P!Finish(query) ELSE UNCHANGED processVars

Receive == Accepted /\ (Q!Receive \/ Q!ReceiveStatus) /\ UNCHANGED processVars
Cancel  == Accepted /\ Q!Cancel /\ UNCHANGED processVars

Terminating == main = "exited" /\ (Accepted => outcome # "none") /\ UNCHANGED vars

Next ==
  \/ Process \/ GraceElapses \/ Exit
  \/ \E r \in Calls : Call(r) \/ Return(r)
  \/ Handler \/ Receive \/ Cancel
  \/ Terminating

Spec == Init /\ [][Next]_vars

\* Goroutines run, the grace timer fires, and the client reads on. No handler
\* need ever take a step: its backend may hang.
Fairness ==
  /\ WF_vars(P!Serve /\ UNCHANGED streamVars)
  /\ WF_vars(P!ServeReturns /\ UNCHANGED streamVars)
  /\ WF_vars(P!Close /\ UNCHANGED streamVars) /\ WF_vars(Exit)
  /\ WF_vars(P!StopGracefully /\ UNCHANGED streamVars)
  /\ WF_vars(P!Drain /\ UNCHANGED streamVars) /\ WF_vars(GraceElapses)
  /\ WF_vars(Receive)

FairSpec == Spec /\ Fairness

-----------------------------------------------------------------------------
\* Unless the grace ran out, or the listener broke, the backend is closed only
\* when no handler can still be using it and every result that was opened from
\* it was closed first (main.go:54, 80, 108-120; server.go:34-36).
ClosedWhenQuiet ==
  backend = "closed" /\ ~forced /\ failure # "accept" =>
    P!NoHandlerRuns /\ reader # "open"

\* A client that is told OK has the whole result, in order, whatever became of
\* the server meanwhile (server.go:37-58).
OkIsComplete ==
  outcome = "OK" =>
    Len(received) = total + 1 /\ \A i \in 1 .. total + 1 : received[i] = i - 1

\* A stream is broken under its client only by the grace running out, or by a
\* listener that broke: a graceful stop lets it finish (main.go:31-36, 106-120).
OnlyForceBreaksStreams ==
  outcome = "unavailable" => forced \/ failure = "accept"

\* A signal ends the process even if a handler never returns, and leaves no
\* client waiting (main.go:33-36, 106-107: "a stuck stream can never make
\* shutdown hang").
SignalEndsEverything ==
  pending ~> main = "exited" /\ (Accepted => outcome # "none")

\* If backends answer, the handler of a client that gave up, or that the server
\* cut off, returns, also when it is stuck in a Send (server.go:42, 55).
AbandonedHandlersReturn ==
  WF_vars(Handler) => (cancelled ~> pc = "done" \/ main = "exited")
=============================================================================
