--------------------------- MODULE GatewayProcess ---------------------------
(***************************************************************************)
(* The gateway process from main to exit (cmd/service-warehouse/main.go):  *)
(* run on the main goroutine, the goroutine that waits for a signal and    *)
(* gracefulStop, which it calls, the goroutine gracefulStop starts, and    *)
(* the RPC handlers, which use the backend that run's defer closes.        *)
(*                                                                         *)
(* grpc.Server (external) is what main.go relies on: GracefulStop closes   *)
(* the listener, still serves what is on its way, and returns when no      *)
(* handler runs; Stop cancels the handlers and does not wait for them;     *)
(* Serve returns nil once either has finished, and an error if one was     *)
(* called before it. Serving composes the process with one of its streams. *)
(***************************************************************************)
EXTENDS Naturals

CONSTANT Rpcs   \* calls the clients make, each at most once

VARIABLES main,      \* where run is
          backend,   \* "none", "open", "closed"
          failure,   \* what run returns: "nil", "startup", "stopped", "accept"
          exit,      \* "none", "0", "1", "killed"
          notified,  \* signal.Notify was called
          pending,   \* the sig channel holds a signal
          stopper,   \* the signal goroutine
          drainer,   \* the goroutine that calls GracefulStop
          stopping,  \* the server was told to stop: no new connection
          stopped,   \* GracefulStop or Stop has finished
          forced,    \* Stop was called
          rpc        \* each call: "unsent", "running", "ended"

processVars == <<main, backend, failure, exit>>
stopVars    == <<stopper, drainer>>
serverVars  == <<stopping, stopped, forced>>
vars == <<processVars, notified, pending, stopVars, serverVars, rpc>>

TypeOK ==
  /\ main \in {"open", "listen", "notify", "serve", "serving", "return", "closed", "exited"}
  /\ backend \in {"none", "open", "closed"}
  /\ failure \in {"nil", "startup", "stopped", "accept"}
  /\ exit \in {"none", "0", "1", "killed"}
  /\ notified \in BOOLEAN /\ pending \in BOOLEAN
  /\ stopper \in {"waiting", "selecting", "forced", "done"}
  /\ drainer \in {"none", "called", "draining", "done"}
  /\ stopping \in BOOLEAN /\ stopped \in BOOLEAN /\ forced \in BOOLEAN
  /\ rpc \in [Rpcs -> {"unsent", "running", "ended"}]

Init ==
  /\ main = "open" /\ backend = "none" /\ failure = "nil" /\ exit = "none"
  /\ notified = FALSE /\ pending = FALSE
  /\ stopper = "waiting" /\ drainer = "none"
  /\ stopping = FALSE /\ stopped = FALSE /\ forced = FALSE
  /\ rpc = [r \in Rpcs |-> "unsent"]

Alive == main # "exited"
Running(r) == rpc[r] = "running"
NoHandlerRuns == \A r \in Rpcs : ~Running(r)

-----------------------------------------------------------------------------
(* run *)

\* config.FromEnv and backend.Open: either may fail, and nothing is open then.
OpenBackend ==
  /\ main = "open"
  /\ \/ /\ main' = "listen" /\ backend' = "open" /\ UNCHANGED <<failure, exit>>
     \/ /\ main' = "exited" /\ failure' = "startup" /\ exit' = "1" /\ UNCHANGED backend
  /\ UNCHANGED <<notified, pending, stopVars, serverVars, rpc>>

Listen ==
  /\ main = "listen"
  /\ \/ main' = "notify" /\ UNCHANGED failure
     \/ main' = "return" /\ failure' = "startup"
  /\ UNCHANGED <<backend, exit, notified, pending, stopVars, serverVars, rpc>>

\* newGRPCServer, signal.Notify, and the goroutine that waits.
Notify ==
  /\ main = "notify" /\ main' = "serve" /\ notified' = TRUE
  /\ UNCHANGED <<backend, failure, exit, pending, stopVars, serverVars, rpc>>

\* A signal may already have stopped the server.
Serve ==
  /\ main = "serve"
  /\ IF stopping THEN main' = "return" /\ failure' = "stopped"
                 ELSE main' = "serving" /\ UNCHANGED failure
  /\ UNCHANGED <<backend, exit, notified, pending, stopVars, serverVars, rpc>>

\* Serve returns nil after a GracefulStop or a Stop, or an error of Accept.
ServeReturns ==
  /\ main = "serving" /\ stopped /\ main' = "return"
  /\ UNCHANGED <<backend, failure, exit, notified, pending, stopVars, serverVars, rpc>>

ListenerBreaks ==
  /\ main = "serving" /\ ~stopping /\ main' = "return" /\ failure' = "accept"
  /\ UNCHANGED <<backend, exit, notified, pending, stopVars, serverVars, rpc>>

\* run returns: its deferred Close.
Close ==
  /\ main = "return" /\ main' = "closed" /\ backend' = "closed"
  /\ UNCHANGED <<failure, exit, notified, pending, stopVars, serverVars, rpc>>

\* main: log.Fatalf if run returned an error. Handlers that still run go down
\* with the process.
Exit ==
  /\ main = "closed" /\ main' = "exited"
  /\ exit' = IF failure = "nil" THEN "0" ELSE "1"
  /\ UNCHANGED <<backend, failure, notified, pending, stopVars, serverVars, rpc>>

-----------------------------------------------------------------------------
(* The signal, and gracefulStop *)

\* SIGTERM or an interrupt. Before Notify it kills the process; the channel
\* holds one signal and any further one is dropped or never read.
Signal ==
  /\ Alive /\ ~pending /\ stopper = "waiting"
  /\ IF notified
       THEN pending' = TRUE /\ UNCHANGED processVars
       ELSE /\ main' = "exited" /\ exit' = "killed"
            /\ UNCHANGED <<backend, failure, pending>>
  /\ UNCHANGED <<notified, stopVars, serverVars, rpc>>

StopGracefully ==
  /\ Alive /\ stopper = "waiting" /\ pending
  /\ pending' = FALSE /\ stopper' = "selecting" /\ drainer' = "called"
  /\ UNCHANGED <<processVars, notified, serverVars, rpc>>

\* GracefulStop: the listener is closed, and the clients are told to go away.
Drain ==
  /\ Alive /\ drainer = "called"
  /\ drainer' = "draining" /\ stopping' = TRUE
  /\ UNCHANGED <<processVars, notified, pending, stopper, stopped, forced, rpc>>

DrainedByStop ==   \* mutation: Stop in place of GracefulStop
  /\ Alive /\ drainer = "draining"
  /\ drainer' = "done" /\ stopped' = TRUE
  /\ UNCHANGED <<processVars, notified, pending, stopper, stopping, forced, rpc>>

\* GracefulStop returns, and done is closed.
Drained ==
  /\ Alive /\ drainer = "draining" /\ NoHandlerRuns
  /\ drainer' = "done" /\ stopped' = TRUE
  /\ UNCHANGED <<processVars, notified, pending, stopper, stopping, forced, rpc>>

GraceIgnored ==   \* mutation: the grace is logged, and Stop is not called
  /\ Alive /\ stopper = "selecting" /\ stopper' = "forced"
  /\ UNCHANGED <<processVars, notified, pending, drainer, serverVars, rpc>>

\* time.After(grace): Stop. It waits for no handler.
GraceElapses ==
  /\ Alive /\ stopper = "selecting" /\ stopper' = "forced"
  /\ stopping' = TRUE /\ stopped' = TRUE /\ forced' = TRUE
  /\ UNCHANGED <<processVars, notified, pending, drainer, rpc>>

\* <-done: in the select, or after Stop.
StopperDone ==
  /\ Alive /\ stopper \in {"selecting", "forced"} /\ drainer = "done"
  /\ stopper' = "done"
  /\ UNCHANGED <<processVars, notified, pending, drainer, serverVars, rpc>>

-----------------------------------------------------------------------------
(* RPC handlers *)

Accept(r) ==
  /\ main = "serving" /\ ~stopped
  /\ rpc[r] = "unsent" /\ rpc' = [rpc EXCEPT ![r] = "running"]
  /\ UNCHANGED <<processVars, notified, pending, stopVars, serverVars>>

Finish(r) ==
  /\ Alive /\ Running(r) /\ rpc' = [rpc EXCEPT ![r] = "ended"]
  /\ UNCHANGED <<processVars, notified, pending, stopVars, serverVars>>

-----------------------------------------------------------------------------
Run  == OpenBackend \/ Listen \/ Notify \/ Serve \/ ServeReturns \/ ListenerBreaks
        \/ Close
Stop == StopGracefully \/ Drain \/ Drained \/ StopperDone
=============================================================================
