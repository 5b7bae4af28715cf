--------------------------- MODULE Serving_proofs ---------------------------
(***************************************************************************)
(* The gateway's shutdown is clean and its answers are whole, for any set  *)
(* of calls, any number of batches and any window of the stream.           *)
(*                                                                         *)
(* The argument has two halves that meet in the exit of the process. Of    *)
(* the process: no call is accepted before it serves or once the server    *)
(* has stopped, so a server that stopped without force has no handler that *)
(* runs (Quiet), and neither has a process that is past Serve (Over). Of   *)
(* the stream: while its client has not given up, what it received,        *)
(* followed by what is on its way, is the header and the batches in order  *)
(* (InOrder), as far as the handler has come (Progress).                   *)
(***************************************************************************)
EXTENDS Serving, TLAPS

NoneSent == \A r \in Calls : rpc[r] = "unsent"

-----------------------------------------------------------------------------
(* The process.                                                            *)

\* Nothing is accepted before Serve, and signals are noticed from Notify on.
Early ==
  /\ main \in {"open", "listen", "notify"} => ~notified
  /\ main \in {"serve", "serving"} => notified
  /\ ~notified \/ main = "serve" => NoneSent

\* gracefulStop runs once; the backend is closed, and the listener breaks, only
\* on the way out.
Once ==
  /\ stopper = "waiting" => drainer = "none"
  /\ backend = "closed" => main \in {"closed", "exited"}
  /\ failure = "accept" => main \in {"return", "closed", "exited"}

\* A server that stopped without force has no handler that runs.
Quiet == stopped /\ ~forced => drainer = "done" /\ P!NoHandlerRuns

\* Neither has a process that is past Serve, unless the listener broke: it served
\* nobody, or was drained.
Over ==
  main \in {"return", "closed", "exited"} /\ ~forced /\ failure # "accept" =>
    NoneSent \/ (drainer = "done" /\ P!NoHandlerRuns)

ProcessInv == P!TypeOK /\ Early /\ Once /\ Quiet /\ Over

-----------------------------------------------------------------------------
(* The stream.                                                             *)

\* The reader is open only while the handler runs, and a result without one has
\* no batches.
Begun ==
  /\ reader = "open" => pc \in {"header", "next", "send"}
  /\ pc \in {"query", "header"} => next = 0 /\ reader # "closed"
  /\ pc = "query" => reader = "none"
  /\ reader = "none" => total = 0

\* What was received, then what is on its way, is 0, 1, 2, ...
InOrder ==
  ~cancelled =>
    /\ \A i \in 1 .. Len(received) : received[i] = i - 1
    /\ \A i \in 1 .. Len(wire) : wire[i] = Len(received) + i - 1

\* How much that is, by where the handler is.
Progress ==
  ~cancelled =>
    /\ pc \in {"query", "header"} => Len(received) + Len(wire) = 0
    /\ pc = "next" => Len(received) + Len(wire) = next + 1
    /\ pc = "send" => Len(received) + Len(wire) = next
    /\ pc = "done" /\ status = "OK" => Len(received) + Len(wire) = total + 1

\* What the client is told: the handler's status once everything was received,
\* or that the stream is gone.
Told ==
  /\ status # "unavailable"
  /\ cancelled => outcome \in {"cancelled", "unavailable"}
  /\ ~cancelled /\ outcome # "none" => pc = "done" /\ wire = <<>> /\ outcome = status

StreamInv == Q!TypeOK /\ Begun /\ InOrder /\ Progress /\ Told

-----------------------------------------------------------------------------
IInv == TypeOK /\ ProcessInv /\ StreamInv /\ OnlyForceBreaksStreams

-----------------------------------------------------------------------------
(* The steps of the process.                                               *)

\* What no step takes back: that the server was forced, that the listener broke.
Kept == (forced => forced') /\ (failure = "accept" => failure' = "accept")

\* The backend is opened, or the process ends with nothing accepted.
LEMMA OpenBackendStep ==
  ASSUME ProcessInv, P!OpenBackend
  PROVE  ProcessInv' /\ Kept
BY DEF P!OpenBackend, P!Alive, P!processVars, P!stopVars, P!serverVars, P!NoHandlerRuns, P!Running,
   ProcessInv, P!TypeOK, Early, Once, Quiet, Over, NoneSent, Kept

\* The listener is opened, or run returns with nothing accepted.
LEMMA ListenStep ==
  ASSUME ProcessInv, P!Listen
  PROVE  ProcessInv' /\ Kept
BY DEF P!Listen, P!Alive, P!processVars, P!stopVars, P!serverVars, P!NoHandlerRuns, P!Running,
   ProcessInv, P!TypeOK, Early, Once, Quiet, Over, NoneSent, Kept

\* Signals are noticed from now on.
LEMMA NotifyStep ==
  ASSUME ProcessInv, P!Notify
  PROVE  ProcessInv' /\ Kept
BY DEF P!Notify, P!Alive, P!processVars, P!stopVars, P!serverVars, P!NoHandlerRuns, P!Running,
   ProcessInv, P!TypeOK, Early, Once, Quiet, Over, NoneSent, Kept

\* Serving begins, or run returns with nothing accepted.
LEMMA ServeStep ==
  ASSUME ProcessInv, P!Serve
  PROVE  ProcessInv' /\ Kept
BY DEF P!Serve, P!Alive, P!processVars, P!stopVars, P!serverVars, P!NoHandlerRuns, P!Running,
   ProcessInv, P!TypeOK, Early, Once, Quiet, Over, NoneSent, Kept

\* Serve returns when the server has stopped.
LEMMA ServeReturnsStep ==
  ASSUME ProcessInv, P!ServeReturns
  PROVE  ProcessInv' /\ Kept
BY DEF P!ServeReturns, P!Alive, P!processVars, P!stopVars, P!serverVars, P!NoHandlerRuns, P!Running,
   ProcessInv, P!TypeOK, Early, Once, Quiet, Over, NoneSent, Kept

\* Serve returns because the listener broke.
LEMMA ListenerBreaksStep ==
  ASSUME ProcessInv, P!ListenerBreaks
  PROVE  ProcessInv' /\ Kept
BY DEF P!ListenerBreaks, P!Alive, P!processVars, P!stopVars, P!serverVars, P!NoHandlerRuns, P!Running,
   ProcessInv, P!TypeOK, Early, Once, Quiet, Over, NoneSent, Kept

\* The backend is closed.
LEMMA CloseStep ==
  ASSUME ProcessInv, P!Close
  PROVE  ProcessInv' /\ Kept
BY DEF P!Close, P!Alive, P!processVars, P!stopVars, P!serverVars, P!NoHandlerRuns, P!Running,
   ProcessInv, P!TypeOK, Early, Once, Quiet, Over, NoneSent, Kept

\* The process ends.
LEMMA ExitStep ==
  ASSUME ProcessInv, P!Exit
  PROVE  ProcessInv' /\ Kept
BY DEF P!Exit, P!Alive, P!processVars, P!stopVars, P!serverVars, P!NoHandlerRuns, P!Running,
   ProcessInv, P!TypeOK, Early, Once, Quiet, Over, NoneSent, Kept

\* A signal is noticed, or ends a process that accepted nothing.
LEMMA SignalStep ==
  ASSUME ProcessInv, P!Signal
  PROVE  ProcessInv' /\ Kept
BY DEF P!Signal, P!Alive, P!processVars, P!stopVars, P!serverVars, P!NoHandlerRuns, P!Running,
   ProcessInv, P!TypeOK, Early, Once, Quiet, Over, NoneSent, Kept

\* gracefulStop begins, once.
LEMMA StopGracefullyStep ==
  ASSUME ProcessInv, P!StopGracefully
  PROVE  ProcessInv' /\ Kept
<1>1. /\ stopper = "waiting" /\ drainer = "none" /\ stopper' = "selecting" /\ drainer' = "called"
      /\ pending' = FALSE
      /\ UNCHANGED <<main, backend, failure, exit, notified, stopping, stopped, forced, rpc>>
  BY DEF P!StopGracefully, P!processVars, P!serverVars, ProcessInv, Once
<1>2. P!TypeOK'
  <2>1. pending' \in BOOLEAN
    BY <1>1, Zenon
  <2> QED
    BY <1>1, <2>1 DEF ProcessInv, P!TypeOK
<1>3. Early' /\ Once' /\ Quiet' /\ Kept
  BY <1>1 DEF ProcessInv, Early, Once, Quiet, NoneSent, Kept
<1>4. Over'
  BY <1>1 DEF ProcessInv, Over, NoneSent
<1> QED
  BY <1>2, <1>3, <1>4 DEF ProcessInv

\* GracefulStop is called.
LEMMA DrainStep ==
  ASSUME ProcessInv, P!Drain
  PROVE  ProcessInv' /\ Kept
BY DEF P!Drain, P!Alive, P!processVars, P!stopVars, P!serverVars, P!NoHandlerRuns, P!Running,
   ProcessInv, P!TypeOK, Early, Once, Quiet, Over, NoneSent, Kept

\* GracefulStop returns: no handler runs.
LEMMA DrainedStep ==
  ASSUME ProcessInv, P!Drained
  PROVE  ProcessInv' /\ Kept
BY DEF P!Drained, P!Alive, P!processVars, P!stopVars, P!serverVars, P!NoHandlerRuns, P!Running,
   ProcessInv, P!TypeOK, Early, Once, Quiet, Over, NoneSent, Kept

\* gracefulStop returns.
LEMMA StopperDoneStep ==
  ASSUME ProcessInv, P!StopperDone
  PROVE  ProcessInv' /\ Kept
BY DEF P!StopperDone, P!Alive, P!processVars, P!stopVars, P!serverVars, P!NoHandlerRuns, P!Running,
   ProcessInv, P!TypeOK, Early, Once, Quiet, Over, NoneSent, Kept

\* Stop is called: the server is forced from now on.
LEMMA GraceElapsesStep ==
  ASSUME ProcessInv, P!GraceElapses
  PROVE  ProcessInv' /\ Kept
BY DEF P!GraceElapses, P!Alive, P!processVars, P!stopVars, P!serverVars, P!NoHandlerRuns, P!Running,
   ProcessInv, P!TypeOK, Early, Once, Quiet, Over, NoneSent, Kept

\* A call is accepted, while the process serves and the server has not stopped.
LEMMA AcceptStep ==
  ASSUME ProcessInv, NEW r \in Calls, P!Accept(r)
  PROVE  ProcessInv' /\ Kept
BY DEF P!Accept, P!processVars, P!stopVars, P!serverVars, P!NoHandlerRuns, P!Running,
   ProcessInv, P!TypeOK, Early, Once, Quiet, Over, NoneSent, Kept

\* A handler returns.
LEMMA FinishStep ==
  ASSUME ProcessInv, NEW r \in Calls, P!Finish(r)
  PROVE  ProcessInv' /\ Kept
BY DEF P!Finish, P!Alive, P!processVars, P!stopVars, P!serverVars, P!NoHandlerRuns, P!Running,
   ProcessInv, P!TypeOK, Early, Once, Quiet, Over, NoneSent, Kept

-----------------------------------------------------------------------------
(* The steps of the stream.                                                *)

\* What one element less at the front makes of a sequence.
LEMMA Advanced ==
  ASSUME NEW S, NEW s \in Seq(S), s # <<>>
  PROVE  /\ Head(s) \in S /\ Head(s) = s[1] /\ Len(s) >= 1
         /\ Tail(s) \in Seq(S) /\ Len(Tail(s)) = Len(s) - 1
         /\ \A i \in 1 .. Len(s) - 1 : Tail(s)[i] = s[i + 1]
OBVIOUS

\* The handler before it sends anything.
LEMMA QueryStep ==
  ASSUME StreamInv, Q!QueryFails \/ Q!Query
  PROVE  StreamInv' /\ outcome' = outcome
BY StreamAssumption DEF Q!QueryFails, Q!Query, Q!Return, Q!clientVars, Q!Statuses,
   StreamInv, Q!TypeOK, Begun, InOrder, Progress, Told

\* The reader's batch, its end, or its error.
LEMMA NextBatchStep ==
  ASSUME StreamInv, Q!NextBatch
  PROVE  StreamInv' /\ outcome' = outcome
BY StreamAssumption DEF Q!NextBatch, Q!Return, Q!clientVars, Q!Statuses,
   StreamInv, Q!TypeOK, Begun, InOrder, Progress, Told

\* One message more is on its way: the one that is next.
LEMMA Sent ==
  ASSUME StreamInv, NEW m \in Q!Messages, Q!Send(m), m = Len(received) + Len(wire),
         UNCHANGED <<received, cancelled>>
  PROVE  /\ ~cancelled /\ Len(wire') = Len(wire) + 1 /\ Len(wire') <= Window
         /\ wire' \in Seq(Q!Messages) /\ InOrder'
<1>1. /\ wire' = Append(wire, m) /\ ~cancelled /\ Len(wire) < Window
      /\ wire \in Seq(Q!Messages) /\ received \in Seq(Q!Messages)
  BY DEF Q!Send, StreamInv, Q!TypeOK
<1>2. /\ wire' \in Seq(Q!Messages) /\ Len(wire') = Len(wire) + 1
      /\ \A i \in 1 .. Len(wire) : wire'[i] = wire[i]
      /\ wire'[Len(wire) + 1] = m
  BY <1>1
<1>3. Len(wire) \in Nat /\ Len(received) \in Nat
  BY <1>1
<1>4. Len(wire') <= Window
  BY <1>1, <1>2, <1>3, StreamAssumption
<1>5. ASSUME NEW i \in 1 .. Len(wire')
      PROVE  wire'[i] = Len(received) + i - 1
  <2>1. CASE i \in 1 .. Len(wire)
    BY <1>1, <1>2, <2>1 DEF StreamInv, InOrder
  <2>2. CASE i = Len(wire) + 1
    BY <1>2, <1>3, <2>2
  <2> QED
    BY <1>2, <1>3, <2>1, <2>2
<1>6. InOrder'
  BY <1>1, <1>5 DEF StreamInv, InOrder
<1> QED
  BY <1>1, <1>2, <1>4, <1>6

\* The header.
LEMMA SendHeaderStep ==
  ASSUME StreamInv, Q!SendHeader
  PROVE  StreamInv' /\ outcome' = outcome
<1>1. /\ pc = "header" /\ next = 0 /\ reader # "closed"
      /\ UNCHANGED <<total, next, received, cancelled, outcome>>
  BY DEF Q!SendHeader, Q!clientVars, StreamInv, Begun
<1>2. CASE Q!Send(Q!Header)
  <2>1. ~cancelled /\ Len(received) + Len(wire) = 0
    BY <1>1, <1>2 DEF Q!Send, StreamInv, Progress
  <2>2. Q!Header \in Q!Messages /\ Q!Header = 0
    BY StreamAssumption DEF Q!Header, Q!Messages
  <2>3. /\ Len(wire') = Len(wire) + 1 /\ Len(wire') <= Window
        /\ wire' \in Seq(Q!Messages) /\ InOrder'
    BY <1>1, <1>2, <2>1, <2>2, Sent
  <2>4. \/ reader = "none" /\ Q!Return("OK")
        \/ reader = "open" /\ pc' = "next" /\ UNCHANGED <<reader, status>>
    BY <1>2 DEF Q!SendHeader, Q!Send, Q!SendFails
  <2>5. Q!TypeOK' /\ Begun'
    BY <1>1, <2>3, <2>4 DEF Q!Return, Q!Statuses, StreamInv, Q!TypeOK, Begun
  <2>6. Progress'
    BY <1>1, <2>1, <2>3, <2>4 DEF Q!Return, StreamInv, Q!TypeOK, Begun, Progress
  <2>7. Told'
    BY <1>1, <2>1, <2>4 DEF Q!Return, StreamInv, Told
  <2> QED
    BY <1>1, <2>3, <2>5, <2>6, <2>7 DEF StreamInv
<1>3. CASE Q!SendFails
  BY <1>1, <1>3 DEF Q!SendFails, Q!Return, Q!Statuses,
     StreamInv, Q!TypeOK, Begun, InOrder, Progress, Told
<1> QED
  BY <1>2, <1>3 DEF Q!SendHeader

\* A batch.
LEMMA SendBatchStep ==
  ASSUME StreamInv, Q!SendBatch
  PROVE  StreamInv' /\ outcome' = outcome
<1>1. /\ pc = "send" /\ UNCHANGED <<total, next, received, cancelled, outcome>>
  BY DEF Q!SendBatch, Q!clientVars
<1>2. CASE Q!Send(next) /\ pc' = "next" /\ UNCHANGED <<reader, status>>
  <2>1. ~cancelled /\ Len(received) + Len(wire) = next
    BY <1>1, <1>2 DEF Q!Send, StreamInv, Progress
  <2>2. next \in Q!Messages
    BY StreamAssumption DEF Q!Messages, StreamInv, Q!TypeOK
  <2>3. /\ Len(wire') = Len(wire) + 1 /\ Len(wire') <= Window
        /\ wire' \in Seq(Q!Messages) /\ InOrder'
    BY <1>1, <1>2, <2>1, <2>2, Sent
  <2>4. Q!TypeOK' /\ Begun' /\ Told'
    BY <1>1, <1>2, <2>1, <2>3 DEF StreamInv, Q!TypeOK, Begun, Told
  <2>5. Progress'
    BY <1>1, <1>2, <2>1, <2>3 DEF StreamInv, Q!TypeOK, Progress
  <2> QED
    BY <1>1, <2>3, <2>4, <2>5 DEF StreamInv
<1>3. CASE Q!SendFails
  BY <1>1, <1>3 DEF Q!SendFails, Q!Return, Q!Statuses,
     StreamInv, Q!TypeOK, Begun, InOrder, Progress, Told
<1> QED
  BY <1>2, <1>3 DEF Q!SendBatch

\* The client reads a message: the next in order.
LEMMA ReceiveStep ==
  ASSUME StreamInv, Q!Receive
  PROVE  StreamInv' /\ outcome' = outcome
<1>1. /\ wire # <<>> /\ received' = Append(received, Head(wire)) /\ wire' = Tail(wire)
      /\ outcome = "none" /\ ~cancelled
      /\ UNCHANGED <<pc, total, reader, next, status, cancelled, outcome>>
  BY DEF Q!Receive, Q!Waiting, Q!handlerVars, StreamInv, Told
<1>2. wire \in Seq(Q!Messages) /\ received \in Seq(Q!Messages) /\ Len(wire) <= Window
  BY DEF StreamInv, Q!TypeOK
<1>3. /\ Head(wire) \in Q!Messages /\ Head(wire) = wire[1] /\ Len(wire) >= 1
      /\ wire' \in Seq(Q!Messages) /\ Len(wire') = Len(wire) - 1
      /\ \A i \in 1 .. Len(wire) - 1 : wire'[i] = wire[i + 1]
  BY <1>1, <1>2, Advanced, Zenon
<1>4. /\ received' \in Seq(Q!Messages) /\ Len(received') = Len(received) + 1
      /\ \A i \in 1 .. Len(received) : received'[i] = received[i]
      /\ received'[Len(received) + 1] = Head(wire)
  BY <1>1, <1>2, <1>3
<1>5. Len(wire) \in Nat /\ Len(received) \in Nat
  BY <1>2
<1>6. Head(wire) = Len(received)
  BY <1>1, <1>3, <1>5 DEF StreamInv, InOrder
<1>7. InOrder'
  <2>1. ASSUME NEW i \in 1 .. Len(received')
        PROVE  received'[i] = i - 1
    <3>1. CASE i \in 1 .. Len(received)
      BY <1>1, <1>4, <3>1 DEF StreamInv, InOrder
    <3>2. CASE i = Len(received) + 1
      BY <1>4, <1>5, <1>6, <3>2
    <3> QED
      BY <1>4, <1>5, <3>1, <3>2
  <2>2. ASSUME NEW i \in 1 .. Len(wire')
        PROVE  wire'[i] = Len(received') + i - 1
    <3>1. /\ i \in 1 .. Len(wire) - 1 /\ i + 1 \in 1 .. Len(wire) /\ i \in Nat
      BY <1>3, <1>5
    <3>2. wire[i + 1] = Len(received) + (i + 1) - 1
      BY <1>1, <3>1 DEF StreamInv, InOrder
    <3>3. wire'[i] = wire[i + 1]
      BY <1>3, <3>1
    <3> QED
      BY <1>4, <1>5, <3>1, <3>2, <3>3
  <2> QED
    BY <2>1, <2>2 DEF InOrder
<1>8. Len(received') + Len(wire') = Len(received) + Len(wire) /\ Len(wire') <= Window
  BY <1>2, <1>3, <1>4, <1>5, StreamAssumption
<1>9. Q!TypeOK' /\ Begun' /\ Told'
  BY <1>1, <1>3, <1>4, <1>8 DEF StreamInv, Q!TypeOK, Begun, Told
<1>10. Progress'
  BY <1>1, <1>8 DEF StreamInv, Progress
<1> QED
  BY <1>1, <1>7, <1>9, <1>10 DEF StreamInv

\* The client reads the handler's status.
LEMMA ReceiveStatusStep ==
  ASSUME StreamInv, Q!ReceiveStatus
  PROVE  StreamInv' /\ outcome' # "unavailable"
BY DEF Q!ReceiveStatus, Q!Waiting, Q!handlerVars, Q!Statuses,
   StreamInv, Q!TypeOK, Begun, InOrder, Progress, Told

\* The client gives up, or is cut off.
LEMMA CutStep ==
  ASSUME StreamInv, Q!Cancel \/ Q!Lose
  PROVE  StreamInv' /\ pc' = pc
<1>1. /\ cancelled' = TRUE /\ outcome' \in {"cancelled", "unavailable"} /\ wire' = <<>>
      /\ UNCHANGED <<pc, total, reader, next, status, received>>
  BY DEF Q!Cancel, Q!Lose, Q!handlerVars
<1>2. wire' \in Seq(Q!Messages) /\ Len(wire') <= Window
  BY <1>1, StreamAssumption
<1>3. cancelled' \in BOOLEAN
  BY <1>1, Zenon
<1>4. Q!TypeOK'
  BY <1>1, <1>2, <1>3 DEF Q!Statuses, StreamInv, Q!TypeOK
<1>5. Begun' /\ InOrder' /\ Progress' /\ Told'
  BY <1>1 DEF StreamInv, Begun, InOrder, Progress, Told
<1> QED
  BY <1>1, <1>4, <1>5 DEF StreamInv

-----------------------------------------------------------------------------
(* The process and the stream together.                                    *)

\* A step that leaves the invariant of either part alone leaves both.
LEMMA ProcessUnchanged ==
  ASSUME ProcessInv, UNCHANGED processVars
  PROVE  ProcessInv' /\ Kept
BY DEF processVars, P!NoHandlerRuns, P!Running,
   ProcessInv, P!TypeOK, Early, Once, Quiet, Over, NoneSent, Kept

LEMMA StreamUnchanged ==
  ASSUME StreamInv, UNCHANGED streamVars
  PROVE  StreamInv' /\ pc' = pc /\ outcome' = outcome
BY DEF streamVars, Q!Statuses, Q!Messages, StreamInv, Q!TypeOK, Begun, InOrder, Progress, Told

\* What remains to be shown of a step that preserves both.
LEMMA Together ==
  ASSUME IInv, ProcessInv', StreamInv', Kept,
         rpc'[query] = "unsent" => pc' = "query" /\ outcome' = "none",
         rpc'[query] = "ended" <=> pc' = "done",
         outcome' = "unavailable" => outcome = outcome' \/ forced' \/ failure' = "accept"
  PROVE  IInv'
<1>1. P!TypeOK' /\ Q!TypeOK'
  BY DEF ProcessInv, StreamInv
<1>2. TypeOK'
  BY <1>1 DEF TypeOK
<1>3. OnlyForceBreaksStreams'
  BY DEF IInv, OnlyForceBreaksStreams, Kept
<1> QED
  BY <1>2, <1>3 DEF IInv

\* The process steps, and no call begins or ends.
LEMMA ProcessStep ==
  ASSUME IInv, Process
  PROVE  IInv'
<1>1. ProcessInv /\ StreamInv /\ TypeOK
  BY DEF IInv
<1>2. ProcessInv' /\ Kept
  BY <1>1, OpenBackendStep, ListenStep, NotifyStep, ServeStep, ServeReturnsStep,
     ListenerBreaksStep, CloseStep, SignalStep, StopGracefullyStep, DrainStep, DrainedStep,
     StopperDoneStep DEF Process, P!Run, P!Stop
<1>3. rpc' = rpc
  BY DEF Process, P!Run, P!Stop, P!OpenBackend, P!Listen, P!Notify, P!Serve, P!ServeReturns,
     P!ListenerBreaks, P!Close, P!StopGracefully, P!Drain, P!Drained, P!StopperDone, P!Signal
<1>4. StreamInv' /\ pc' = pc /\ outcome' = outcome
  BY <1>1, StreamUnchanged DEF Process
<1> QED
  BY <1>1, <1>2, <1>3, <1>4, Together DEF TypeOK

\* The grace runs out, or the process ends, and the stream may break. It breaks
\* with the exit of the process only if the server was forced or the listener
\* broke: a drained server has told the client everything.
LEMMA BreakStep ==
  ASSUME IInv, GraceElapses \/ Exit
  PROVE  IInv'
<1>1. ProcessInv /\ StreamInv /\ TypeOK
  BY DEF IInv
<1>2. ProcessInv' /\ Kept /\ rpc' = rpc /\ Break
  BY <1>1, GraceElapsesStep, ExitStep DEF GraceElapses, Exit, P!GraceElapses, P!Exit
<1>3. CASE UNCHANGED streamVars
  BY <1>1, <1>2, <1>3, StreamUnchanged, Together DEF TypeOK
<1>4. CASE Accepted /\ (pc = "done" => drainer # "done") /\ Q!Lose
  <2>1. StreamInv' /\ pc' = pc
    BY <1>1, <1>4, CutStep
  <2>2. CASE GraceElapses
    BY <1>1, <1>2, <1>4, <2>1, <2>2, Together DEF GraceElapses, P!GraceElapses, TypeOK, Accepted
  <2>3. CASE Exit
    <3>1. main = "closed"
      BY <2>3 DEF Exit, P!Exit
    <3>2. query \in Calls /\ rpc[query] # "unsent" /\ (rpc[query] = "ended" => drainer # "done")
      BY <1>1, <1>4 DEF Accepted, Calls, TypeOK
    <3>3. ~NoneSent /\ ~(drainer = "done" /\ P!NoHandlerRuns)
      <4>1. rpc[query] \in {"unsent", "running", "ended"}
        BY <1>1, <3>2 DEF ProcessInv, P!TypeOK
      <4> QED
        BY <3>2, <4>1 DEF NoneSent, P!NoHandlerRuns, P!Running
    <3>4. forced \/ failure = "accept"
      BY <1>1, <3>1, <3>3 DEF ProcessInv, Over
    <3> QED
      BY <1>1, <1>2, <1>4, <2>1, <3>4, Together DEF Kept, TypeOK, Accepted
  <2> QED
    BY <2>2, <2>3
<1> QED
  BY <1>2, <1>3, <1>4 DEF Break

\* A call is accepted: a stream has not begun.
LEMMA CallStep ==
  ASSUME IInv, NEW r \in Calls, Call(r)
  PROVE  IInv'
<1>1. ProcessInv /\ StreamInv /\ TypeOK
  BY DEF IInv
<1>2. ProcessInv' /\ Kept
  BY <1>1, AcceptStep DEF Call
<1>3. StreamInv' /\ pc' = pc /\ outcome' = outcome
  BY <1>1, StreamUnchanged DEF Call
<1>4. rpc[r] = "unsent" /\ rpc' = [rpc EXCEPT ![r] = "running"]
  BY DEF Call, P!Accept
<1>5. rpc \in [Calls -> {"unsent", "running", "ended"}]
  BY <1>1 DEF ProcessInv, P!TypeOK
<1>6. (rpc'[query] = "unsent" => rpc[query] = "unsent")
      /\ (rpc'[query] = "ended" <=> rpc[query] = "ended")
  BY <1>4, <1>5 DEF Calls
<1> QED
  BY <1>1, <1>2, <1>3, <1>6, Together DEF TypeOK

\* Another call ends.
LEMMA ReturnStep ==
  ASSUME IInv, NEW r \in Calls, Return(r)
  PROVE  IInv'
<1>1. ProcessInv /\ StreamInv /\ TypeOK
  BY DEF IInv
<1>2. ProcessInv' /\ Kept
  BY <1>1, FinishStep DEF Return
<1>3. StreamInv' /\ pc' = pc /\ outcome' = outcome
  BY <1>1, StreamUnchanged DEF Return
<1>4. r # query /\ rpc' = [rpc EXCEPT ![r] = "ended"]
  BY DEF Return, P!Finish
<1>5. rpc \in [Calls -> {"unsent", "running", "ended"}]
  BY <1>1 DEF ProcessInv, P!TypeOK
<1>6. rpc'[query] = rpc[query]
  BY <1>4, <1>5 DEF Calls
<1> QED
  BY <1>1, <1>2, <1>3, <1>6, Together DEF TypeOK

\* The stream's handler steps, and if it returns the call has ended.
LEMMA HandlerStep ==
  ASSUME IInv, Handler
  PROVE  IInv'
<1>1. ProcessInv /\ StreamInv /\ TypeOK
  BY DEF IInv
<1>2. StreamInv' /\ outcome' = outcome
  BY <1>1, QueryStep, SendHeaderStep, NextBatchStep, SendBatchStep DEF Handler, Q!Handler
<1>3. /\ query \in Calls /\ rpc[query] = "running"
      /\ rpc \in [Calls -> {"unsent", "running", "ended"}]
  BY <1>1 DEF Handler, P!Running, Calls, ProcessInv, P!TypeOK
<1>4. CASE pc' = "done" /\ P!Finish(query)
  <2>1. ProcessInv' /\ Kept
    BY <1>1, <1>3, <1>4, FinishStep
  <2>2. rpc'[query] = "ended"
    BY <1>3, <1>4 DEF P!Finish
  <2> QED
    BY <1>2, <1>4, <2>1, <2>2, Together
<1>5. CASE pc' # "done" /\ UNCHANGED processVars
  <2>1. ProcessInv' /\ Kept
    BY <1>1, <1>5, ProcessUnchanged
  <2>2. rpc'[query] = "running"
    BY <1>3, <1>5 DEF processVars
  <2> QED
    BY <1>2, <1>5, <2>1, <2>2, Together
<1> QED
  BY <1>4, <1>5 DEF Handler

\* The client of the stream reads on, or gives up.
LEMMA ClientStep ==
  ASSUME IInv, Receive \/ Cancel
  PROVE  IInv'
<1>1. ProcessInv /\ StreamInv /\ TypeOK
  BY DEF IInv
<1>2. ProcessInv' /\ Kept /\ rpc' = rpc /\ rpc[query] # "unsent"
  BY <1>1, ProcessUnchanged DEF Receive, Cancel, processVars, Accepted
<1>3. CASE Q!Receive
  <2>1. StreamInv' /\ outcome' = outcome /\ pc' = pc
    BY <1>1, <1>3, ReceiveStep DEF Q!Receive, Q!handlerVars
  <2> QED
    BY <1>1, <1>2, <2>1, Together DEF TypeOK
<1>4. CASE Q!ReceiveStatus
  <2>1. StreamInv' /\ outcome' # "unavailable" /\ pc' = pc
    BY <1>1, <1>4, ReceiveStatusStep DEF Q!ReceiveStatus, Q!handlerVars
  <2> QED
    BY <1>1, <1>2, <2>1, Together DEF TypeOK
<1>5. CASE Q!Cancel
  <2>1. StreamInv' /\ outcome' = "cancelled" /\ pc' = pc
    BY <1>1, <1>5, CutStep DEF Q!Cancel
  <2> QED
    BY <1>1, <1>2, <2>1, Together DEF TypeOK
<1> QED
  BY <1>3, <1>4, <1>5 DEF Receive, Cancel

\* Every step.
LEMMA NextInv ==
  ASSUME IInv, [Next]_vars
  PROVE  IInv'
<1>1. CASE UNCHANGED vars
  <2>1. UNCHANGED processVars /\ UNCHANGED streamVars
    BY <1>1 DEF vars, processVars, streamVars
  <2>2. /\ ProcessInv' /\ Kept /\ StreamInv' /\ rpc' = rpc /\ pc' = pc /\ outcome' = outcome
    BY <2>1, ProcessUnchanged, StreamUnchanged DEF IInv, processVars
  <2> QED
    BY <2>2, Together DEF IInv, TypeOK
<1> QED
  BY <1>1, ProcessStep, BreakStep, CallStep, ReturnStep, HandlerStep, ClientStep
     DEF Next, Terminating

-----------------------------------------------------------------------------
(* The theorems.                                                           *)

\* In every reachable state the process and the stream are as described.
THEOREM Invariance == Spec => []IInv
<1>1. Init => IInv
  <2> SUFFICES ASSUME Init PROVE IInv
    OBVIOUS
  <2>1. ProcessInv
    <3>1. /\ notified \in BOOLEAN /\ pending \in BOOLEAN /\ stopping \in BOOLEAN
          /\ stopped \in BOOLEAN /\ forced \in BOOLEAN /\ ~notified /\ ~stopped
      BY Zenon DEF Init, P!Init
    <3>2. rpc = [r \in Calls |-> "unsent"]
      BY DEF Init, P!Init
    <3>3. NoneSent /\ rpc \in [Calls -> {"unsent", "running", "ended"}]
      BY <3>2 DEF NoneSent
    <3> QED
      BY <3>1, <3>3 DEF Init, P!Init, ProcessInv, P!TypeOK, Early, Once, Quiet, Over
  <2>2. StreamInv
    <3>1. cancelled \in BOOLEAN
      BY Zenon DEF Init, Q!Init
    <3> QED
      BY <3>1, StreamAssumption DEF Init, Q!Init, Q!Statuses, StreamInv, Q!TypeOK, Begun, InOrder,
         Progress, Told
  <2>3. rpc[query] = "unsent"
    BY DEF Init, P!Init, Calls
  <2>4. TypeOK /\ OnlyForceBreaksStreams
    BY <2>1, <2>2, <2>3 DEF Init, Q!Init, ProcessInv, StreamInv, TypeOK, OnlyForceBreaksStreams
  <2> QED
    BY <2>1, <2>2, <2>4 DEF IInv
<1> QED
  BY <1>1, NextInv, PTL DEF Spec

\* The process and the stream keep their types, and a stream runs while its call
\* does.
THEOREM TypeCorrectness == Spec => []TypeOK
<1>1. IInv => TypeOK
  BY DEF IInv
<1> QED
  BY <1>1, Invariance, PTL

\* Without force, and unless the listener broke, the backend is closed under no
\* handler and with no result open.
THEOREM BackendIsClosedLast == Spec => []ClosedWhenQuiet
<1>1. IInv => ClosedWhenQuiet
  <2> SUFFICES ASSUME IInv, backend = "closed", ~forced, failure # "accept"
               PROVE  P!NoHandlerRuns /\ reader # "open"
    BY DEF ClosedWhenQuiet
  <2>1. NoneSent \/ P!NoHandlerRuns
    BY DEF IInv, ProcessInv, Once, Over
  <2>2. P!NoHandlerRuns
    BY <2>1 DEF NoneSent, P!NoHandlerRuns, P!Running
  <2>3. rpc[query] \in {"unsent", "running", "ended"} /\ rpc[query] # "running"
    BY <2>2 DEF P!NoHandlerRuns, P!Running, Calls, IInv, ProcessInv, P!TypeOK
  <2>4. pc \in {"query", "done"}
    BY <2>3 DEF IInv, TypeOK
  <2> QED
    BY <2>2, <2>4 DEF IInv, StreamInv, Begun
<1> QED
  BY <1>1, Invariance, PTL

\* A client that is told OK holds the header and every batch, in order.
THEOREM AnswersAreWhole == Spec => []OkIsComplete
<1>1. IInv => OkIsComplete
  <2> SUFFICES ASSUME IInv, outcome = "OK"
               PROVE  /\ Len(received) = total + 1
                      /\ \A i \in 1 .. total + 1 : received[i] = i - 1
    BY DEF OkIsComplete
  <2>1. ~cancelled /\ pc = "done" /\ wire = <<>> /\ status = "OK"
    BY DEF IInv, StreamInv, Told
  <2>2. Len(wire) = 0 /\ received \in Seq(Q!Messages)
    BY <2>1 DEF IInv, StreamInv, Q!TypeOK
  <2>3. Len(received) = total + 1
    BY <2>1, <2>2 DEF IInv, StreamInv, Progress
  <2> QED
    BY <2>1, <2>3 DEF IInv, StreamInv, InOrder
<1> QED
  BY <1>1, Invariance, PTL

\* A stream breaks under its client only if the grace ran out or the listener
\* broke.
THEOREM GracefulStopsBreakNothing == Spec => []OnlyForceBreaksStreams
<1>1. IInv => OnlyForceBreaksStreams
  BY DEF IInv
<1> QED
  BY <1>1, Invariance, PTL
=============================================================================
