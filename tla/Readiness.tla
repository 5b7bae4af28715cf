----------------------------- MODULE Readiness -----------------------------
(***************************************************************************)
(* WaitForReady and probeGateway of runtime.go: the agent polls a gateway  *)
(* container that is coming up until one attempt finds its health service  *)
(* serving and its credential accepted, within one overall budget.         *)
(*                                                                         *)
(* Time is counted in units; code between two waits takes none. An attempt *)
(* is two calls, health then Capabilities, under one deadline that is      *)
(* never later than the budget, and all attempts share one connection. The *)
(* gateway is the environment: it may be down (it refuses connections),    *)
(* hung (it answers nothing), starting (its health service answers, and    *)
(* not with SERVING), or up, and it changes at any time.                   *)
(*                                                                         *)
(* The connection is grpc's (external; NewClient is given no options about *)
(* it): the first call dials, and calls wait for that dial; once a dial    *)
(* failed the connection dials again by itself, after a delay that grows   *)
(* from one dial to the next, and until one succeeds calls fail at once    *)
(* without reaching the gateway (none asks to wait for ready). A           *)
(* connection that breaks is idle, and the next call dials.                *)
(***************************************************************************)
EXTENDS Integers

CONSTANTS Budget,         \* readinessBudget
          ProbeTimeout,   \* readinessProbeTimeout
          Interval,       \* readinessPollInterval
          BaseDelay, MaxDelay,   \* grpc's delays before it dials again
          ConnectTimeout         \* grpc's least time for one dial

ASSUME TimeAssumption ==
  /\ Budget \in Nat \ {0} /\ ProbeTimeout \in Nat \ {0} /\ Interval \in Nat \ {0}
  /\ Interval <= ProbeTimeout   \* 1s and 5s
ASSUME BackoffAssumption ==     \* 1s, 120s and 20s
  /\ BaseDelay \in Nat \ {0} /\ MaxDelay \in Nat \ {0} /\ ConnectTimeout \in Nat \ {0}
  /\ BaseDelay <= MaxDelay

VARIABLES now,        \* time since WaitForReady was called
          gateway,    \* "down", "hung", "starting", "up"
          accepts,    \* the gateway enforces the agent's token
          upSince,    \* since when the gateway is up and accepts the token
          pc,         \* "top", "health", "capabilities", "select", "done"
          lost,       \* the outstanding call was sent to a hung gateway
          conn,       \* "idle", "connecting", "ready", "backoff", "redialling"
          dialLost,   \* the dial in flight was sent to a hung gateway
          scale,      \* the delay before the next dial, before it is randomized
          delay,      \* the same, randomized
          until,      \* when the dial is given up, or the delay over
          trouble,    \* the worst a dial has met: "none", "refused", "stalled"
          deadline,   \* when the attempt's context expires
          tick,       \* the ticker's channel holds a tick
          nextTick,   \* when the ticker fires next
          cancelled,  \* the host gave up on the request
          result      \* "none", "ready", "rejected", "notReady"

connection == <<conn, dialLost, scale, delay, until, trouble>>
vars == <<now, gateway, accepts, upSince, pc, lost, connection, deadline, tick, nextTick,
          cancelled, result>>
environment == <<now, gateway, accepts, upSince, tick, nextTick, cancelled>>

Gateways == {"down", "hung", "starting", "up"}
Results  == {"none", "ready", "rejected", "notReady"}

Dialling == {"connecting", "redialling"}
Failing  == {"backoff", "redialling"}   \* TRANSIENT_FAILURE: calls fail at once

Times == 0 .. Budget + ProbeTimeout + Interval

TypeOK ==
  /\ now \in Times /\ deadline \in 0 .. Budget /\ nextTick \in Times
  /\ upSince \in Times \cup {-1}
  /\ gateway \in Gateways /\ accepts \in BOOLEAN
  /\ pc \in {"top", "health", "capabilities", "select", "done"}
  /\ conn \in {"idle", "ready"} \cup Dialling \cup Failing
  /\ dialLost \in BOOLEAN /\ (dialLost => conn \in Dialling)
  /\ scale \in BaseDelay .. MaxDelay /\ delay \in Nat /\ until \in Nat
  /\ trouble \in {"none", "refused", "stalled"}
  /\ conn \in Failing => trouble # "none"
  /\ lost \in BOOLEAN /\ tick \in BOOLEAN /\ cancelled \in BOOLEAN
  /\ result \in Results

\* upSince when the gateway is g and accepts is a, from now on.
UpSince(g, a) ==
  IF g = "up" /\ a THEN (IF upSince = -1 THEN now ELSE upSince) ELSE -1

Init ==
  /\ now = 0
  /\ gateway \in Gateways /\ accepts \in BOOLEAN
  /\ upSince = IF gateway = "up" /\ accepts THEN 0 ELSE -1
  /\ pc = "top" /\ lost = FALSE /\ deadline = 0
  /\ conn = "idle" /\ dialLost = FALSE
  /\ scale = BaseDelay /\ delay = 0 /\ until = 0 /\ trouble = "none"
  /\ tick = FALSE /\ nextTick = Interval
  /\ cancelled = FALSE
  /\ result = "none"

-----------------------------------------------------------------------------
Return(r) == pc' = "done" /\ result' = r

\* budget.Err() # nil: the budget's context is derived from the request's.
Expired == now >= Budget \/ cancelled

\* The attempt's context has ended.
AttemptOver == now >= deadline \/ cancelled

LesserOf(a, b)  == IF a < b THEN a ELSE b
GreaterOf(a, b) == IF a > b THEN a ELSE b

\* When an attempt that starts now is cut off: its context is derived from the
\* budget's.
FullTimeout == now + ProbeTimeout   \* mutation: it does not know the budget
NoTimeout   == Budget               \* mutation: no deadline of its own
AttemptDeadline == LesserOf(now + ProbeTimeout, Budget)

\* The top of the loop.
StartAttempt ==
  /\ pc = "top"
  /\ \/ Expired /\ Return("notReady") /\ UNCHANGED <<deadline, lost>>
     \/ /\ ~Expired
        /\ pc' = "health"
        /\ deadline' = AttemptDeadline
        /\ lost' = FALSE
        /\ UNCHANGED result
  /\ UNCHANGED <<environment, connection>>

Calling == pc \in {"health", "capabilities"}

\* The outstanding call is answered by a gateway that is not hung. A call sent
\* to a hung gateway may be answered late or never.
Answered == conn = "ready" /\ gateway # "hung" /\ ~AttemptOver

Health ==
  /\ pc = "health"
  /\ Answered
  /\ pc' = IF gateway = "up" THEN "capabilities" ELSE "select"
  /\ lost' = FALSE
  /\ UNCHANGED <<environment, connection, deadline, result>>

\* The gateway hangs between the two calls of an attempt, or between sending
\* and answering.
LoseCall ==
  /\ Calling /\ conn = "ready"
  /\ gateway = "hung" /\ ~lost
  /\ lost' = TRUE
  /\ UNCHANGED <<environment, connection, pc, deadline, result>>

\* Unauthenticated ends the wait: retrying cannot change the answer.
Capabilities ==
  /\ pc = "capabilities"
  /\ Answered
  /\ Return(IF accepts THEN "ready" ELSE "rejected")
  /\ lost' = FALSE
  /\ UNCHANGED <<environment, connection, deadline>>

NeverFails == FALSE   \* mutation of CallFails: the calls ignore the context

\* The attempt's deadline ends a call that is not answered.
CallFails ==
  /\ Calling /\ AttemptOver
  /\ pc' = "select" /\ lost' = FALSE
  /\ UNCHANGED <<environment, connection, deadline, result>>

\* The connection is failing: so does the call, at once.
FailFast ==
  /\ Calling /\ conn \in Failing
  /\ pc' = "select"
  /\ UNCHANGED <<environment, connection, deadline, lost, result>>

\* The select at the end of the loop: whichever is ready, either when both are.
Select ==
  /\ pc = "select"
  /\ \/ Expired /\ Return("notReady") /\ UNCHANGED tick
     \/ tick /\ tick' = FALSE /\ pc' = "top" /\ UNCHANGED result
  /\ UNCHANGED <<now, gateway, accepts, upSince, nextTick, cancelled, lost, connection, deadline>>

-----------------------------------------------------------------------------
(* The connection.                                                         *)

\* The delays grpc may draw for a scale: at random within a fifth of it, but for
\* the first.
Delays(s) == IF s = BaseDelay THEN {s} ELSE {d \in 1 .. 2 * s : 4 * s <= 5 * d /\ 5 * d <= 6 * s}

\* From one dial to the next the scale grows by 1.6.
Grown(s) == LesserOf(MaxDelay, (8 * s) \div 5)

\* A dial gets as long as the delay that follows it, and ConnectTimeout at least.
Dial(state, s) ==
  /\ conn' = state /\ scale' = s /\ dialLost' = FALSE
  /\ \E d \in Delays(s) : delay' = d /\ until' = now + GreaterOf(ConnectTimeout, d)
  /\ UNCHANGED trouble

\* A call finds the connection idle.
FirstDial == Calling /\ ~AttemptOver /\ conn = "idle" /\ Dial("connecting", BaseDelay)

Redial == conn = "backoff" /\ now >= until /\ Dial("redialling", Grown(scale))

\* Back at rest, where the delays start over.
Rest(state) ==
  /\ conn' = state /\ dialLost' = FALSE
  /\ scale' = BaseDelay /\ delay' = 0 /\ until' = 0
  /\ UNCHANGED trouble

Connected ==
  /\ conn \in Dialling /\ now < until /\ gateway \in {"starting", "up"}
  /\ Rest("ready")

DialFails ==
  /\ conn \in Dialling
  /\ gateway = "down" \/ now >= until
  /\ conn' = "backoff" /\ dialLost' = FALSE /\ until' = now + delay
  /\ trouble' = IF trouble = "stalled" THEN "stalled" ELSE "refused"
  /\ UNCHANGED <<scale, delay>>

\* The gateway hangs with the dial in flight, which it may answer late or never.
LoseDial ==
  /\ conn \in Dialling /\ gateway = "hung" /\ ~dialLost
  /\ dialLost' = TRUE /\ trouble' = "stalled"
  /\ UNCHANGED <<conn, scale, delay, until>>

\* conn.Close() ends it with the wait.
Transport ==
  /\ pc # "done"
  /\ FirstDial \/ Redial \/ Connected \/ DialFails
  /\ UNCHANGED <<environment, pc, lost, deadline, result>>

DialIsLost ==
  /\ pc # "done" /\ LoseDial
  /\ UNCHANGED <<environment, pc, lost, deadline, result>>

-----------------------------------------------------------------------------
(* The environment.                                                        *)

\* A gateway that goes down takes the connection with it, and the call on it.
Break ==
  /\ Rest("idle") /\ lost' = FALSE
  /\ pc' = IF Calling THEN "select" ELSE pc

GatewayChanges ==
  /\ pc # "done"
  /\ \E g \in Gateways, a \in BOOLEAN :
       /\ <<g, a>> # <<gateway, accepts>>
       /\ gateway' = g /\ accepts' = a /\ upSince' = UpSince(g, a)
       /\ IF g = "down" /\ conn = "ready" THEN Break ELSE UNCHANGED <<connection, pc, lost>>
  /\ UNCHANGED <<now, deadline, tick, nextTick, cancelled, result>>

HostCancels ==
  /\ pc # "done" /\ ~cancelled
  /\ cancelled' = TRUE
  /\ UNCHANGED <<now, gateway, accepts, upSince, pc, lost, connection, deadline, tick, nextTick, result>>

\* Time passes while the code waits, for a dial, for an answer that is not there
\* yet, or for the next tick, and nothing is due on the connection.
Waiting ==
  \/ /\ Calling /\ ~AttemptOver
     /\ \/ conn = "connecting"
        \/ conn = "ready" /\ (gateway = "hung" \/ lost)
  \/ pc = "select" /\ ~Expired /\ ~tick

Due ==
  \/ conn \in Dialling /\ (now >= until \/ ~(gateway = "hung" \/ dialLost))
  \/ conn = "backoff" /\ now >= until

PassTime ==
  /\ Waiting /\ ~Due
  /\ now' = now + 1
  /\ IF now + 1 = nextTick
       THEN tick' = TRUE /\ nextTick' = nextTick + Interval
       ELSE UNCHANGED <<tick, nextTick>>
  /\ UNCHANGED <<gateway, accepts, upSince, pc, lost, connection, deadline, cancelled, result>>

Code == StartAttempt \/ Health \/ Capabilities \/ CallFails \/ FailFast \/ Select

Next == Code \/ Transport \/ LoseCall \/ DialIsLost \/ GatewayChanges \/ HostCancels \/ PassTime

Done == pc = "done" /\ UNCHANGED vars

\* The goroutines are scheduled and time passes. The gateway owes nothing.
Fairness == WF_vars(Code \/ Transport \/ PassTime)

Spec == Init /\ [][Next \/ Done]_vars
FairSpec == Spec /\ Fairness

-----------------------------------------------------------------------------
(* Properties.                                                             *)

\* A slow attempt spends the budget instead of extending it: the wait is never
\* still going on past the budget, however the gateway answers.
WithinBudget == now <= Budget

\* No delay after a dial of the time t or before is longer than that and the first
\* delay: a scale is 1.6 times the one before, and the longest delay of a scale
\* half as long again as the shortest.
LongestDelay(t) == t + BaseDelay

\* For how long a connection may keep calls from a gateway that is up since t, by
\* what its dials have met.
OutageAfter(met, t) ==
  CASE met = "none"    -> 0
    [] met = "refused" -> LongestDelay(t)
    [] met = "stalled" -> LongestDelay(t) + GreaterOf(ConnectTimeout, LongestDelay(t))
Outage(t) == OutageAfter(trouble, t)

\* A gateway that is up and accepting is reported as not ready only if it has been
\* so for no longer than one attempt may take, or than the connection was failing
\* and one interval: if dials were refused, it was failing for no longer than the
\* gateway took to come up, and a second; if one hung, for the time of one more.
\* Whatever the attempts before met, one more was due then and made before the
\* budget ran out (runtime.go:260, 277-297).
ReadyIsSeen ==
  result = "notReady" /\ ~cancelled /\ upSince # -1 =>
    now - upSince <= GreaterOf(ProbeTimeout, Outage(upSince) + Interval)

\* The wait ends, and if its host gives up it ends without further delay,
\* whatever it is blocked on, a call to a hung gateway included (runtime.go:271,
\* 283, 293-297).
WaitEnds == <>(pc = "done") /\ [][cancelled => now' = now]_vars
=============================================================================
