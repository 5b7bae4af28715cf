-------------------------- MODULE Readiness_proofs --------------------------
(***************************************************************************)
(* The wait for a gateway keeps its budget and overlooks no gateway that   *)
(* was ready long enough, for every budget, attempt timeout, poll interval *)
(* and delays of the connection, with the interval within the timeout, and *)
(* for every behaviour of the gateway.                                     *)
(*                                                                         *)
(* The argument: an attempt ends by its deadline, and by then either a     *)
(* tick is waiting, so that the next attempt starts at once, or the budget *)
(* is spent (TicksAreDue). The scale of the delays is within what has      *)
(* passed since the first of them (Backoff), so that a connection which    *)
(* misses a gateway that came up tries again within its Outage (Regained). *)
(* From then on the gateway is met by an attempt within one interval, or   *)
(* within ProbeTimeout if the attempt lost its call (Recent).              *)
(***************************************************************************)
EXTENDS Readiness, TLAPS

\* The clocks: the budget, the deadline of an attempt, the ticker.
Clocks ==
  /\ now \in Nat /\ now <= Budget
  /\ deadline \in Nat /\ deadline <= Budget
  /\ nextTick \in Nat /\ now < nextTick /\ nextTick <= now + Interval
  /\ Calling => now <= deadline /\ deadline <= now + ProbeTimeout

\* An attempt is overtaken by a tick, or by the end of the budget.
TicksAreDue == Calling => tick \/ nextTick <= deadline \/ deadline = Budget

\* What upSince says of the gateway.
UpSinceIsTrue ==
  /\ upSince \in Nat \cup {-1} /\ upSince <= now
  /\ upSince # -1 => gateway = "up" /\ accepts

\* The wait has a result once it is over.
ResultIsLast == (pc = "done") <=> (result # "none")

\* A call is lost on a connection that is there.
LostOnReady == lost => Calling /\ conn = "ready"

\* A scale at time t is no longer than the delays before it have added up to.
Reached(s, t) == s = BaseDelay \/ 20 * s <= 15 * t + 17 * BaseDelay

\* A delay d was drawn for the scale s.
Drawn(d, s) == IF s = BaseDelay THEN d = BaseDelay ELSE 4 * s <= 5 * d

\* When the dial in flight was made.
Dialled == until - GreaterOf(ConnectTimeout, delay)

\* The clocks of the connection: a delay is within what had passed when its dial
\* was made, and the first delay.
Backoff ==
  /\ scale \in Nat /\ BaseDelay <= scale
  /\ conn \in Dialling =>
       /\ Drawn(delay, scale)
       /\ 0 <= Dialled /\ Dialled <= now /\ now <= until
       /\ delay <= Dialled + BaseDelay /\ Reached(scale, Dialled)
  /\ conn = "backoff" =>
       /\ Drawn(delay, scale)
       /\ delay <= until /\ until <= now + delay /\ now <= until
       /\ delay <= until - delay + BaseDelay /\ Reached(scale, until - delay)

\* When a connection that misses the gateway tries again.
Cut == conn = "backoff" \/ dialLost
NextDial == IF conn = "backoff" THEN until ELSE until + delay

\* A connection that misses a gateway which is up tries again within its Outage,
\* and one that does not gives it up no more.
Regained ==
  /\ dialLost => trouble = "stalled"
  /\ upSince # -1 =>
       /\ Cut => NextDial - upSince <= Outage(upSince)
       /\ conn \in Dialling /\ ~dialLost => now < until \/ upSince = now
       /\ conn = "redialling" /\ ~dialLost => now - upSince <= Outage(upSince)

\* For how long a gateway may have been up and not met.
Overlooked == GreaterOf(ProbeTimeout, Outage(upSince) + Interval)

\* A gateway that is up and accepting, and was not met yet by a connection that
\* does not miss it, has been so for no longer than that, and will not have been
\* when the next attempt starts.
Recent ==
  ~cancelled /\ upSince # -1 =>
    /\ ~Cut =>
         /\ pc = "top" => now - upSince <= Overlooked
         /\ Calling /\ ~lost => now - upSince <= Overlooked
         /\ Calling /\ lost => deadline - upSince <= Overlooked
         /\ pc = "select" =>
              /\ now - upSince <= Overlooked
              /\ tick \/ now >= Budget \/ nextTick - upSince <= Overlooked
    /\ result = "notReady" => now - upSince <= Overlooked

IInv ==
  /\ TypeOK /\ Clocks /\ TicksAreDue /\ UpSinceIsTrue /\ ResultIsLast
  /\ LostOnReady /\ Backoff /\ Regained /\ Recent

-----------------------------------------------------------------------------
(* What the lemmas below need of the operators.                            *)

\* The times a connection may miss a gateway are in the order of what it met.
LEMMA Outages ==
  ASSUME NEW t \in Nat
  PROVE  /\ OutageAfter("none", t) = 0
         /\ OutageAfter("refused", t) = t + BaseDelay
         /\ OutageAfter("stalled", t) >= t + BaseDelay + ConnectTimeout
         /\ OutageAfter("stalled", t) >= 2 * (t + BaseDelay)
         /\ OutageAfter("stalled", t) \in Nat
<1>1. OutageAfter("none", t) = 0 /\ OutageAfter("refused", t) = t + BaseDelay
  BY DEF OutageAfter, LongestDelay
<1>2. OutageAfter("stalled", t) = t + BaseDelay + GreaterOf(ConnectTimeout, t + BaseDelay)
  BY DEF OutageAfter, LongestDelay
<1> QED
  BY <1>1, <1>2, BackoffAssumption DEF GreaterOf

\* A delay is within half as much again of the shortest one of its scale, and the
\* scale grows by 1.6 at most: what a delay adds to the time since the first one
\* is what the next may be longer.
LEMMA DelaysAreReached ==
  ASSUME NEW s \in Nat, BaseDelay <= s, NEW t \in Nat, Reached(s, t),
         s = BaseDelay \/ BaseDelay <= 2 * t, NEW d \in Delays(s)
  PROVE  d \in Nat /\ d >= 1 /\ Drawn(d, s) /\ d <= t + BaseDelay
BY BackoffAssumption DEF Delays, Reached, Drawn

LEMMA GrownIsReached ==
  ASSUME NEW s \in Nat, BaseDelay <= s, NEW t \in Nat, NEW d \in Nat,
         Reached(s, t), Drawn(d, s)
  PROVE  /\ Grown(s) \in Nat /\ BaseDelay <= Grown(s) /\ Grown(s) <= MaxDelay
         /\ Reached(Grown(s), t + d) /\ BaseDelay <= 2 * (t + d)
<1>1. (8 * s) \div 5 \in Nat /\ s <= (8 * s) \div 5 /\ 5 * ((8 * s) \div 5) <= 8 * s
  BY SMT
<1>2. /\ Grown(s) \in Nat /\ BaseDelay <= Grown(s) /\ Grown(s) <= MaxDelay
      /\ 5 * Grown(s) <= 8 * s
  BY <1>1, BackoffAssumption DEF Grown, LesserOf
<1>3. 20 * Grown(s) <= 32 * s
  BY <1>2
<1>4. 32 * s <= 15 * (t + d) + 17 * BaseDelay
  <2>1. CASE s = BaseDelay
    BY <2>1, BackoffAssumption DEF Drawn
  <2>2. CASE s # BaseDelay
    <3>1. 20 * s <= 15 * t + 17 * BaseDelay /\ 12 * s <= 15 * d
      BY <2>2 DEF Reached, Drawn
    <3> QED
      BY <3>1, BackoffAssumption
  <2> QED
    BY <2>1, <2>2
<1>5. 4 * BaseDelay <= 5 * d
  BY BackoffAssumption DEF Drawn
<1> QED
  BY <1>2, <1>3, <1>4, <1>5, BackoffAssumption DEF Reached

\* While a gateway is up, the bound is a time, and holds the two it is made of.
LEMMA Bounds ==
  ASSUME NEW met \in {"none", "refused", "stalled"}, NEW t \in Nat
  PROVE  LET outage == OutageAfter(met, t)
             bound  == GreaterOf(ProbeTimeout, outage + Interval)
         IN  /\ outage \in Nat /\ bound \in Nat
             /\ ProbeTimeout <= bound /\ outage + Interval <= bound
<1>1. OutageAfter(met, t) \in Nat
  BY Outages, BackoffAssumption
<1> QED
  BY <1>1, TimeAssumption DEF GreaterOf

LEMMA OverlookedBounds ==
  ASSUME TypeOK, UpSinceIsTrue, upSince # -1
  PROVE  /\ upSince \in Nat /\ Outage(upSince) \in Nat /\ Overlooked \in Nat
         /\ ProbeTimeout <= Overlooked /\ Outage(upSince) + Interval <= Overlooked
<1>1. upSince \in Nat /\ trouble \in {"none", "refused", "stalled"}
  BY DEF TypeOK, UpSinceIsTrue
<1> QED
  BY <1>1, Bounds DEF Overlooked, Outage

-----------------------------------------------------------------------------
(* The steps of the code leave the connection alone.                       *)

LEMMA ConnectionKept ==
  ASSUME IInv, UNCHANGED <<environment, connection>>
  PROVE  /\ Backoff' /\ Regained' /\ UpSinceIsTrue'
         /\ Cut' = Cut /\ Overlooked' = Overlooked
BY DEF environment, connection, IInv, Backoff, Dialled, Reached, Drawn, Regained, Cut, NextDial, Outage,
   UpSinceIsTrue, Overlooked

\* The top of the loop: an attempt starts, and a tick is due within it unless
\* it is cut off by the budget.
LEMMA StartAttemptStep ==
  ASSUME IInv, StartAttempt
  PROVE  IInv'
<1>1. /\ pc = "top" /\ UNCHANGED <<environment, connection>> /\ result = "none" /\ ~lost
  BY DEF StartAttempt, IInv, ResultIsLast, LostOnReady, Calling
<1>2. Backoff' /\ Regained' /\ UpSinceIsTrue' /\ Cut' = Cut /\ Overlooked' = Overlooked
  BY <1>1, ConnectionKept
<1>3. CASE Expired /\ Return("notReady") /\ UNCHANGED <<deadline, lost>>
  <2>1. TypeOK' /\ Clocks' /\ TicksAreDue' /\ ResultIsLast' /\ LostOnReady'
    BY <1>1, <1>3 DEF Return, environment, connection, Results,
       IInv, TypeOK, Clocks, TicksAreDue, ResultIsLast, LostOnReady, Calling
  <2>2. ~cancelled /\ upSince # -1 => now - upSince <= Overlooked
    BY <1>1, OverlookedBounds, TimeAssumption
       DEF IInv, Clocks, Regained, Recent, Cut, NextDial, Backoff, TypeOK
  <2>3. Recent'
    BY <1>1, <1>2, <1>3, <2>2 DEF Return, environment, Recent, Calling
  <2> QED
    BY <1>2, <2>1, <2>3 DEF IInv
<1>4. CASE /\ ~Expired /\ pc' = "health" /\ deadline' = AttemptDeadline
           /\ lost' = FALSE /\ UNCHANGED result
  <2>1. /\ AttemptDeadline \in Nat /\ now <= AttemptDeadline /\ AttemptDeadline <= Budget
        /\ AttemptDeadline <= now + ProbeTimeout
        /\ nextTick <= AttemptDeadline \/ AttemptDeadline = Budget
    BY <1>4, TimeAssumption DEF IInv, Clocks, AttemptDeadline, LesserOf, Expired
  <2>2. /\ deadline' \in Nat /\ now <= deadline' /\ deadline' <= Budget
        /\ deadline' <= now + ProbeTimeout /\ (nextTick <= deadline' \/ deadline' = Budget)
    BY <1>4, <2>1
  <2>3. TypeOK'
    <3>1. deadline' \in 0 .. Budget
      BY <2>2, TimeAssumption
    <3> QED
      BY <1>1, <1>4, <3>1 DEF environment, connection, IInv, TypeOK
  <2>4. Clocks' /\ TicksAreDue' /\ ResultIsLast' /\ LostOnReady'
    BY <1>1, <1>4, <2>2 DEF environment, connection,
       IInv, Clocks, TicksAreDue, ResultIsLast, LostOnReady, Calling
  <2>5. Recent'
    BY <1>1, <1>2, <1>4 DEF environment, IInv, ResultIsLast, Recent, Calling
  <2> QED
    BY <1>2, <2>3, <2>4, <2>5 DEF IInv
<1> QED
  BY <1>3, <1>4 DEF StartAttempt

\* An answer of the health service. An up gateway is asked on.
LEMMA HealthStep ==
  ASSUME IInv, Health
  PROVE  IInv'
<1>1. /\ pc = "health" /\ conn = "ready" /\ now < deadline /\ result = "none"
      /\ UNCHANGED <<environment, connection, deadline, result>>
      /\ pc' = (IF gateway = "up" THEN "capabilities" ELSE "select") /\ lost' = FALSE
  BY DEF Health, Answered, AttemptOver, IInv, Clocks, ResultIsLast
<1>2. Backoff' /\ Regained' /\ UpSinceIsTrue' /\ Cut' = Cut /\ Overlooked' = Overlooked
  BY <1>1, ConnectionKept
<1>3. TypeOK' /\ Clocks' /\ TicksAreDue' /\ ResultIsLast' /\ LostOnReady'
  BY <1>1 DEF environment, connection, IInv, TypeOK, Clocks, TicksAreDue, ResultIsLast,
     LostOnReady, Calling
<1>4. Recent'
  <2> SUFFICES ASSUME ~cancelled, upSince # -1, ~Cut
               PROVE  now - upSince <= Overlooked /\ pc' = "capabilities" /\ ~lost'
    BY <1>1, <1>2 DEF environment, Recent, Calling
  <2>1. gateway = "up"
    BY DEF IInv, UpSinceIsTrue
  <2>2. now - upSince <= Overlooked \/ deadline - upSince <= Overlooked
    BY <1>1 DEF IInv, Recent, Calling
  <2> QED
    BY <1>1, <2>1, <2>2, OverlookedBounds DEF IInv, Clocks
<1> QED
  BY <1>2, <1>3, <1>4 DEF IInv

\* A call is lost to a hung gateway, which is not up.
LEMMA LoseCallStep ==
  ASSUME IInv, LoseCall
  PROVE  IInv'
<1>1. UNCHANGED <<environment, connection, pc, deadline, result>> /\ lost' = TRUE
  BY DEF LoseCall
<1>2. Calling /\ conn = "ready" /\ upSince = -1
  BY DEF LoseCall, IInv, UpSinceIsTrue
<1>3. Backoff' /\ Regained' /\ UpSinceIsTrue'
  BY <1>1, ConnectionKept
<1>4. TypeOK' /\ Clocks' /\ TicksAreDue' /\ ResultIsLast' /\ LostOnReady' /\ Recent'
  BY <1>1, <1>2 DEF environment, connection, IInv, TypeOK, Clocks, TicksAreDue, ResultIsLast,
     LostOnReady, Recent, Calling
<1> QED
  BY <1>3, <1>4 DEF IInv

\* An answer to Capabilities.
LEMMA CapabilitiesStep ==
  ASSUME IInv, Capabilities
  PROVE  IInv'
<1>1. /\ UNCHANGED <<environment, connection, deadline>> /\ lost' = FALSE
      /\ pc' = "done" /\ result' \in {"ready", "rejected"}
  BY DEF Capabilities, Return
<1>2. Backoff' /\ Regained' /\ UpSinceIsTrue'
  BY <1>1, ConnectionKept
<1>3. TypeOK' /\ Clocks' /\ TicksAreDue' /\ ResultIsLast' /\ LostOnReady' /\ Recent'
  BY <1>1 DEF environment, connection, Results, IInv, TypeOK, Clocks, TicksAreDue, ResultIsLast,
     LostOnReady, Recent, Calling
<1> QED
  BY <1>2, <1>3 DEF IInv

\* The deadline, or the host, ends an attempt: a tick is waiting, the budget is
\* spent, or the wait is cancelled.
LEMMA CallFailsStep ==
  ASSUME IInv, CallFails
  PROVE  IInv'
<1>1. /\ Calling /\ AttemptOver /\ pc' = "select" /\ lost' = FALSE
      /\ UNCHANGED <<environment, connection, deadline, result>>
  BY DEF CallFails
<1>2. Backoff' /\ Regained' /\ UpSinceIsTrue' /\ Cut' = Cut /\ Overlooked' = Overlooked
  BY <1>1, ConnectionKept
<1>3. TypeOK' /\ Clocks' /\ TicksAreDue' /\ ResultIsLast' /\ LostOnReady'
  BY <1>1 DEF environment, connection, IInv, TypeOK, Clocks, TicksAreDue, ResultIsLast,
     LostOnReady, Calling
<1>4. Recent'
  <2>1. ~cancelled => now = deadline /\ (tick \/ now >= Budget)
    BY <1>1 DEF AttemptOver, IInv, Clocks, TicksAreDue
  <2> QED
    BY <1>1, <1>2, <2>1 DEF environment, IInv, TypeOK, ResultIsLast, Recent, Calling
<1> QED
  BY <1>2, <1>3, <1>4 DEF IInv

\* A call fails on a failing connection: the next one is due within an interval.
LEMMA FailFastStep ==
  ASSUME IInv, FailFast
  PROVE  IInv'
<1>1. /\ Calling /\ conn \in Failing /\ pc' = "select"
      /\ UNCHANGED <<environment, connection, deadline, lost, result>>
  BY DEF FailFast
<1>2. Backoff' /\ Regained' /\ UpSinceIsTrue' /\ Cut' = Cut /\ Overlooked' = Overlooked
  BY <1>1, ConnectionKept
<1>3. ~lost
  BY <1>1 DEF IInv, LostOnReady, Failing
<1>4. TypeOK' /\ Clocks' /\ TicksAreDue' /\ ResultIsLast' /\ LostOnReady'
  BY <1>1, <1>3 DEF environment, connection, IInv, TypeOK, Clocks, TicksAreDue, ResultIsLast,
     LostOnReady, Calling
<1>5. Recent'
  <2> SUFFICES ASSUME ~cancelled, upSince # -1, ~Cut
               PROVE  now - upSince <= Overlooked /\ nextTick - upSince <= Overlooked
    BY <1>1, <1>2 DEF environment, IInv, ResultIsLast, Recent, Calling
  <2>1. now - upSince <= Outage(upSince)
    BY <1>1 DEF IInv, Regained, Cut, Failing
  <2> QED
    BY <2>1, OverlookedBounds, TimeAssumption DEF IInv, Clocks
<1> QED
  BY <1>2, <1>4, <1>5 DEF IInv

\* The select: the end of the wait, or the next attempt.
LEMMA SelectStep ==
  ASSUME IInv, Select
  PROVE  IInv'
<1>1. /\ pc = "select" /\ result = "none"
      /\ UNCHANGED <<now, gateway, accepts, upSince, nextTick, cancelled, lost, connection, deadline>>
      /\ \/ Expired /\ Return("notReady") /\ UNCHANGED tick
         \/ tick /\ tick' = FALSE /\ pc' = "top" /\ UNCHANGED result
  BY DEF Select, IInv, ResultIsLast
<1>2. /\ Backoff' /\ Regained' /\ UpSinceIsTrue'
      /\ Cut' = Cut /\ Overlooked' = Overlooked
  BY <1>1 DEF connection, IInv, Backoff, Dialled, Reached, Drawn, Regained, Cut, NextDial, Outage,
     UpSinceIsTrue, Overlooked
<1>3. TypeOK' /\ Clocks' /\ TicksAreDue' /\ ResultIsLast' /\ LostOnReady'
  BY <1>1 DEF Return, connection, Results, IInv, TypeOK, Clocks, TicksAreDue, ResultIsLast,
     LostOnReady, Calling
<1>4. ~cancelled /\ upSince # -1 => now - upSince <= Overlooked
  BY <1>1, OverlookedBounds, TimeAssumption
     DEF IInv, Clocks, Regained, Recent, Cut, NextDial, Backoff, TypeOK
<1>5. Recent'
  BY <1>1, <1>2, <1>4 DEF Return, IInv, Recent, Calling
<1> QED
  BY <1>2, <1>3, <1>5 DEF IInv

-----------------------------------------------------------------------------
(* The steps of the connection leave the code alone.                       *)

LEMMA CodeKept ==
  ASSUME IInv, UNCHANGED <<environment, pc, lost, deadline, result>>, conn # "ready"
  PROVE  Clocks' /\ TicksAreDue' /\ UpSinceIsTrue' /\ ResultIsLast' /\ LostOnReady' /\ ~lost
BY DEF environment, IInv, Clocks, TicksAreDue, UpSinceIsTrue, ResultIsLast, LostOnReady, Calling

\* A connection that does not miss the gateway any more, within its Outage: the
\* next attempt meets it within an interval.
LEMMA MetAgain ==
  ASSUME IInv, UNCHANGED <<environment, pc, lost, deadline, result, trouble>>,
         pc # "done", ~lost, upSince # -1 => now - upSince <= Outage(upSince)
  PROVE  Recent'
<1>1. result = "none" /\ Overlooked' = Overlooked
  BY DEF IInv, ResultIsLast, Overlooked, Outage, environment
<1>2. upSince # -1 => now - upSince <= Overlooked /\ nextTick - upSince <= Overlooked
  BY OverlookedBounds, TimeAssumption DEF IInv, Clocks
<1> QED
  BY <1>1, <1>2 DEF environment, Recent, Calling

\* A dial whose scale is reached starts its clocks.
LEMMA DialClocks ==
  ASSUME IInv, UNCHANGED environment, NEW state \in Dialling, NEW s \in Nat,
         BaseDelay <= s, s <= MaxDelay, Reached(s, now), s = BaseDelay \/ BaseDelay <= 2 * now,
         Dial(state, s)
  PROVE  /\ Backoff' /\ now < until' /\ dialLost' = FALSE /\ conn' = state /\ trouble' = trouble
         /\ scale' \in BaseDelay .. MaxDelay /\ delay' \in Nat /\ until' \in Nat
<1>1. PICK d \in Delays(s) : delay' = d /\ until' = now + GreaterOf(ConnectTimeout, d)
  BY DEF Dial
<1>2. now \in Nat /\ now' = now
  BY DEF IInv, Clocks, environment
<1>3. d \in Nat /\ d >= 1 /\ Drawn(d, s) /\ d <= now + BaseDelay
  BY <1>2, DelaysAreReached
<1>4. GreaterOf(ConnectTimeout, d) \in Nat /\ GreaterOf(ConnectTimeout, d) >= 1
  BY <1>3, BackoffAssumption DEF GreaterOf
<1>5. /\ conn' = state /\ scale' = s /\ dialLost' = FALSE /\ trouble' = trouble
      /\ Dialled' = now /\ now < until' /\ until' \in Nat /\ delay' = d
  BY <1>1, <1>2, <1>3, <1>4 DEF Dial, Dialled
<1>6. Backoff'
  <2>1. scale' \in Nat /\ BaseDelay <= scale' /\ conn' # "backoff"
    BY <1>5 DEF Dialling
  <2>2. /\ Drawn(delay', scale') /\ 0 <= Dialled' /\ Dialled' <= now' /\ now' <= until'
        /\ delay' <= Dialled' + BaseDelay /\ Reached(scale', Dialled')
    BY <1>2, <1>3, <1>5
  <2> QED
    BY <2>1, <2>2 DEF Backoff
<1> QED
  BY <1>3, <1>5, <1>6, BackoffAssumption

\* A call makes the first dial.
LEMMA FirstDialStep ==
  ASSUME IInv, FirstDial, UNCHANGED <<environment, pc, lost, deadline, result>>
  PROVE  IInv'
<1>1. conn = "idle" /\ Dial("connecting", BaseDelay) /\ Calling
  BY DEF FirstDial
<1>2. /\ Backoff' /\ now < until' /\ dialLost' = FALSE /\ conn' = "connecting" /\ trouble' = trouble
      /\ scale' \in BaseDelay .. MaxDelay /\ delay' \in Nat /\ until' \in Nat
  <2>1. Reached(BaseDelay, now) /\ "connecting" \in Dialling
    BY DEF Reached, Dialling
  <2>2. BaseDelay \in Nat /\ BaseDelay <= BaseDelay /\ BaseDelay <= MaxDelay
    BY BackoffAssumption
  <2> QED
    BY <1>1, <2>1, <2>2, DialClocks
<1>3. Clocks' /\ TicksAreDue' /\ UpSinceIsTrue' /\ ResultIsLast' /\ LostOnReady'
  BY <1>1, CodeKept
<1>4. ~Cut /\ ~Cut' /\ Overlooked' = Overlooked
  BY <1>1, <1>2 DEF IInv, TypeOK, Cut, Dialling, Overlooked, Outage, environment
<1>5. TypeOK'
  <2>1. dialLost' \in BOOLEAN /\ (dialLost' => conn' \in Dialling)
    BY <1>2 DEF Dialling
  <2>2. conn' \in {"idle", "ready"} \cup Dialling \cup Failing /\ conn' \notin Failing
    BY <1>2 DEF Dialling, Failing
  <2> QED
    BY <1>2, <2>1, <2>2 DEF environment, IInv, TypeOK
<1>6. Regained' /\ Recent'
  BY <1>2, <1>4 DEF environment, IInv, Regained, Recent, Calling
<1> QED
  BY <1>2, <1>3, <1>5, <1>6 DEF IInv

\* The delay is over: the connection dials again.
LEMMA RedialStep ==
  ASSUME IInv, Redial, UNCHANGED <<environment, pc, lost, deadline, result>>, pc # "done"
  PROVE  IInv'
<1>1. conn = "backoff" /\ now = until /\ Dial("redialling", Grown(scale)) /\ ~lost
  BY DEF Redial, IInv, Backoff, Clocks, LostOnReady, TypeOK
<1>2. /\ Grown(scale) \in Nat /\ BaseDelay <= Grown(scale) /\ Grown(scale) <= MaxDelay
      /\ Reached(Grown(scale), now) /\ BaseDelay <= 2 * now
  <2>1. /\ scale \in Nat /\ BaseDelay <= scale /\ delay \in Nat /\ until - delay \in Nat
        /\ Reached(scale, until - delay) /\ Drawn(delay, scale)
    BY <1>1 DEF IInv, TypeOK, Backoff
  <2>2. (until - delay) + delay = now
    BY <1>1, <2>1 DEF IInv, TypeOK, Clocks
  <2> QED
    BY <2>1, <2>2, GrownIsReached
<1>3. /\ Backoff' /\ now < until' /\ dialLost' = FALSE /\ conn' = "redialling" /\ trouble' = trouble
      /\ scale' \in BaseDelay .. MaxDelay /\ delay' \in Nat /\ until' \in Nat
  BY <1>1, <1>2, DialClocks DEF Dialling
<1>4. Clocks' /\ TicksAreDue' /\ UpSinceIsTrue' /\ ResultIsLast' /\ LostOnReady'
  BY <1>1, CodeKept
<1>5. TypeOK'
  <2>1. dialLost' \in BOOLEAN /\ (dialLost' => conn' \in Dialling)
    BY <1>3 DEF Dialling
  <2>2. conn' \in {"idle", "ready"} \cup Dialling \cup Failing /\ trouble' # "none"
    BY <1>1, <1>3 DEF IInv, TypeOK, Failing
  <2> QED
    BY <1>3, <2>1, <2>2 DEF environment, IInv, TypeOK
<1>6. upSince # -1 => now - upSince <= Outage(upSince)
  BY <1>1 DEF IInv, Regained, Cut, NextDial
<1>7. Regained'
  BY <1>3, <1>6 DEF environment, Regained, Cut, Outage
<1>8. Recent'
  BY <1>1, <1>3, <1>6, MetAgain
<1> QED
  BY <1>3, <1>4, <1>5, <1>7, <1>8 DEF IInv

\* A dial succeeds, perhaps late.
LEMMA ConnectedStep ==
  ASSUME IInv, Connected, UNCHANGED <<environment, pc, lost, deadline, result>>, pc # "done"
  PROVE  IInv'
<1>1. /\ conn \in Dialling /\ conn # "ready" /\ now < until
      /\ conn' = "ready" /\ ~dialLost' /\ scale' = BaseDelay /\ delay' = 0 /\ until' = 0
      /\ trouble' = trouble /\ dialLost' = FALSE
  BY DEF Connected, Rest, Dialling
<1>2. Clocks' /\ TicksAreDue' /\ UpSinceIsTrue' /\ ResultIsLast' /\ LostOnReady' /\ ~lost
  BY <1>1, CodeKept
<1>3. TypeOK' /\ Backoff' /\ Regained'
  <2>1. dialLost' \in BOOLEAN /\ (dialLost' => conn' \in Dialling)
    BY <1>1
  <2>2. /\ conn' \in {"idle", "ready"} \cup Dialling \cup Failing /\ conn' \notin Failing
        /\ scale' \in BaseDelay .. MaxDelay /\ delay' \in Nat /\ until' \in Nat
    BY <1>1, BackoffAssumption DEF Failing
  <2>3. TypeOK'
    BY <1>1, <2>1, <2>2 DEF environment, IInv, TypeOK
  <2> QED
    BY <1>1, <2>3, BackoffAssumption DEF Backoff, Regained, Cut, Dialling
<1>4. Recent'
  <2>1. CASE dialLost
    <3>1. upSince # -1 => now - upSince <= Outage(upSince)
      <4> SUFFICES ASSUME upSince # -1
                   PROVE  now - upSince <= Outage(upSince)
        OBVIOUS
      <4>1. until \in Nat /\ delay \in Nat /\ upSince \in Nat /\ Outage(upSince) \in Nat
        BY OverlookedBounds DEF IInv, TypeOK
      <4>2. until + delay - upSince <= Outage(upSince)
        <5>1. Cut /\ NextDial = until + delay
          BY <1>1, <2>1 DEF Cut, NextDial, Dialling
        <5>2. NextDial - upSince <= Outage(upSince)
          BY <5>1 DEF IInv, Regained
        <5> QED
          BY <4>1, <5>1, <5>2
      <4> QED
        BY <1>1, <4>1, <4>2 DEF IInv, Clocks
    <3> QED
      BY <1>1, <1>2, <3>1, MetAgain
  <2>2. CASE ~dialLost
    <3>1. ~Cut /\ ~Cut' /\ Overlooked' = Overlooked
      BY <1>1, <2>2 DEF Cut, Dialling, Overlooked, Outage, environment
    <3> QED
      BY <3>1 DEF environment, IInv, Recent, Calling
  <2> QED
    BY <2>1, <2>2
<1> QED
  BY <1>2, <1>3, <1>4 DEF IInv

\* A dial fails: refused, or not answered in its time.
LEMMA DialFailsStep ==
  ASSUME IInv, DialFails, UNCHANGED <<environment, pc, lost, deadline, result>>, pc # "done"
  PROVE  IInv'
<1>1. /\ conn \in Dialling /\ conn # "ready" /\ (gateway = "down" \/ now >= until)
      /\ conn' = "backoff" /\ dialLost' = FALSE /\ until' = now + delay
      /\ trouble' = (IF trouble = "stalled" THEN "stalled" ELSE "refused")
      /\ UNCHANGED <<scale, delay>>
  BY DEF DialFails, Dialling
<1>2. Clocks' /\ TicksAreDue' /\ UpSinceIsTrue' /\ ResultIsLast' /\ LostOnReady'
  BY <1>1, CodeKept
<1>3. now \in Nat /\ delay \in Nat /\ until \in Nat /\ now' = now
  BY DEF IInv, TypeOK, Clocks, environment
<1>4. TypeOK'
  <2>1. dialLost' \in BOOLEAN /\ (dialLost' => conn' \in Dialling)
    BY <1>1, Zenon
  <2>2. conn' \in {"idle", "ready"} \cup Dialling \cup Failing /\ until' \in Nat
    BY <1>1, <1>3 DEF Failing
  <2>3. trouble' \in {"none", "refused", "stalled"} /\ trouble' # "none"
    BY <1>1
  <2> QED
    BY <1>1, <2>1, <2>2, <2>3 DEF environment, IInv, TypeOK
<1>5. /\ scale \in Nat /\ BaseDelay <= scale /\ Drawn(delay, scale) /\ Dialled \in Nat
      /\ Dialled <= now /\ delay <= Dialled + BaseDelay /\ Reached(scale, Dialled)
  BY <1>1, <1>3, BackoffAssumption DEF IInv, Backoff, Dialled, GreaterOf
<1>6. delay <= now + BaseDelay /\ Reached(scale, now)
  BY <1>3, <1>5, BackoffAssumption DEF Reached
<1>7. Backoff'
  BY <1>1, <1>3, <1>5, <1>6 DEF Backoff, Dialling
<1>8. Regained'
  <2>1. CASE upSince = -1
    BY <1>1, <2>1 DEF environment, Regained
  <2>2. CASE upSince # -1
    <3>1. gateway = "up" /\ upSince \in Nat /\ now = until
      BY <1>1, <1>3, <2>2 DEF IInv, UpSinceIsTrue, Backoff
    <3>2. until' - upSince <= OutageAfter(trouble', upSince)
      <4>1. CASE dialLost
        <5>1. until + delay - upSince <= OutageAfter("stalled", upSince) /\ trouble' = "stalled"
          <6>1. Cut /\ NextDial = until + delay
            BY <1>1, <4>1 DEF Cut, NextDial, Dialling
          <6>2. trouble = "stalled" /\ trouble' = "stalled"
            BY <1>1, <4>1 DEF IInv, Regained
          <6>3. NextDial - upSince <= Outage(upSince)
            BY <2>2, <6>1 DEF IInv, Regained
          <6> QED
            BY <1>3, <3>1, <6>1, <6>2, <6>3 DEF Outage
        <5> QED
          BY <1>1, <1>3, <3>1, <5>1
      <4>2. CASE ~dialLost
        <5>1. upSince = now
          BY <1>1, <1>3, <2>2, <3>1, <4>2 DEF IInv, Regained
        <5>2. OutageAfter(trouble', upSince) >= upSince + BaseDelay
          BY <1>1, <3>1, Outages, BackoffAssumption
        <5> QED
          BY <1>1, <1>3, <1>6, <3>1, <5>1, <5>2, Bounds, BackoffAssumption
      <4> QED
        BY <4>1, <4>2
    <3> QED
      BY <1>1, <3>2 DEF environment, Regained, NextDial, Outage, Dialling
  <2> QED
    BY <2>1, <2>2
<1>9. Recent'
  BY <1>1 DEF environment, IInv, ResultIsLast, Recent, Cut
<1> QED
  BY <1>2, <1>4, <1>7, <1>8, <1>9 DEF IInv

\* A dial is lost to a hung gateway, which is not up.
LEMMA DialIsLostStep ==
  ASSUME IInv, DialIsLost
  PROVE  IInv'
<1>1. /\ conn \in Dialling /\ dialLost' = TRUE /\ trouble' = "stalled" /\ upSince = -1
      /\ UNCHANGED <<conn, scale, delay, until>>
      /\ UNCHANGED <<environment, pc, lost, deadline, result>> /\ conn # "ready"
  BY DEF DialIsLost, LoseDial, IInv, UpSinceIsTrue, Dialling
<1>2. Clocks' /\ TicksAreDue' /\ UpSinceIsTrue' /\ ResultIsLast' /\ LostOnReady'
  BY <1>1, CodeKept
<1>3. TypeOK' /\ Backoff' /\ Regained' /\ Recent'
  BY <1>1 DEF environment, IInv, TypeOK, Backoff, Dialled, Reached, Drawn, Regained, Recent
<1> QED
  BY <1>2, <1>3 DEF IInv

-----------------------------------------------------------------------------
(* The environment.                                                        *)

\* The gateway changes: if it is up and accepting from now on, the attempt that
\* misses it is over, and the next tick due, within ProbeTimeout, and the
\* connection that misses it tries again within its Outage.
LEMMA GatewayChangesStep ==
  ASSUME IInv, GatewayChanges
  PROVE  IInv'
<1>1. PICK g \in Gateways, a \in BOOLEAN :
        /\ gateway' = g /\ accepts' = a /\ upSince' = UpSince(g, a)
        /\ IF g = "down" /\ conn = "ready" THEN Break ELSE UNCHANGED <<connection, pc, lost>>
  BY DEF GatewayChanges
<1>2. pc # "done" /\ result = "none" /\ UNCHANGED <<now, deadline, tick, nextTick, cancelled, result>>
  BY DEF GatewayChanges, IInv, ResultIsLast
<1>3. now \in Nat /\ delay \in Nat /\ until \in Nat /\ nextTick \in Nat /\ deadline \in Nat
  BY DEF IInv, TypeOK, Clocks
<1>4. /\ UpSinceIsTrue' /\ upSince' \in Times \cup {-1}
      /\ upSince' = -1 \/ upSince' = now \/ (upSince' = upSince /\ upSince # -1)
  BY <1>1, <1>2, <1>3 DEF UpSince, IInv, TypeOK, UpSinceIsTrue
<1>5. CASE g = "down" /\ conn = "ready"
  <2>1. /\ upSince' = -1 /\ lost' = FALSE /\ pc' = (IF Calling THEN "select" ELSE pc)
        /\ conn' = "idle" /\ dialLost' = FALSE /\ scale' = BaseDelay
        /\ delay' = 0 /\ until' = 0 /\ trouble' = trouble
    BY <1>1, <1>5 DEF Break, Rest, UpSince
  <2>2. TypeOK'
    <3>1. /\ dialLost' \in BOOLEAN /\ (dialLost' => conn' \in Dialling)
          /\ lost' \in BOOLEAN
      BY <2>1
    <3>2. /\ conn' \in {"idle", "ready"} \cup Dialling \cup Failing /\ conn' \notin Failing
          /\ scale' \in BaseDelay .. MaxDelay /\ delay' \in Nat /\ until' \in Nat
      BY <2>1, BackoffAssumption DEF Failing
    <3>3. pc' \in {"top", "health", "capabilities", "select", "done"}
      BY <2>1 DEF IInv, TypeOK
    <3> QED
      BY <1>1, <1>2, <1>4, <2>1, <3>1, <3>2, <3>3 DEF IInv, TypeOK
  <2>3. Clocks' /\ TicksAreDue' /\ ResultIsLast' /\ LostOnReady'
    BY <1>2, <2>1 DEF IInv, Clocks, TicksAreDue, ResultIsLast, Calling, LostOnReady
  <2>4. Backoff' /\ Regained' /\ Recent'
    BY <2>1, BackoffAssumption DEF Backoff, Regained, Recent, Dialling
  <2> QED
    BY <1>4, <2>2, <2>3, <2>4 DEF IInv
<1>6. CASE UNCHANGED <<connection, pc, lost>>
  <2>1. TypeOK' /\ Clocks' /\ TicksAreDue' /\ ResultIsLast' /\ LostOnReady' /\ Backoff'
    BY <1>1, <1>2, <1>4, <1>6 DEF connection, IInv, TypeOK, Clocks, TicksAreDue, ResultIsLast,
       LostOnReady, Calling, Backoff, Dialled, Reached, Drawn
  <2>2. CASE upSince' = -1
    BY <1>4, <1>6, <2>1, <2>2 DEF connection, IInv, Regained, Recent
  <2>3. CASE upSince' = upSince /\ upSince # -1
    <3>1. Cut' = Cut /\ NextDial' = NextDial /\ Outage(upSince)' = Outage(upSince) /\ Overlooked' = Overlooked
      BY <1>6, <2>3 DEF connection, Cut, NextDial, Outage, Overlooked
    <3>2. Regained' /\ Recent'
      BY <1>2, <1>6, <2>3, <3>1 DEF connection, IInv, Regained, Recent, Calling
    <3> QED
      BY <1>4, <2>1, <3>2 DEF IInv
  <2>4. CASE upSince' = now
    <3>1. trouble \in {"none", "refused", "stalled"}
      BY DEF IInv, TypeOK
    <3>2. Outage(upSince)' = OutageAfter(trouble, now) /\ OutageAfter(trouble, now) \in Nat
      BY <1>3, <1>6, <2>4, <3>1, Bounds DEF connection, Outage
    <3>3. Cut => NextDial - now <= OutageAfter(trouble, now)
      <4>1. CASE conn = "backoff"
        <5>1. until <= now + delay /\ delay <= now + BaseDelay /\ trouble # "none"
          BY <1>3, <4>1, BackoffAssumption DEF IInv, TypeOK, Backoff, Failing
        <5>2. OutageAfter(trouble, now) >= now + BaseDelay
          BY <1>3, <3>1, <5>1, Outages, BackoffAssumption
        <5> QED
          BY <1>3, <3>2, <4>1, <5>1, <5>2, BackoffAssumption DEF NextDial
      <4>2. CASE dialLost
        <5>1. conn \in Dialling /\ conn # "backoff" /\ trouble = "stalled"
          BY <4>2 DEF IInv, TypeOK, Regained, Dialling
        <5>2. /\ delay <= now + BaseDelay
              /\ until <= now + delay \/ until <= now + ConnectTimeout
          BY <1>3, <5>1, BackoffAssumption DEF IInv, Backoff, Dialled, GreaterOf
        <5>3. /\ OutageAfter("stalled", now) >= now + BaseDelay + ConnectTimeout
              /\ OutageAfter("stalled", now) >= 2 * (now + BaseDelay)
          BY <1>3, Outages
        <5> QED
          BY <1>3, <3>2, <5>1, <5>2, <5>3, BackoffAssumption DEF NextDial
      <4> QED
        BY <4>1, <4>2 DEF Cut
    <3>4. Regained'
      <4>1. Cut' = Cut /\ NextDial' = NextDial
        BY <1>6 DEF connection, Cut, NextDial
      <4> QED
        BY <1>2, <1>3, <1>6, <2>4, <3>2, <3>3, <4>1 DEF connection, IInv, Regained
    <3>5. Overlooked' \in Nat /\ ProbeTimeout <= Overlooked'
      BY <1>3, <1>6, <2>4, <3>1, Bounds DEF connection, Overlooked, Outage
    <3>6. Recent'
      BY <1>2, <1>3, <1>6, <2>4, <3>5, TimeAssumption DEF IInv, Clocks, Recent, Calling
    <3> QED
      BY <1>4, <2>1, <3>4, <3>6 DEF IInv
  <2> QED
    BY <1>4, <2>2, <2>3, <2>4
<1> QED
  BY <1>1, <1>5, <1>6

\* The host gives up.
LEMMA HostCancelsStep ==
  ASSUME IInv, HostCancels
  PROVE  IInv'
<1>1. /\ cancelled' = TRUE
      /\ UNCHANGED <<now, gateway, accepts, upSince, pc, lost, connection, deadline, tick, nextTick, result>>
  BY DEF HostCancels
<1>2. Backoff' /\ Regained'
  BY <1>1 DEF connection, IInv, Backoff, Dialled, Reached, Drawn, Regained, Cut, NextDial, Outage
<1>3. TypeOK' /\ Clocks' /\ TicksAreDue' /\ UpSinceIsTrue' /\ ResultIsLast' /\ LostOnReady' /\ Recent'
  BY <1>1 DEF connection, IInv, TypeOK, Clocks, TicksAreDue, UpSinceIsTrue, ResultIsLast,
     LostOnReady, Recent, Calling
<1> QED
  BY <1>2, <1>3 DEF IInv

\* Time passes: only while a call waits for a gateway that is not up, or that
\* lost it, or for a dial, or while there is no tick; and not beyond what is due
\* on the connection.
LEMMA PassTimeStep ==
  ASSUME IInv, PassTime
  PROVE  IInv'
<1>1. /\ now' = now + 1
      /\ UNCHANGED <<gateway, accepts, upSince, pc, lost, connection, deadline, cancelled, result>>
      /\ \/ now + 1 = nextTick /\ tick' = TRUE /\ nextTick' = nextTick + Interval
         \/ now + 1 # nextTick /\ UNCHANGED <<tick, nextTick>>
  BY DEF PassTime
<1>2. \/ /\ Calling /\ now < deadline /\ ~cancelled
         /\ conn = "connecting" \/ (conn = "ready" /\ (gateway = "hung" \/ lost))
      \/ pc = "select" /\ now < Budget /\ ~cancelled /\ ~tick
  BY TimeAssumption DEF PassTime, Waiting, AttemptOver, Expired, Calling, IInv, Clocks
<1>3. /\ conn \in Dialling => now < until /\ (gateway = "hung" \/ dialLost)
      /\ conn = "backoff" => now < until
  BY DEF PassTime, Due, IInv, TypeOK, Clocks
<1>4. Clocks'
  BY <1>1, <1>2, TimeAssumption DEF IInv, Clocks, Calling
<1>5. TypeOK'
  <2>1. now' \in Times /\ nextTick' \in Times
    <3>1. /\ now' \in Nat /\ nextTick' \in Nat
          /\ now' <= Budget /\ nextTick' <= now' + Interval
      BY <1>4 DEF Clocks
    <3>2. Budget \in Nat /\ ProbeTimeout \in Nat /\ Interval \in Nat
      BY TimeAssumption
    <3>3. \A b, p, i, n, t \in Nat :
            n <= b /\ t <= n + i => n <= b + p + i /\ t <= b + p + i
      OBVIOUS
    <3>4. now' <= Budget + ProbeTimeout + Interval /\ nextTick' <= Budget + ProbeTimeout + Interval
      BY <3>1, <3>2, <3>3
    <3> QED
      BY <3>1, <3>2, <3>4 DEF Times
  <2>2. upSince \in Times \cup {-1} /\ tick' \in BOOLEAN
    BY <1>1 DEF IInv, TypeOK
  <2> QED
    BY <1>1, <2>1, <2>2 DEF connection, IInv, TypeOK
<1>6. TicksAreDue' /\ UpSinceIsTrue' /\ ResultIsLast' /\ LostOnReady'
  BY <1>1, <1>2 DEF connection, IInv, TypeOK, Clocks, TicksAreDue, UpSinceIsTrue, ResultIsLast,
     LostOnReady, Calling
<1>7. Backoff'
  <2>1. now \in Nat /\ until \in Nat /\ delay \in Nat /\ Dialled' = Dialled
    BY <1>1 DEF connection, IInv, TypeOK, Clocks, Dialled
  <2>2. conn \in Dialling => Dialled \in Int
    BY <2>1, BackoffAssumption DEF Dialled, GreaterOf
  <2>3. CASE conn \in Dialling
    BY <1>1, <1>3, <2>1, <2>2, <2>3 DEF connection, IInv, Backoff, Reached, Drawn, Dialling
  <2>4. CASE conn \notin Dialling
    BY <1>1, <1>3, <2>1, <2>4 DEF connection, IInv, Backoff, Reached, Drawn
  <2> QED
    BY <2>3, <2>4
<1>8. Regained'
  <2>1. /\ Cut' = Cut /\ NextDial' = NextDial /\ Outage(upSince)' = Outage(upSince)
        /\ upSince' = upSince /\ (dialLost' => trouble' = "stalled")
    BY <1>1 DEF connection, Cut, NextDial, Outage, IInv, Regained
  <2>2. upSince # -1 /\ conn \in Dialling => dialLost
    BY <1>3 DEF IInv, UpSinceIsTrue
  <2> QED
    BY <1>1, <2>1, <2>2 DEF connection, IInv, Regained, Dialling
<1>9. Recent'
  <2> SUFFICES ASSUME ~cancelled, upSince # -1, ~Cut, result # "notReady"
               PROVE  Recent'
    BY <1>1, <1>2 DEF connection, IInv, ResultIsLast, Recent, Cut, Calling
  <2>1. Overlooked' = Overlooked /\ Cut' = Cut /\ gateway = "up"
    BY <1>1 DEF connection, Overlooked, Outage, Cut, IInv, UpSinceIsTrue
  <2>2. (Calling /\ lost) \/ (pc = "select" /\ now < Budget /\ ~tick)
    BY <1>2, <1>3, <2>1 DEF Cut, Dialling
  <2>3. CASE Calling /\ lost
    BY <1>1, <2>1, <2>3 DEF IInv, Recent, Calling
  <2>4. CASE pc = "select" /\ now < Budget /\ ~tick
    <3>1. now + 1 <= nextTick /\ nextTick - upSince <= Overlooked
      BY <2>4, TimeAssumption DEF IInv, Clocks, Recent
    <3>2. now' - upSince <= Overlooked /\ (tick' \/ nextTick' - upSince <= Overlooked)
      BY <1>1, <3>1, OverlookedBounds DEF IInv, Clocks
    <3> QED
      BY <1>1, <2>1, <2>4, <3>2 DEF Recent, Calling
  <2> QED
    BY <2>2, <2>3, <2>4
<1> QED
  BY <1>4, <1>5, <1>6, <1>7, <1>8, <1>9 DEF IInv

\* Every step.
LEMMA NextInv ==
  ASSUME IInv, [Next \/ Done]_vars
  PROVE  IInv'
<1>1. CASE UNCHANGED vars
  BY <1>1 DEF vars, connection, IInv, TypeOK, Clocks, TicksAreDue, UpSinceIsTrue, ResultIsLast,
     LostOnReady, Backoff, Dialled, Reached, Drawn, Regained, Cut, NextDial, Outage, Overlooked,
     Recent, Calling
<1>2. CASE Code
  BY <1>2, StartAttemptStep, HealthStep, CapabilitiesStep, CallFailsStep, FailFastStep,
     SelectStep DEF Code
<1>3. CASE Transport
  BY <1>3, FirstDialStep, RedialStep, ConnectedStep, DialFailsStep DEF Transport
<1> QED
  BY <1>1, <1>2, <1>3, LoseCallStep, DialIsLostStep, GatewayChangesStep, HostCancelsStep,
     PassTimeStep DEF Next, Done

-----------------------------------------------------------------------------
(* The theorems.                                                           *)

\* In every reachable state the clocks agree and no ready gateway is overdue.
THEOREM Invariance == Spec => []IInv
<1>1. Init => IInv
  <2> SUFFICES ASSUME Init PROVE IInv
    OBVIOUS
  <2>1. lost \in BOOLEAN /\ tick \in BOOLEAN /\ cancelled \in BOOLEAN /\ dialLost \in BOOLEAN
    BY Zenon DEF Init
  <2>2. TypeOK
    BY <2>1, TimeAssumption, BackoffAssumption DEF Init, TypeOK, Times, Results, Dialling, Failing
  <2>3. Clocks /\ TicksAreDue /\ UpSinceIsTrue /\ ResultIsLast /\ LostOnReady
    BY TimeAssumption DEF Init, Clocks, TicksAreDue, UpSinceIsTrue, ResultIsLast, LostOnReady, Calling
  <2>4. Backoff /\ Regained
    BY BackoffAssumption DEF Init, Backoff, Regained, Cut, Dialling
  <2>5. Recent
    BY <2>2, <2>3, OverlookedBounds, TimeAssumption DEF Init, Recent, Calling
  <2> QED
    BY <2>2, <2>3, <2>4, <2>5 DEF IInv
<1> QED
  BY <1>1, NextInv, PTL DEF Spec

\* Clocks, program counter and result keep their types, and stay in the ranges
\* the budget gives them.
THEOREM TypeCorrectness == Spec => []TypeOK
<1>1. IInv => TypeOK
  BY DEF IInv
<1> QED
  BY <1>1, Invariance, PTL

\* The wait never goes on past the budget.
THEOREM BudgetIsKept == Spec => []WithinBudget
<1>1. IInv => WithinBudget
  BY DEF IInv, Clocks, WithinBudget
<1> QED
  BY <1>1, Invariance, PTL

\* A gateway that was up and accepting for longer than an attempt may take, or
\* than the connection was failing and one interval, is not reported as not
\* ready.
THEOREM NoReadyGatewayIsMissed == Spec => []ReadyIsSeen
<1>1. IInv => ReadyIsSeen
  BY DEF IInv, Recent, Overlooked, ReadyIsSeen
<1> QED
  BY <1>1, Invariance, PTL

\* A host that gave up waits for nothing any more: from then on no time passes
\* until the wait is over, also in a call to a hung gateway.
THEOREM CancelledWaitsGoOnNoLonger == Spec => [][cancelled => now' = now]_vars
<1>1. ASSUME Next \/ Done, cancelled
      PROVE  now' = now
  BY <1>1 DEF Next, Done, Code, StartAttempt, Health, LoseCall, Capabilities, CallFails,
     FailFast, Select, Transport, DialIsLost, GatewayChanges, HostCancels, PassTime, Waiting,
     AttemptOver, Expired, environment, vars
<1> QED
  BY <1>1, PTL DEF Spec
=============================================================================
