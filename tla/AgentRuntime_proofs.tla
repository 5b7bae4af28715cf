------------------------ MODULE AgentRuntime_proofs ------------------------
(***************************************************************************)
(* For any number of generated tokens: a container the agent started is    *)
(* owned, the gateway enforces the token consumers were given last, and    *)
(* the generated tokens of earlier runs are revoked.                       *)
(***************************************************************************)
EXTENDS AgentRuntime, TLAPS

\* Init is past the token, and has the environment.
HasToken == pc \in {"start", "run", "configure"}

Owning == pc \in {"run", "configure"} => gatewayEnv

\* A request in progress has not been answered.
Answering == pc # "idle" => ~Initialised

\* The container Init is about to report runs with the token it resolved.
Configuring ==
  pc = "configure" => container # NoContainer /\ container.token = gatewayToken

\* No token is known before it is generated.
Generated ==
  /\ gatewayToken <= minted /\ current <= minted
  /\ \A t \in earlier : t <= minted

\* What a run hands out is not what an earlier one did.
Fresh ==
  /\ HasToken => gatewayToken \in Tokens /\ gatewayToken \notin (earlier \cup {current}) \ {Pinned}
  /\ Initialised => current \notin earlier \ {Pinned}

IInv ==
  /\ TypeOK /\ StartedIsOwned /\ ConsumersHoldTheToken
  /\ Owning /\ Answering /\ Configuring /\ Generated /\ Fresh

-----------------------------------------------------------------------------
\* A record with a token in Tokens is not the one that stands for no container.
LEMMA RealContainer ==
  ASSUME NEW t \in Tokens, NEW r \in BOOLEAN
  PROVE  /\ [token |-> t, running |-> r] \in Containers
         /\ [token |-> t, running |-> r] # NoContainer
  BY MintAssumption DEF Tokens, Containers, NoContainer, NoToken

\* The invariant holds of a fresh agent that finds no container.
LEMMA Initially == Init => IInv
<1>1. NoContainer \in Containers
  BY DEF Containers
<1>2. Init => StartedIsOwned
  BY Zenon DEF Init, StartedIsOwned
<1>3. Init => gatewayEnv \in BOOLEAN /\ started \in BOOLEAN
  BY DEF Init, AgentInit
<1>4. Init => /\ pc = "idle" /\ request = "none" /\ answer = "none"
              /\ authToken = NoToken /\ gatewayToken = NoToken /\ minted = 0
              /\ container = NoContainer /\ current = NoToken /\ earlier = {}
  BY DEF Init, AgentInit
<1>5. Init => TypeOK
  BY <1>1, <1>3, <1>4, MintAssumption DEF TypeOK, Points, Answers, Tokens, NoToken, Pinned
<1> QED
  BY <1>2, <1>4, <1>5, MintAssumption
  DEF IInv, ConsumersHoldTheToken, Owning, Answering,
      Configuring, Generated, Fresh, HasToken, Initialised, Points, Answers, Tokens,
      NoToken, Pinned

\* What a dead agent leaves behind is not what its successor started.
LEMMA StrayContainer == Restart => StartedIsOwned'
  BY Zenon DEF Restart, StartedIsOwned

\* Only a container that exists exits.
LEMMA OnlyContainersExit == ContainerExits => container # NoContainer
<1>1. ~NoContainer.running
  BY DEF NoContainer
<1> QED
  BY <1>1, Zenon DEF ContainerExits

\* An exit changes neither who started the container nor who owns it.
LEMMA OwnersKeepContainers ==
  ASSUME StartedIsOwned, ContainerExits
  PROVE  StartedIsOwned'
<1>1. container # NoContainer /\ UNCHANGED <<started, gatewayEnv>>
  BY OnlyContainersExit DEF ContainerExits, agentVars
<1> QED
  BY <1>1, Zenon DEF StartedIsOwned

\* One step of the agent, of Docker, or a restart preserves the invariant.
LEMMA Inductive == IInv /\ [Next]_vars => IInv'
<1> SUFFICES ASSUME IInv, [Next]_vars
             PROVE  IInv'
  OBVIOUS
<1>0. NoContainer \in Containers
  BY DEF Containers
<1> USE MintAssumption
    DEF IInv, TypeOK, StartedIsOwned, ConsumersHoldTheToken, Owning, Answering, Configuring,
        Generated, Fresh, HasToken, Initialised, Points, Answers, Tokens, NoToken, Pinned,
        dockerVars, handedVars, Reply
<1>1. CASE RefuseInit
  BY <1>1 DEF RefuseInit
<1>2. CASE BeginInit
  BY <1>2 DEF BeginInit
<1>3. CASE ResolveGatewayToken
  BY <1>3 DEF ResolveGatewayToken, Resolved
<1>4. CASE CannotGenerate
  BY <1>4 DEF CannotGenerate
<1>5. CASE CannotCreateEnvironment
  BY <1>5 DEF CannotCreateEnvironment
<1>6. CASE OwnEnvironment
  BY <1>6 DEF OwnEnvironment
<1>7. CASE RunGateway
  <2>1. container' \in Containers /\ container' # NoContainer
    BY <1>7, RealContainer DEF RunGateway
  <2>2. container'.token = gatewayToken
    BY <1>7 DEF RunGateway
  <2> QED BY <1>7, <2>1, <2>2 DEF RunGateway
<1>8. CASE CannotRunGateway
  <2>1. container' \in Containers
    BY <1>0, <1>8, RealContainer DEF CannotRunGateway
  <2> QED BY <1>8, <2>1 DEF CannotRunGateway
<1>9. CASE CreateConnectionConfiguration
  BY <1>9 DEF CreateConnectionConfiguration, HandedOut
<1>10. CASE BeginDestroy
  BY <1>10 DEF BeginDestroy
<1>11. CASE NothingToTearDown
  BY <1>11 DEF NothingToTearDown, Reported
<1>12. CASE Shutdown
  BY <1>0, <1>12 DEF Shutdown, Reported
<1>13. CASE ShutdownFails
  BY <1>0, <1>13 DEF ShutdownFails, Reported
<1>14. CASE WaitForReady
  BY <1>14 DEF WaitForReady
<1>15. CASE ContainerExits
  <2>1. container # NoContainer
    BY <1>15, OnlyContainersExit
  <2>2. container' = [token |-> container.token, running |-> FALSE] /\ container.token \in Tokens
    BY <1>15, <2>1 DEF ContainerExits, Containers
  <2>3. container' \in Containers /\ container' # NoContainer /\ container'.token = container.token
    BY <2>2, RealContainer
  <2>4. UNCHANGED <<agentVars, minted, started, handedVars>>
    BY <1>15 DEF ContainerExits
  <2>5. StartedIsOwned'
    BY <1>15, OwnersKeepContainers
  <2>6. TypeOK'
    BY <2>3, <2>4 DEF agentVars
  <2>7. (ConsumersHoldTheToken /\ Answering /\ Configuring /\ Generated /\ Fresh)'
    BY <2>1, <2>3, <2>4 DEF agentVars
  <2>8. Owning'
    BY <2>4, Zenon DEF agentVars
  <2> QED BY <2>5, <2>6, <2>7, <2>8
<1>16. CASE Restart
  <2>1. StartedIsOwned'
    BY <1>16, StrayContainer
  <2>2. gatewayEnv' \in BOOLEAN /\ started' \in BOOLEAN
    BY <1>16 DEF Restart
  <2>3. /\ pc' = "idle" /\ request' = "none" /\ answer' = "none"
        /\ authToken' = NoToken /\ gatewayToken' = NoToken
        /\ UNCHANGED <<minted, container, handedVars>>
    BY <1>16 DEF Restart
  <2>4. TypeOK'
    BY <2>2, <2>3
  <2>5. (ConsumersHoldTheToken /\ Owning /\ Answering /\ Configuring /\ Generated /\ Fresh)'
    BY <2>3
  <2> QED BY <2>1, <2>4, <2>5
<1>17. CASE UNCHANGED vars
  BY <1>17 DEF vars, agentVars
<1> QED
  BY <1>1, <1>2, <1>3, <1>4, <1>5, <1>6, <1>7, <1>8, <1>9, <1>10, <1>11, <1>12, <1>13,
     <1>14, <1>15, <1>16, <1>17 DEF Next

\* The invariant holds in every reachable state.
THEOREM Invariance == Spec => []IInv
  BY Initially, Inductive, PTL DEF Spec

\* The variables keep their types (runtime.go:58-63).
THEOREM TypeCorrectness == Spec => []TypeOK
<1>1. IInv => TypeOK
  BY DEF IInv
<1> QED BY <1>1, Invariance, PTL

\* A container this process started can be removed by it (runtime.go:174-176,
\* 207-218).
THEOREM StartedContainersAreOwned == Spec => []StartedIsOwned
<1>1. IInv => StartedIsOwned
  BY DEF IInv
<1> QED BY <1>1, Invariance, PTL

\* The gateway enforces the token the last configuration carries
\* (runtime.go:122-138).
THEOREM TokensAgree == Spec => []ConsumersHoldTheToken
<1>1. IInv => ConsumersHoldTheToken
  BY DEF IInv
<1> QED BY <1>1, Invariance, PTL

\* A run revokes the generated tokens of every earlier one (runtime.go:144-153).
THEOREM TokensAreRevoked == Spec => []EarlierRunsAreRevoked
<1>1. IInv => EarlierRunsAreRevoked
  BY DEF IInv, Fresh, ConsumersHoldTheToken, EarlierRunsAreRevoked
<1> QED BY <1>1, Invariance, PTL
=============================================================================
