---------------------------- MODULE AgentRuntime ----------------------------
(***************************************************************************)
(* The agent's Runtime (runtime.go): Init mints or takes over a token,     *)
(* starts the gateway container with it and hands it to consumers; Start   *)
(* and Test wait for the gateway; Destroy removes the container.           *)
(*                                                                         *)
(* The host sends one request at a time. Every call to Docker may fail,    *)
(* because Docker did or because the host cancelled the request, so there  *)
(* is no separate cancellation. The agent process may die between any two  *)
(* steps, and what it leaves behind meets the next process. Docker knows    *)
(* the container by the service's name, and every environment of that name *)
(* finds it. Stop changes nothing.                                         *)
(***************************************************************************)
EXTENDS Integers

CONSTANT MaxMinted   \* bound: how many tokens are ever generated

ASSUME MintAssumption == MaxMinted \in Nat

VARIABLES pc,            \* where the handler is
          request,       \* "none", "Init", "Destroy": what is being served
          authToken,     \* s.conf.authToken
          gatewayToken,  \* s.gatewayToken
          gatewayEnv,    \* s.gatewayEnv is not nil
          answer,        \* what the last request was answered
          minted,        \* tokens generated so far
          container,     \* Docker's container of that name
          started,       \* this process started it, or attached to it
          current,       \* the token of the last configuration handed out
          earlier        \* the tokens of the ones before it

agentVars == <<pc, request, authToken, gatewayToken, gatewayEnv, answer>>
handedVars == <<current, earlier>>
dockerVars == <<container, started>>
vars == <<agentVars, minted, dockerVars, handedVars>>

NoToken == -1
Pinned  == 0               \* the token an operator configured
Tokens  == 0 .. MaxMinted  \* and the generated ones

NoContainer == [token |-> NoToken, running |-> FALSE]
Containers  == [token : Tokens, running : BOOLEAN] \cup {NoContainer}

Points  == {"idle", "resolve", "start", "run", "configure", "teardown"}
Answers == {"none", "initialised", "initError", "ready", "notReady",
            "destroyed", "destroyError"}

TypeOK ==
  /\ pc \in Points /\ request \in {"none", "Init", "Destroy"} /\ answer \in Answers
  /\ authToken \in {NoToken, Pinned} /\ gatewayToken \in Tokens \cup {NoToken}
  /\ gatewayEnv \in BOOLEAN /\ started \in BOOLEAN
  /\ minted \in 0 .. MaxMinted
  /\ container \in Containers
  /\ current \in Tokens \cup {NoToken} /\ earlier \subseteq Tokens

AgentInit ==
  /\ pc = "idle" /\ request = "none" /\ answer = "none"
  /\ authToken = NoToken /\ gatewayToken = NoToken /\ gatewayEnv = FALSE

Init ==
  /\ AgentInit
  /\ minted = 0 /\ container = NoContainer /\ started = FALSE
  /\ current = NoToken /\ earlier = {}

-----------------------------------------------------------------------------
Reply(a) == pc' = "idle" /\ request' = "none" /\ answer' = a

\* Init without a usable network mapping, or with a credentials file, which is
\* refused after LoadConfiguration rebuilt s.conf.
RefuseInit ==
  /\ pc = "idle" /\ Reply("initError")
  /\ authToken' \in {authToken, NoToken, Pinned}
  /\ UNCHANGED <<gatewayToken, gatewayEnv, minted, dockerVars, handedVars>>

BeginInit ==
  /\ pc = "idle" /\ pc' = "resolve" /\ request' = "Init" /\ answer' = "none"
  /\ authToken' \in {NoToken, Pinned}
  /\ UNCHANGED <<gatewayToken, gatewayEnv, minted, dockerVars, handedVars>>

ResolvedOncePerProcess ==   \* mutation: a token the process has is kept
  \/ authToken # NoToken /\ gatewayToken' = authToken /\ UNCHANGED minted
  \/ authToken = NoToken /\ gatewayToken # NoToken /\ UNCHANGED <<minted, gatewayToken>>
  \/ /\ authToken = NoToken /\ gatewayToken = NoToken
     /\ minted < MaxMinted /\ minted' = minted + 1 /\ gatewayToken' = minted'

\* resolveGatewayToken: a configured token is taken, else one is generated.
Resolved ==
  \/ authToken # NoToken /\ gatewayToken' = authToken /\ UNCHANGED minted
  \/ authToken = NoToken /\ minted < MaxMinted /\ minted' = minted + 1 /\ gatewayToken' = minted'

ResolveGatewayToken ==
  /\ pc = "resolve" /\ pc' = "start"
  /\ Resolved
  /\ UNCHANGED <<request, authToken, gatewayEnv, answer, dockerVars, handedVars>>

CannotGenerateGoesOn ==   \* mutation: the error is not looked at
  /\ pc = "resolve" /\ authToken = NoToken
  /\ gatewayToken' = NoToken /\ pc' = "start"
  /\ UNCHANGED <<request, authToken, gatewayEnv, answer, minted, dockerVars, handedVars>>

\* callertoken.Generate failed: its empty result is already in s.gatewayToken.
CannotGenerate ==
  /\ pc = "resolve" /\ authToken = NoToken
  /\ gatewayToken' = NoToken /\ Reply("initError")
  /\ UNCHANGED <<authToken, gatewayEnv, minted, dockerVars, handedVars>>

\* No image reference, or no Docker client: what Init rolls back is then the
\* environment an earlier Init left.
CannotCreateEnvironment ==
  /\ pc = "start" /\ pc' = "teardown"
  /\ UNCHANGED <<request, authToken, gatewayToken, gatewayEnv, answer, minted,
                 dockerVars, handedVars>>

OwnEnvironmentLater ==   \* mutation: not before runner.Init has returned
  /\ pc = "start" /\ pc' = "run"
  /\ UNCHANGED <<request, authToken, gatewayToken, gatewayEnv, answer, minted,
                 dockerVars, handedVars>>

\* startGateway up to runner.Init: the environment is owned before it starts.
OwnEnvironment ==
  /\ pc = "start" /\ pc' = "run"
  /\ gatewayEnv' = TRUE
  /\ UNCHANGED <<request, authToken, gatewayToken, answer, minted, dockerVars, handedVars>>

-----------------------------------------------------------------------------
(* dockerrun (external). A container of that name whose environment is the *)
(* same, token included, is attached to; any other is removed and created  *)
(* anew: either way one with this token runs. An error may be reported at  *)
(* any point of that.                                                      *)

RunGateway ==
  /\ pc = "run" /\ pc' = "configure"
  /\ container' = [token |-> gatewayToken, running |-> TRUE] /\ started' = TRUE
  /\ UNCHANGED <<request, authToken, gatewayToken, gatewayEnv, answer, minted, handedVars>>

\* runner.Init failed: before it touched the container, after it removed the
\* old one, or after it created the new one.
CannotRunGateway ==
  /\ pc = "run" /\ pc' = "teardown"
  /\ \/ UNCHANGED dockerVars
     \/ container' = NoContainer /\ started' = FALSE
     \/ container' \in [token : {gatewayToken}, running : BOOLEAN] /\ started' = TRUE
  /\ UNCHANGED <<request, authToken, gatewayToken, gatewayEnv, answer, minted, handedVars>>

\* The gateway exits on its own.
ContainerExits ==
  /\ container.running /\ container' = [container EXCEPT !.running = FALSE]
  /\ UNCHANGED <<agentVars, minted, started, handedVars>>

-----------------------------------------------------------------------------
\* CreateConnectionConfiguration, once per network instance; they carry the
\* same token.
HandedOutConfigured == authToken   \* mutation: the configured token, if any
HandedOut == gatewayToken

CreateConnectionConfiguration ==
  /\ pc = "configure" /\ Reply("initialised")
  /\ earlier' = IF current = NoToken THEN earlier ELSE earlier \cup {current}
  /\ current' = HandedOut
  /\ UNCHANGED <<authToken, gatewayToken, gatewayEnv, minted, dockerVars>>

BeginDestroy ==
  /\ pc = "idle" /\ pc' = "teardown" /\ request' = "Destroy" /\ answer' = "none"
  /\ UNCHANGED <<authToken, gatewayToken, gatewayEnv, minted, dockerVars, handedVars>>

\* teardown, called by Destroy and by Init's rollback. Init reports its own
\* error whatever becomes of the rollback.
Reported(a) == Reply(IF request = "Init" THEN "initError" ELSE a)

NothingToTearDown ==
  /\ pc = "teardown" /\ ~gatewayEnv
  /\ Reported("destroyed")
  /\ UNCHANGED <<authToken, gatewayToken, gatewayEnv, minted, dockerVars, handedVars>>

Shutdown ==
  /\ pc = "teardown" /\ gatewayEnv
  /\ Reported("destroyed")
  /\ container' = NoContainer /\ started' = FALSE
  /\ gatewayEnv' = FALSE
  /\ UNCHANGED <<authToken, gatewayToken, minted, handedVars>>

\* Docker reported an error; it may have removed the container all the same.
ShutdownFails ==
  /\ pc = "teardown" /\ gatewayEnv
  /\ Reported("destroyError")
  /\ \/ UNCHANGED dockerVars
     \/ container' = NoContainer /\ started' = FALSE
  /\ UNCHANGED <<authToken, gatewayToken, gatewayEnv, minted, handedVars>>

\* Start and Test, after an Init that succeeded: WaitForReady (see Readiness)
\* presents s.gatewayToken and is ready only if the gateway takes it.
WaitForReady ==
  /\ pc = "idle" /\ answer \in {"initialised", "ready", "notReady"}
  /\ answer' \in IF container.running /\ container.token = gatewayToken
                 THEN {"ready", "notReady"} ELSE {"notReady"}
  /\ UNCHANGED <<pc, request, authToken, gatewayToken, gatewayEnv, minted,
                 dockerVars, handedVars>>

\* The agent dies and the host starts another: the container stays.
Restart ==
  /\ pc' = "idle" /\ request' = "none" /\ answer' = "none"
  /\ authToken' = NoToken /\ gatewayToken' = NoToken /\ gatewayEnv' = FALSE
  /\ started' = FALSE
  /\ UNCHANGED <<minted, container, handedVars>>

Next ==
  \/ RefuseInit \/ BeginInit \/ ResolveGatewayToken \/ CannotGenerate
  \/ CannotCreateEnvironment \/ OwnEnvironment \/ RunGateway \/ CannotRunGateway
  \/ CreateConnectionConfiguration
  \/ BeginDestroy \/ NothingToTearDown \/ Shutdown \/ ShutdownFails
  \/ WaitForReady \/ ContainerExits \/ Restart

Spec == Init /\ [][Next]_vars

-----------------------------------------------------------------------------
\* A container this process started is one it can still remove: whatever failed
\* since, s.gatewayEnv is set, so Destroy goes to Docker and does not answer
\* success for a container that is still there (runtime.go:174-176, 207-208).
StartedIsOwned == container # NoContainer /\ started => gatewayEnv

\* After a successful Init, and however often Start and Test are called, the
\* gateway enforces the token the last configuration carries.
Initialised == answer \in {"initialised", "ready", "notReady"}
ConsumersHoldTheToken ==
  Initialised /\ container # NoContainer => container.token = current

\* A run that minted its token, or pinned one, has revoked every generated
\* token an earlier run handed out, also one of an agent that died.
EarlierRunsAreRevoked ==
  Initialised /\ container # NoContainer => container.token \notin earlier \ {Pinned}
=============================================================================
