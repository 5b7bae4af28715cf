------------------------- MODULE Deployment_proofs -------------------------
(***************************************************************************)
(* What starts a gateway never starts an anonymous, unlimited or           *)
(* disagreeing one, whatever sequence of edits, runs, deployments,         *)
(* rotations and restarts leads there, and whatever a secret behind        *)
(* SWH_ALLOW_ANONYMOUS may hold.                                           *)
(*                                                                         *)
(* The argument: a gateway is what FromEnv makes of its environment        *)
(* (Started), and an environment is shaped by who made it: a manifest      *)
(* always says that anonymous is false, and a local run always names a     *)
(* token.                                                                  *)
(***************************************************************************)
EXTENDS Deployment, TLAPS

\* Only what the operator chose differs from what Create made.
Unedited ==
  settings # Nothing /\ ~edited => settings = [backend |-> "mem", database |-> ""]

\* What a manifest that is not refused says.
Rendered ==
  manifest # Nothing => manifest.anonymous = "literal" /\ manifest.told \subseteq {manifest.port}

\* The gateway is what FromEnv made of its environment, which is one that its
\* starter makes.
Started ==
  gateway # Nothing =>
    /\ env \in Environments /\ gateway.config = Start(env)
    /\ gateway.by = "pod" => env.anonymous = "false"
    /\ gateway.by = "agent" =>
         /\ env.anonymous = "" /\ env.limit = Unset
         /\ handed \in {"secret", Generated} /\ handed = env.token
         /\ ~edited /\ ~gateway.configured => env.backend = "mem"

IInv == TypeOK /\ Unedited /\ Rendered /\ Started

-----------------------------------------------------------------------------
(* What FromEnv and LoadConfiguration return.                              *)

\* A token as it was configured is blank or one of the two there are.
LEMMA TrimmedToken ==
  /\ \A raw \in RawTokens : Trim(raw) \in {"", "secret"}
  /\ Trim(Generated) = Generated /\ Trim("secret") = "secret"
BY DEF RawTokens, Trim, Generated

\* A gateway that comes up has passed every check of FromEnv.
LEMMA WhatServes ==
  ASSUME NEW e \in Environments, Start(e).error = ""
  PROVE  /\ ~LimitError(e) /\ ListenerError(e, Trim(e.token)) = ""
         /\ Start(e).limit = Number(e.limit) /\ Start(e).token = Trim(e.token)
<1>1. Start(e) = FromEnv(e) /\ FromEnv(e).error = ""
  BY DEF Start, Error
<1>2. ASSUME NEW why, why # ""
      PROVE  FromEnv(e) # Error(why)
  <2>1. Error(why).error # ""
    BY <1>2 DEF Error
  <2> QED
    BY <1>1, <2>1, Zenon
<1>3. ~LimitError(e)
  BY <1>2 DEF FromEnv
<1>4. Kind(e) \in Registered
  BY <1>2, <1>3 DEF FromEnv
<1>5. ~(Kind(e) \notin SelfContained /\ e.database = "")
  <2> SUFFICES ASSUME Kind(e) \notin SelfContained, e.database = ""
               PROVE  FALSE
    OBVIOUS
  <2>1. FromEnv(e) = Error("database")
    BY <1>3, <1>4 DEF FromEnv
  <2> QED
    BY <1>2, <2>1
<1>6. ListenerError(e, Trim(e.token)) = ""
  BY <1>2, <1>3, <1>4, <1>5 DEF FromEnv
<1>7. FromEnv(e) = [error |-> "", kind |-> Kind(e), limit |-> Number(e.limit),
                    token |-> Trim(e.token)]
  BY <1>3, <1>4, <1>5, <1>6 DEF FromEnv
<1>8. ASSUME NEW k, NEW l, NEW t, FromEnv(e) = [error |-> "", kind |-> k, limit |-> l, token |-> t]
      PROVE  FromEnv(e).limit = l /\ FromEnv(e).token = t
  <2>1. /\ [error |-> "", kind |-> k, limit |-> l, token |-> t].limit = l
        /\ [error |-> "", kind |-> k, limit |-> l, token |-> t].token = t
    OBVIOUS
  <2> QED
    BY <1>8, <2>1, Zenon
<1>9. FromEnv(e).limit = Number(e.limit) /\ FromEnv(e).token = Trim(e.token)
  BY <1>7, <1>8, Zenon
<1>10. Start(e).limit = Number(e.limit) /\ Start(e).token = Trim(e.token)
  BY <1>1, <1>9, Zenon
<1> QED
  BY <1>3, <1>6, <1>10

\* The result of starting a gateway has its type.
LEMMA StartType ==
  ASSUME NEW e \in Environments
  PROVE  Start(e) \in Configs
<1>1. Trim(e.token) \in {"", "secret", Generated}
  BY TrimmedToken DEF Environments
<1>2. ~LimitError(e) => Number(e.limit) \in {0, 5}
  <2>1. Number(e.limit) \in {-1, 0, 5}
    BY DEF Number
  <2> QED
    BY <2>1 DEF LimitError
<1>3. ListenerError(e, Trim(e.token)) \in Errors
  BY DEF ListenerError, Errors
<1>4. FromEnv(e) \in Configs
  BY <1>1, <1>2, <1>3 DEF FromEnv, Error, Configs, Registered, Kinds, Errors
<1> QED
  BY <1>4 DEF Start, Error, Configs, Errors

\* What a configuration resolves to is trimmed.
LEMMA Resolved ==
  ASSUME NEW s \in Settings, NEW conf \in Configurations
  PROVE  /\ LoadConfiguration(s, conf).backend \in {"", "mem", "duckdb", Malformed}
         /\ LoadConfiguration(s, conf).database \in {"", "db"}
         /\ LoadConfiguration(s, conf).token \in {"", "secret"}
         /\ conf = NoConfiguration /\ s.backend = "mem" =>
              LoadConfiguration(s, conf).backend = "mem"
<1>1. /\ s.backend \in {"", "mem", "duckdb"} /\ s.database \in {"", "db"}
      /\ conf.backend \in RawBackends /\ conf.database \in RawDatabases /\ conf.token \in RawTokens
  BY DEF Settings, Configurations
<1>2. Resolve(s.backend, conf.backend) \in {"", "mem", "duckdb", Malformed}
  <2>1. \A x \in RawBackends \cup {"mem"} : Trim(x) \in {"", "mem", "duckdb", Malformed}
    BY DEF Trim, RawBackends, Malformed
  <2> QED
    BY <1>1, <2>1 DEF Resolve, RawBackends
<1>3. Resolve(s.database, conf.database) \in {"", "db"}
  BY <1>1 DEF Resolve, Trim, RawDatabases
<1>4. Resolve("", conf.token) \in {"", "secret"}
  BY <1>1 DEF Resolve, Trim, RawTokens
<1>5. conf = NoConfiguration /\ s.backend = "mem" => Resolve(s.backend, conf.backend) = "mem"
  <2>1. NoConfiguration.backend = "" /\ Trim("mem") = "mem"
    BY DEF NoConfiguration, Trim
  <2> QED
    BY <2>1 DEF Resolve
<1> QED
  BY <1>2, <1>3, <1>4, <1>5 DEF LoadConfiguration

-----------------------------------------------------------------------------
(* Every step preserves the invariant.                                     *)

\* The service is created or edited, before any gateway, or the secret rotates.
LEMMA OperatorStep ==
  ASSUME IInv, CreateService \/ EditSettings \/ RotateSecret
  PROVE  IInv'
<1> USE DEF IInv, TypeOK, Unedited, Rendered, Started
<1>1. CASE CreateService
  <2>1. settings' = [backend |-> "mem", database |-> ""]
    BY <1>1 DEF CreateService, Create
  <2>2. settings' \in Settings
    BY <2>1 DEF Settings
  <2> QED
    BY <1>1, <2>1, <2>2 DEF CreateService
<1>2. CASE EditSettings
  BY <1>2 DEF EditSettings
<1>3. CASE RotateSecret
  BY <1>3 DEF RotateSecret
<1> QED
  BY <1>1, <1>2, <1>3

\* A gateway that is started has its type.
LEMMA StartedType ==
  ASSUME NEW e \in Environments, NEW by \in {"pod", "agent", "hand"}, NEW conf, StartWith(e, by, conf)
  PROVE  /\ env' = e /\ gateway'.by = by /\ gateway'.config = Start(e)
         /\ gateway'.configured <=> conf # NoConfiguration
         /\ gateway' \in [by : {"pod", "agent", "hand"}, configured : BOOLEAN, config : Configs]
BY StartType DEF StartWith

\* A local run.
LEMMA RunLocallyStep ==
  ASSUME IInv, NEW conf \in Configurations, RunLocally(conf)
  PROVE  IInv'
<1> DEFINE r == LoadConfiguration(settings, conf)
           e == ContainerEnvironment(r)
<1>1. /\ settings \in Settings /\ StartWith(e, "agent", conf) /\ handed' = GatewayToken(r)
      /\ UNCHANGED <<settings, edited, manifest, secret, flag>>
  BY DEF RunLocally, IInv, TypeOK
<1>2. /\ r.backend \in {"", "mem", "duckdb", Malformed} /\ r.database \in {"", "db"}
      /\ r.token \in {"", "secret"}
      /\ conf = NoConfiguration /\ settings.backend = "mem" => r.backend = "mem"
  BY <1>1, Resolved
<1> HIDE DEF r
<1>3. GatewayToken(r) \in {"secret", Generated}
  BY <1>2 DEF GatewayToken
<1>4. /\ e.anonymous = "" /\ e.limit = Unset /\ e.token = GatewayToken(r) /\ e.backend = r.backend
      /\ e \in Environments
  BY <1>2, <1>3 DEF ContainerEnvironment, Environments, Kinds, Databases, Limits, RawTokens, Booleans
<1> HIDE DEF e
<1>5. /\ env' = e /\ gateway'.by = "agent" /\ gateway'.config = Start(e)
      /\ gateway'.configured <=> conf # NoConfiguration
      /\ gateway' \in [by : {"pod", "agent", "hand"}, configured : BOOLEAN, config : Configs]
  BY <1>1, <1>4, StartedType
<1>6. TypeOK' /\ Unedited' /\ Rendered'
  BY <1>1, <1>3, <1>4, <1>5 DEF IInv, TypeOK, Unedited, Rendered
<1>7. ~edited => settings.backend = "mem"
  <2>1. ~edited => settings = [backend |-> "mem", database |-> ""]
    BY DEF RunLocally, IInv, Unedited
  <2>2. [backend |-> "mem", database |-> ""].backend = "mem"
    OBVIOUS
  <2> QED BY <2>1, <2>2, Zenon
<1>8. Started'
  BY <1>1, <1>2, <1>3, <1>4, <1>5, <1>7 DEF Started
<1> QED
  BY <1>6, <1>8 DEF IInv

\* A deployment: a request that is not refused names SWH_ALLOW_ANONYMOUS
\* nowhere, and the service gets the port consumers are told.
LEMMA DeployStep ==
  ASSUME IInv, NEW q \in Requests, Deploy(q)
  PROVE  IInv'
<1> DEFINE r == LoadConfiguration(settings, q.conf)
<1>1. /\ settings \in Settings /\ ~Refused(q, r)
      /\ manifest' = [backend |-> r.backend, database |-> r.database,
                      anonymous |-> IF q.anonymous = "reference" THEN "reference" ELSE "literal",
                      port |-> ServicePort(q.mappings), told |-> ToldPort(q.mappings)]
      /\ UNCHANGED <<settings, edited, secret, flag, env, gateway, handed>>
  BY DEF Deploy, IInv, TypeOK
<1>2. q.conf \in Configurations
  <2>1. q.conf \in Configurations \/ q.conf = NoConfiguration
    BY DEF Requests
  <2>2. NoConfiguration \in Configurations
    BY DEF Configurations, NoConfiguration, RawBackends, RawDatabases, RawFiles, RawTokens
  <2> QED
    BY <2>1, <2>2, Zenon
<1>3. r.backend \in Kinds \cup {""} /\ r.database \in Databases
  BY <1>1, <1>2, Resolved DEF Refused, Unrenderable, Kinds, Databases
<1>4. q.anonymous = "nowhere"
  BY <1>1 DEF Refused, RejectsAnonymous
<1> HIDE DEF r
<1> DEFINE port == ServicePort(q.mappings)
           told == ToldPort(q.mappings)
<1>5. /\ port \in {ContainerPort, AllocatedPort} /\ told \in {{}, {AllocatedPort}}
      /\ told \subseteq {port}
  BY DEF ServicePort, ToldPort
<1> HIDE DEF port, told
<1>6. manifest' = [backend |-> r.backend, database |-> r.database, anonymous |-> "literal",
                   port |-> port, told |-> told]
  BY <1>1, <1>4 DEF port, told
<1>7. manifest' \in Manifests
  BY <1>3, <1>5, <1>6 DEF Manifests
<1>8. /\ manifest'.anonymous = "literal" /\ manifest'.told \subseteq {manifest'.port}
  BY <1>5, <1>6
<1> QED
  BY <1>1, <1>7, <1>8 DEF IInv, TypeOK, Unedited, Rendered, Started

\* A pod starts, or starts again.
LEMMA StartPodStep ==
  ASSUME IInv, StartPod
  PROVE  IInv'
<1>1. /\ manifest \in Manifests /\ manifest.anonymous = "literal"
      /\ StartWith(PodEnvironment, "pod", NoConfiguration)
      /\ UNCHANGED <<settings, edited, manifest, secret, flag, handed>>
  BY DEF StartPod, IInv, TypeOK, Rendered
<1>2. PodEnvironment.anonymous = "false" /\ PodEnvironment \in Environments
  BY <1>1 DEF PodEnvironment, Environments, Manifests, IInv, TypeOK, Limits, Booleans
<1>3. /\ env' = PodEnvironment /\ gateway'.by = "pod" /\ gateway'.config = Start(PodEnvironment)
      /\ gateway' \in [by : {"pod", "agent", "hand"}, configured : BOOLEAN, config : Configs]
  BY <1>1, <1>2, StartedType
<1>4. TypeOK' /\ Unedited' /\ Rendered'
  BY <1>1, <1>2, <1>3 DEF IInv, TypeOK, Unedited, Rendered
<1>5. Started'
  BY <1>2, <1>3 DEF Started
<1> QED
  BY <1>4, <1>5 DEF IInv

\* A gateway is started by hand.
LEMMA StartByHandStep ==
  ASSUME IInv, StartByHand
  PROVE  IInv'
<1>1. PICK e \in Environments : StartWith(e, "hand", NoConfiguration)
  BY DEF StartByHand
<1>2. UNCHANGED <<settings, edited, manifest, secret, flag, handed>>
  BY DEF StartByHand
<1>3. /\ env' = e /\ gateway'.by = "hand" /\ gateway'.config = Start(e)
      /\ gateway' \in [by : {"pod", "agent", "hand"}, configured : BOOLEAN, config : Configs]
  BY <1>1, StartedType
<1>4. TypeOK' /\ Unedited' /\ Rendered'
  BY <1>2, <1>3 DEF IInv, TypeOK, Unedited, Rendered
<1>5. Started'
  BY <1>3 DEF Started
<1> QED
  BY <1>4, <1>5 DEF IInv

\* Every step.
LEMMA NextInv ==
  ASSUME IInv, [Next]_vars
  PROVE  IInv'
<1>1. CASE UNCHANGED vars
  BY <1>1 DEF vars, IInv, TypeOK, Unedited, Rendered, Started
<1> QED
  BY <1>1, OperatorStep, RunLocallyStep, DeployStep, StartPodStep, StartByHandStep DEF Next

-----------------------------------------------------------------------------
(* The theorems.                                                           *)

\* In every reachable state a gateway is what its starter and FromEnv make.
THEOREM Invariance == Spec => []IInv
<1>1. Init => IInv
  <2> SUFFICES ASSUME Init PROVE IInv
    OBVIOUS
  <2>1. edited \in BOOLEAN
    BY Zenon DEF Init
  <2> QED
    BY <2>1 DEF Init, IInv, TypeOK, Unedited, Rendered, Started
<1> QED
  BY <1>1, NextInv, PTL DEF Spec

\* Settings, manifests, environments and gateways keep their types.
THEOREM TypeCorrectness == Spec => []TypeOK
<1>1. IInv => TypeOK
  BY DEF IInv
<1> QED
  BY <1>1, Invariance, PTL

\* A gateway that serves without a token was started by hand, by an operator
\* who said so and gave none.
THEOREM AnonymityIsChosen == Spec => []AnonymousOnlyByHand
<1>1. IInv => AnonymousOnlyByHand
  <2> SUFFICES ASSUME IInv, Serving, gateway.config.token = ""
               PROVE  gateway.by = "hand" /\ env.anonymous = "true" /\ Trim(env.token) = ""
    BY DEF AnonymousOnlyByHand
  <2>1. /\ env \in Environments /\ Start(env).error = "" /\ Start(env).token = ""
        /\ gateway.by = "pod" => env.anonymous = "false"
        /\ gateway.by = "agent" => env.anonymous = ""
    BY DEF IInv, Started, Serving
  <2>2. Trim(env.token) = "" /\ ListenerError(env, "") = ""
    BY <2>1, WhatServes
  <2>3. env.anonymous = "true"
    BY <2>2 DEF ListenerError
  <2>4. gateway.by \in {"pod", "agent", "hand"}
    BY DEF IInv, TypeOK, Serving
  <2> QED
    BY <2>1, <2>2, <2>3, <2>4
<1> QED
  BY <1>1, Invariance, PTL

\* A gateway that serves holds its callers to the limit that was set.
THEOREM LimitsHold == Spec => []LimitsAreNeverDropped
<1>1. IInv => LimitsAreNeverDropped
  <2> SUFFICES ASSUME IInv, Serving, env.limit # Unset
               PROVE  /\ env.limit # Malformed
                      /\ gateway.config.limit = Number(env.limit) /\ Number(env.limit) >= 0
    BY DEF LimitsAreNeverDropped
  <2>1. env \in Environments /\ Start(env).error = "" /\ gateway.config = Start(env)
    BY DEF IInv, Started, Serving
  <2>2. ~LimitError(env) /\ Start(env).limit = Number(env.limit)
    BY <2>1, WhatServes
  <2>3. Number(env.limit) \in {-1, 0, 5}
    BY DEF Number
  <2>4. env.limit # Malformed /\ Number(env.limit) >= 0
    BY <2>2, <2>3 DEF LimitError
  <2>5. gateway.config.limit = Number(env.limit)
    BY <2>1, <2>2, Zenon
  <2> QED
    BY <2>4, <2>5
<1> QED
  BY <1>1, Invariance, PTL

\* A gateway of a local run serves with the token its consumers were handed.
THEOREM HandedTokensWork == Spec => []HandedTokenIsEnforced
<1>1. IInv => HandedTokenIsEnforced
  <2> SUFFICES ASSUME IInv, Serving, gateway.by = "agent"
               PROVE  handed # "" /\ gateway.config.token = handed
    BY DEF HandedTokenIsEnforced
  <2>1. /\ env \in Environments /\ Start(env).error = "" /\ gateway.config = Start(env)
        /\ handed \in {"secret", Generated} /\ handed = env.token
    BY DEF IInv, Started, Serving
  <2>2. Start(env).token = Trim(env.token)
    BY <2>1, WhatServes
  <2>3. Trim(handed) = handed /\ handed # ""
    BY <2>1, TrimmedToken DEF Generated
  <2> QED
    BY <2>1, <2>2, <2>3
<1> QED
  BY <1>1, Invariance, PTL

\* A service that nobody edited or configured comes up when it is run.
THEOREM NewServicesComeUp == Spec => []NewServicesRun
<1>1. IInv => NewServicesRun
  <2> SUFFICES ASSUME IInv, gateway # Nothing, gateway.by = "agent", ~edited, ~gateway.configured
               PROVE  gateway.config.error = ""
    BY DEF NewServicesRun, Serving
  <2>1. /\ gateway.config = Start(env)
        /\ env.anonymous = "" /\ env.limit = Unset /\ env.backend = "mem"
        /\ env.token \in {"secret", Generated}
    BY DEF IInv, Started
  <2>2. ~LimitError(env)
    <3>1. Number(Unset) = 0 /\ Unset # Malformed
      BY DEF Number, Unset, Malformed
    <3>2. Number(env.limit) = 0 /\ env.limit # Malformed
      BY <2>1, <3>1, Zenon
    <3> QED
      BY <3>2 DEF LimitError
  <2>3. ListenerError(env, Trim(env.token)) = ""
    BY <2>1, TrimmedToken DEF ListenerError, Malformed, Generated
  <2>4. Kind(env) = "mem"
    BY <2>1 DEF Kind, Env
  <2>5. FromEnv(env) = [error |-> "", kind |-> Kind(env), limit |-> Number(env.limit),
                        token |-> Trim(env.token)]
    BY <2>2, <2>3, <2>4 DEF FromEnv, Registered, SelfContained
  <2>6. ASSUME NEW k, NEW l, NEW t,
               FromEnv(env) = [error |-> "", kind |-> k, limit |-> l, token |-> t]
        PROVE  FromEnv(env).error = "" /\ FromEnv(env).kind = k
    <3>1. /\ [error |-> "", kind |-> k, limit |-> l, token |-> t].error = ""
          /\ [error |-> "", kind |-> k, limit |-> l, token |-> t].kind = k
      OBVIOUS
    <3> QED
      BY <2>6, <3>1, Zenon
  <2>7. FromEnv(env).error = "" /\ FromEnv(env).kind = "mem"
    BY <2>4, <2>5, <2>6, Zenon
  <2>8. Start(env) = FromEnv(env)
    BY <2>7 DEF Start
  <2> QED
    BY <2>1, <2>7, <2>8, Zenon
<1> QED
  BY <1>1, Invariance, PTL

\* Consumers in the cluster are told the port the service listens on.
THEOREM ConsumersAreToldThePort == Spec => []ConsumersDialTheGateway
<1>1. IInv => ConsumersDialTheGateway
  BY DEF IInv, Rendered, ConsumersDialTheGateway
<1> QED
  BY <1>1, Invariance, PTL
=============================================================================
