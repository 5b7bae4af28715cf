------------------------- MODULE AgentConfiguration -------------------------
(***************************************************************************)
(* What the agent makes of a service's settings, of the configuration a    *)
(* run or a deployment comes with, and of its network mappings: Create,    *)
(* LoadConfiguration, resolveGatewayToken and the environment of           *)
(* startGateway, servicePort and the rendered Kubernetes service (main.go, *)
(* runtime.go, builder.go, templates/deployment). database stands for the  *)
(* database, the dataset and the location, which are treated alike.        *)
(***************************************************************************)
EXTENDS GatewayConfig

RawBackends  == {"", " \n", "mem\n", "duckdb", Malformed}   \* Malformed: not renderable
RawDatabases == {"", " \n", "db"}
RawFiles     == {"", " \n", "file"}

Settings       == [backend : {"", "mem", "duckdb"}, database : {"", "db"}]
Configurations ==
  [backend : RawBackends, database : RawDatabases, credentialsFile : RawFiles, token : RawTokens]
NoConfiguration == [backend |-> "", database |-> "", credentialsFile |-> "", token |-> ""]

CreateUnset(settings) == settings   \* mutation: no default

\* Builder.Create.
Create(settings) ==
  [settings EXCEPT !.backend = IF @ = "" THEN "mem" ELSE @]

\* A value takes precedence if it is not empty. It is trimmed only then, so a
\* blank one erases the setting.
Resolve(setting, value) == Trim(IF value # "" THEN value ELSE setting)

TokenAsConfigured(settings, conf) ==   \* mutation: the token is not trimmed
  [backend |-> Resolve(settings.backend, conf.backend),
   database |-> Resolve(settings.database, conf.database),
   credentialsFile |-> Trim(conf.credentialsFile), token |-> conf.token]

LoadConfiguration(settings, conf) ==
  [backend |-> Resolve(settings.backend, conf.backend),
   database |-> Resolve(settings.database, conf.database),
   credentialsFile |-> Resolve("", conf.credentialsFile), token |-> Resolve("", conf.token)]

-----------------------------------------------------------------------------
(* A local run *)

GatewayToken(resolved) == IF resolved.token # "" THEN resolved.token ELSE Generated

\* startGateway leaves out what is empty: the gateway sees it as unset.
ContainerEnvironment(resolved) ==
  [backend |-> resolved.backend, database |-> resolved.database, limit |-> Unset,
   token |-> GatewayToken(resolved), anonymous |-> ""]

-----------------------------------------------------------------------------
(* Ports *)

ContainerPort == 9465
AllocatedPort == 8080   \* what core allocated to this service's endpoint
AnotherPort   == 7070   \* and to the endpoint of another service

\* The mappings of a request: of a gRPC endpoint of another service, and of this
\* one's, which may be external or have no container instance.
Mappings == (SUBSET {"another"}) \X {"none", "container", "external", "no container"}

AnyServicePort(m) ==   \* mutation: the first gRPC mapping is taken
  IF m[1] # {} THEN AnotherPort ELSE IF m[2] = "container" THEN AllocatedPort ELSE ContainerPort

ServicePort(m) == IF m[2] = "container" THEN AllocatedPort ELSE ContainerPort
PortFails(m)   == m[2] = "no container"

\* The port consumers in the cluster are told, if they dial the Kubernetes
\* service at all.
ToldPort(m) == IF m[2] = "container" THEN {AllocatedPort} ELSE {}
=============================================================================
