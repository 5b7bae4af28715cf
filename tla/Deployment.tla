----------------------------- MODULE Deployment -----------------------------
(***************************************************************************)
(* From a new service to a running gateway. The service is created and its *)
(* settings edited; the agent runs a gateway locally (Runtime.Init), or    *)
(* Builder.Deploy refuses a request or renders a manifest, and the cluster *)
(* (external) starts pods with the environment the manifest describes.     *)
(* Whatever starts it, the gateway resolves its environment with FromEnv   *)
(* (GatewayConfig). The operator may rotate the secret and deploy again at *)
(* any time, pods restart, and a gateway may be started by hand.           *)
(***************************************************************************)
EXTENDS AgentConfiguration

CONSTANTS Nothing,           \* no service, manifest, gateway or token
          AnonymousSecrets   \* what a secret behind SWH_ALLOW_ANONYMOUS may hold

VARIABLES settings,   \* service.codefly.yaml
          edited,     \* someone chose its values
          manifest,   \* the rendered manifest that is applied
          secret,     \* the Kubernetes secret behind SWH_AUTH_TOKEN
          flag,       \* the one behind SWH_ALLOW_ANONYMOUS, if referenced
          env,        \* the environment of the gateway started last
          gateway,    \* what Start made of it
          handed      \* the token a local run handed to consumers

vars == <<settings, edited, manifest, secret, flag, env, gateway, handed>>

\* Where a request may name SWH_ALLOW_ANONYMOUS.
Mentions == {"nowhere", "reference", "configuration"}

\* bound: a request is unusual in its configuration or elsewhere, not in both.
Requests ==
  [conf : Configurations, tokenReference : {TRUE}, anonymous : {"nowhere"},
   mappings : {<<{}, "container">>}]
  \cup [conf : {NoConfiguration}, tokenReference : BOOLEAN, anonymous : Mentions,
        mappings : Mappings]

Manifests ==
  [backend : Kinds \cup {""}, database : Databases, anonymous : {"reference", "literal"},
   port : {ContainerPort, AllocatedPort},
   told : {{}, {AllocatedPort}}]

TypeOK ==
  /\ settings \in Settings \cup {Nothing} /\ edited \in BOOLEAN
  /\ manifest \in Manifests \cup {Nothing}
  /\ secret \in RawTokens /\ flag \in AnonymousSecrets
  /\ env \in Environments \cup {Nothing}
  /\ gateway \in [by : {"pod", "agent", "hand"}, configured : BOOLEAN, config : Configs]
                   \cup {Nothing}
  /\ handed \in {Nothing, "secret", Generated}

Init ==
  /\ settings = Nothing /\ edited = FALSE /\ manifest = Nothing
  /\ secret \in RawTokens /\ flag \in AnonymousSecrets
  /\ env = Nothing /\ gateway = Nothing /\ handed = Nothing

-----------------------------------------------------------------------------
(* The service *)

CreateService ==
  /\ settings = Nothing
  /\ settings' = Create([backend |-> "", database |-> ""])
  /\ UNCHANGED <<edited, manifest, secret, flag, env, gateway, handed>>

EditSettings ==
  /\ settings # Nothing /\ gateway = Nothing
  /\ settings' \in Settings /\ edited' = TRUE
  /\ UNCHANGED <<manifest, secret, flag, env, gateway, handed>>

StartWith(environment, by, conf) ==
  /\ env' = environment
  /\ gateway' = [by |-> by, configured |-> conf # NoConfiguration, config |-> Start(environment)]

\* Runtime.Init, from the configuration on: it refuses a credentials file.
\* (bound: before anything is deployed.)
RunLocally(conf) ==
  LET resolved == LoadConfiguration(settings, conf) IN
  /\ settings # Nothing /\ manifest = Nothing
  /\ resolved.credentialsFile = ""
  /\ StartWith(ContainerEnvironment(resolved), "agent", conf)
  /\ handed' = GatewayToken(resolved)
  /\ UNCHANGED <<settings, edited, manifest, secret, flag>>

-----------------------------------------------------------------------------
(* Builder.Deploy *)

RejectsConfiguredOnly(r) ==   \* mutation: the secret references are not looked at
  r.anonymous = "configuration"

\* rejectAnonymousDeploymentConfiguration: the key is reserved, whatever its
\* value and wherever it is.
RejectsAnonymous(r) == r.anonymous # "nowhere"

\* renderedValue: a value that cannot stand in the manifest.
Unrenderable(resolved) == resolved.backend = Malformed

Refused(r, resolved) ==
  \/ RejectsAnonymous(r)
  \/ PortFails(r.mappings)
  \/ Unrenderable(resolved)
  \/ resolved.credentialsFile # ""
  \/ resolved.token # ""
  \/ ~r.tokenReference

\* A refused request changes nothing. The template writes SWH_ALLOW_ANONYMOUS as
\* the literal "false", then the secret references: of two entries of that name
\* the later one counts.
Deploy(r) ==
  LET resolved == LoadConfiguration(settings, r.conf) IN
  /\ settings # Nothing /\ ~Refused(r, resolved)
  /\ manifest' = [backend |-> resolved.backend, database |-> resolved.database,
                  anonymous |-> IF r.anonymous = "reference" THEN "reference" ELSE "literal",
                  port |-> ServicePort(r.mappings),
                  told |-> ToldPort(r.mappings)]
  /\ UNCHANGED <<settings, edited, secret, flag, env, gateway, handed>>

RotateSecret ==
  /\ secret' \in RawTokens
  /\ UNCHANGED <<settings, edited, manifest, flag, env, gateway, handed>>

\* The kubelet starts the gateway, or starts it again.
PodEnvironment ==
  [backend |-> manifest.backend, database |-> manifest.database, limit |-> Unset,
   token |-> secret,
   anonymous |-> IF manifest.anonymous = "reference" THEN flag ELSE "false"]

StartPod ==
  /\ manifest # Nothing
  /\ StartWith(PodEnvironment, "pod", NoConfiguration)
  /\ UNCHANGED <<settings, edited, manifest, secret, flag, handed>>

\* A gateway started by hand, with any environment, where there is no service.
StartByHand ==
  /\ settings = Nothing /\ gateway = Nothing
  /\ \E environment \in Environments : StartWith(environment, "hand", NoConfiguration)
  /\ UNCHANGED <<settings, edited, manifest, secret, flag, handed>>

Next ==
  \/ CreateService \/ EditSettings \/ RotateSecret \/ StartPod \/ StartByHand
  \/ \E conf \in Configurations : RunLocally(conf)
  \/ \E r \in Requests : Deploy(r)

Spec == Init /\ [][Next]_vars

-----------------------------------------------------------------------------
Serving == gateway # Nothing /\ gateway.config.error = ""

\* No deployment, however it was asked for, and no local run ends in a gateway
\* that answers callers without a token: only one started by hand does, if its
\* operator said so and gave no token (builder.go:194-202, 211-248;
\* config.go:85-108).
AnonymousOnlyByHand ==
  Serving /\ gateway.config.token = "" =>
    gateway.by = "hand" /\ env.anonymous = "true" /\ Trim(env.token) = ""

\* A limit an operator sets is the limit that holds: what cannot be one stops
\* the gateway (config.go:45-53, 118-120).
LimitsAreNeverDropped ==
  Serving /\ env.limit # Unset =>
    env.limit # Malformed /\ gateway.config.limit = Number(env.limit) /\ Number(env.limit) >= 0

\* The token a local run hands to consumers is the one its gateway enforces, in
\* whatever form it was configured (main.go:163-171, runtime.go:154-185,
\* config.go:73).
HandedTokenIsEnforced ==
  Serving /\ gateway.by = "agent" => handed # "" /\ gateway.config.token = handed

\* A new service, as it was created and without a configuration, runs (main.go:
\* 51-53, builder.go:296-308).
NewServicesRun ==
  gateway # Nothing /\ gateway.by = "agent" /\ ~edited /\ ~gateway.configured => Serving

\* The Kubernetes service listens on the port its consumers are told to dial,
\* whatever other endpoints the request maps (builder.go:250-278).
ConsumersDialTheGateway == manifest # Nothing => manifest.told \subseteq {manifest.port}
=============================================================================
