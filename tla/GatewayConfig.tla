---------------------------- MODULE GatewayConfig ----------------------------
(***************************************************************************)
(* FromEnv (internal/config/config.go) and what main makes of its result:  *)
(* the gateway's environment, and whether a gateway comes up with it.      *)
(*                                                                         *)
(* An environment is a record of the variables that decide something. Each *)
(* value is one of a few that differ: "" is unset, Malformed does not      *)
(* parse. limit stands for SWH_MAX_QUERY_BYTES and for SWH_QUERY_TIMEOUT,  *)
(* which are treated alike; database for SWH_DATABASE or SWH_DSN.          *)
(***************************************************************************)
EXTENDS Integers

Malformed == "malformed"
Unset     == "unset"

Kinds     == {"mem", "duckdb", "bigquery"}
Databases == {"", "db"}
Limits    == {Unset, Malformed} \cup {"-1", "0", "5"}
RawTokens == {"", " \n", "secret", "secret\n"}
Generated == "a fresh token"   \* what callertoken.Generate returns
Booleans  == {"", "true", "false", Malformed}

Environments ==
  [backend : Kinds \cup {"", Malformed}, database : Databases, limit : Limits,
   token : RawTokens \cup {Generated}, anonymous : Booleans]

\* strings.TrimSpace.
Trim(raw) ==
  CASE raw = " \n"      -> ""
    [] raw = "secret\n" -> "secret"
    [] raw = "mem\n"    -> "mem"
    [] OTHER            -> raw

\* strconv: the number a limit names; 0 leaves it to the backend.
Number(limit) ==
  CASE limit = "-1" -> -1
    [] limit = "5"  -> 5
    [] OTHER        -> 0

\* The kinds the binary registers, and those that need no database: the two
\* there are need none.
Registered    == {"mem", "duckdb"}
SelfContained == {"mem", "duckdb"}

\* env: a variable's value, or the default for one that is unset.
Env(value, def) == IF value = "" THEN def ELSE value

Kind(e) == Env(e.backend, "duckdb")

Error(why) == [error |-> why, kind |-> "", limit |-> 0, token |-> ""]

\* callertoken.CheckListener (external), after SWH_ALLOW_ANONYMOUS is parsed.
ListenerError(e, token) ==
  IF e.anonymous = Malformed                       THEN "anonymous"
  ELSE IF token = "" /\ e.anonymous # "true"       THEN "no token"
  ELSE IF token # "" /\ e.anonymous = "true"       THEN "both"
  ELSE ""

LimitDefaulted(e) == e.limit = "-1"   \* mutation: what does not parse is 0

LimitError(e) == e.limit = Malformed \/ Number(e.limit) < 0

FromEnv(e) ==
  LET token == Trim(e.token)
  IN  IF LimitError(e)                                        THEN Error("limit")
      ELSE IF Kind(e) \notin Registered                       THEN Error("backend")
      ELSE IF Kind(e) \notin SelfContained /\ e.database = "" THEN Error("database")
      ELSE IF ListenerError(e, token) # ""                    THEN Error(ListenerError(e, token))
      ELSE [error |-> "", kind |-> Kind(e), limit |-> Number(e.limit), token |-> token]

\* backend.Open: duckdb is a skeleton whose constructor fails.
Start(e) ==
  LET cfg == FromEnv(e)
  IN  IF cfg.error = "" /\ cfg.kind = "duckdb" THEN Error("open") ELSE cfg

Errors  == {"", "limit", "backend", "database", "anonymous", "no token", "both", "open"}
Configs == [error : Errors, kind : Kinds \cup {""}, limit : {0, 5}, token : {"", "secret", Generated}]
=============================================================================
