# A verification development of service-warehouse

TLA+ models of the data-warehouse gateway and its agent, the TLC runs that
check them on small instances, and theorems about them that the TLA+ proof
system checks for every value of the constants. Paths are relative to the
repository.

The repository builds two programs. The **gateway** (`cmd/service-warehouse`)
serves one gRPC contract over whichever warehouse backend its environment
names. The **agent** (`main.go`, `runtime.go`, `builder.go`) is a plugin that a
host drives: it runs the gateway in a local container, hands its consumers a
token, and renders the gateway's Kubernetes deployment. Two workflows publish
both.

## Inventory

| Component | State | Operations | Interacts with | What is hard |
|---|---|---|---|---|
| In-memory backend (`internal/backend/mem/mem.go`) | two maps under one RWMutex | list, get, create, drop; refusals for the engine plane | called by every handler goroutine at once | two maps to keep together, checks that must still hold when acted on, listings that range over a map, locks on early returns |
| Backend contract, error codes (`internal/backend/backend.go`, `internal/serr`) | none | calls, options, codes | implemented by backends, mapped to statuses by `toStatus` | what a code promises a client that branches on it |
| Query stream (`server.go`, `Query`) | a reader it must close, a position | run, header, batches | backend's reader, client's flow control | end against error, cancellation while blocked, release on four exits |
| Insert stream (`server.go`, `InsertRows`, `streamBatchReader`) | the stream's position | header, batches, answer | the backend pulls through the reader | half-close against break-off, misplaced messages, which error the client sees |
| Unary handlers, conversions (`server.go`, `convert.go`) | translation tables | translate in, call, translate out | backend, clients that poll, copy schemas and pick advertised formats | enumerations that number differently on both sides, inverses of tables, nesting, values nobody knows |
| Gateway process (`cmd/service-warehouse/main.go`) | backend, listener, server, signal channel | start, serve, stop gracefully, exit | grpc.Server, handlers, the operating system | three goroutines and the handlers racing a signal and a timer |
| Gateway configuration (`internal/config`, `internal/backend/registry.go`, `duckdb.go`) | the environment | `FromEnv`, `Open` | read by the process at start | order of refusals, zero and unset, anonymous against token |
| Agent runtime (`runtime.go`, `main.go`) | token, owned environment, configuration | `Init`, `Start`, `Test`, `Stop`, `Destroy` | Docker by container name, the host, consumers | partial failure, rollback, retry, an agent that dies and leaves a container |
| Readiness (`runtime.go`, `WaitForReady`) | a budget, a ticker, an attempt, one connection for all attempts | poll health, then Capabilities | the gateway, grpc's connection, the host's context | nested deadlines, ticks that queue, a gateway that hangs, a connection that dials again less and less often |
| Agent settings and configuration (`main.go`, `runtime.go`) | settings, the resolved configuration | `LoadConfiguration`, `resolveGatewayToken` | a run's or a deployment's configuration, the gateway's `FromEnv` | precedence of blanks and empties, what is trimmed where |
| Builder (`builder.go`, `templates/deployment`) | none of its own | `Create`, `Deploy`, `servicePort` | the core library, the cluster, other services' endpoints | what a manifest means once a secret is rotated and a pod restarts; which port consumers were told |
| SBOM, Audit, image-sbom (`builder.go`, `gateway_image.go`, `cmd/image-sbom`) | the image lock | which image, of which platforms | the release's evidence, a local override | a report about an image nobody inventoried |
| Release (`.github/workflows/release.yml`) | registry tags, artifacts, releases | four jobs per tag | concurrent runs, re-runs | a tag shared by all runs, failures between publishing steps |
| Unpublished-image exception (`.github/scripts/allow-unpublished-image.sh`) | git history | one decision | git's listing of a path's history | history of any shape |
| Agent's `Load` and information, image publication, generated code, templates for new services | - | - | the core library | - |

What makes each of them correct:

* **Catalog.** Every call is atomic and takes effect between its invocation and
  its return; nothing is dropped or replaced that nobody asked for; every call
  returns.
* **Streams.** A result arrives in order and whole or not as a success; rows
  are acknowledged only if all were taken; readers are released; handlers end.
* **Translation.** A table is described as it was asked for, at every depth;
  dispositions and formats mean the same on both sides; a job that ended is seen
  to have ended.
* **Process.** A signal ends it whatever the handlers do and leaves no client
  waiting; only force breaks a stream; the backend is closed behind the last
  handler and its reader unless the grace ran out.
* **Configuration and deployment.** No gateway is anonymous unless someone
  started it so by hand; a limit is never silently dropped; the token handed to
  consumers is the one enforced; consumers dial the port the service listens on.
* **Agent.** A container it started can be removed; consumers hold the token the
  gateway enforces; earlier tokens are revoked; waiting for readiness ends in
  time and tells the truth.
* **Release.** What consumers can resolve is tested, built for its version and
  inventoried, and so is what a released agent deploys and reports.

`PROJECT.json` lists the hazards at their lines, with the properties that cover
them or the reason none does.

## Modules

| Module | Models | Composes |
|---|---|---|
| `CatalogCalls` | the calls, options, codes and answers of the catalog plane; Go maps | |
| `Catalog` | abstract specification: what the catalog promises | `CatalogCalls` |
| `RWMutex` | `sync.RWMutex` (external) | |
| `MemBackend` | `mem.go` under concurrent handlers; implements `Catalog` | `CatalogCalls`, instances of `RWMutex` and `Catalog` |
| `QueryStream` | `Server.Query` with its stream and client | |
| `GatewayProcess` | `main`, `run`, `gracefulStop` with opaque handlers | |
| `Serving` | the process with a query stream among its calls | instances of `GatewayProcess` and `QueryStream` |
| `InsertStream` | `Server.InsertRows`, `streamBatchReader`, `toStatus` | |
| `Translation` | `convert.go`, as operators | |
| `UnaryCalls` | the unary handlers of tables, loads, jobs and capabilities, against a backend | `Translation` |
| `GatewayConfig` | `FromEnv` and `backend.Open`, as functions of the environment | |
| `AgentConfiguration` | `Create`'s default, `LoadConfiguration`, the token, the container's environment, `servicePort` | `GatewayConfig` |
| `Deployment` | from a new service to a gateway: edits, local runs, `Builder.Deploy`, the manifest, pods over time | `AgentConfiguration` |
| `AgentRuntime` | the agent's lifecycle calls, Docker, agent restarts | |
| `Readiness` | `WaitForReady`, `probeGateway`, in discrete time | |
| `ReleasePipeline` | `release.yml`, concurrent runs, failures, re-runs; what agents built from a tag deploy, audit and report | |
| `UnpublishedLock` | the script of CI over a git history | |
| `MemBackend_proofs`, `AgentRuntime_proofs`, `InsertStream_proofs`, `Serving_proofs`, `Readiness_proofs`, `Deployment_proofs`, `ReleasePipeline_proofs`, `UnaryCalls_proofs` | inductive invariants and theorems | each extends the module it is named for |
| `MC*` | instances for TLC | |

How state and actions correspond to the code:

* **`MemBackend`.** A client is a handler goroutine with one call; `pc` is its
  next statement. `Invoke` and `Return` are the server's handler around the
  method. `RLock`, `Lock`/`Announce`/`Acquire` and the unlocks are the mutex
  calls (a `Lock` has two waits, for other writers and for the readers that
  were in). `CreateDataset`, `DropDataset`, `CreateTable`, `DropTable` are the
  checks, which answer or let the call through; `AddDataset`, `AddTables`,
  `DelDataset`, `DelTables`, `AddTable`, `DelTable` are one map statement each;
  `ScanDatasets` and `ScanTables` are one turn of a range loop each. The
  refinement to `Catalog` takes as the abstract catalog the datasets that are
  in both maps, and a drop as effective from its first delete on.
* **`QueryStream`, `InsertStream`.** `pc` is the handler's place; the wire and
  the client are variables of their own. Every error branch of the handlers is a
  disjunct. gRPC is external: FIFO, bounded ahead-of-client room, the status
  after what was sent.
* **`GatewayProcess`.** One variable per goroutine (`main`, `stopper`,
  `drainer`) and one state per RPC; `GracefulStop`, `Stop` and `Serve` behave as
  `main.go` relies on. `ListenerBreaks` is the error of `Accept` with which
  `Serve` returns while handlers run.
* **`Serving`.** One of the calls is a query: its handler's steps are
  `QueryStream`'s and its return is the process's `Finish`. `Break` is what takes
  the connection away under the stream: it may happen in the step of a forced
  `Stop` and in the exit of the process, and at no other time, because
  `GracefulStop` returns only when every handler's status is written.
* **`Translation`, `UnaryCalls`.** Enumerations are their numbers on both sides,
  taken from the Go constants of both sides. Columns nest: a list of columns is a
  forest whose nodes sit at their paths, and the conversions, which recur into
  the fields, convert every node and leave it where it is. Each handler is one action that
  translates in, does to the backend what `backend.go` says of the options it
  got, and translates out. `reply` is the last answer, so that a client may
  create a table from a description it was given; `given` and `asked` remember
  what the client meant.
* **`GatewayConfig`, `AgentConfiguration`, `Deployment`.** A record of the
  variables that decide something; `FromEnv` has the source's order of refusals,
  as a chain of conditions where more than one may hold.
  Raw values differ by what trimming does to them. `Deploy` refuses as
  `builder.go` does; the pod's environment follows the template, in which a later
  entry of a name wins; secrets rotate, pods restart and read them again. A
  gateway started by the agent, by a pod or by hand goes through the same
  `Start`.
* **`AgentRuntime`.** `Init` is `BeginInit`, `ResolveGatewayToken`,
  `OwnEnvironment`, `RunGateway`, `CreateConnectionConfiguration`, each with its
  failure; `teardown` is shared by `Destroy` and the rollback as in the code.
  `Restart` may happen at any step and resets what the process held, not what
  Docker holds. Tokens are numbers: 0 is the one an operator pinned, the others
  are in the order they were generated.
* **`Readiness`.** Time passes only while the code waits. The attempt's deadline
  is the lesser of its own and the budget's, as nested contexts make it; the
  ticker's channel holds one tick. All attempts share the connection that
  `NewClient` makes (`runtime.go:260`). It is grpc's, with grpc's defaults, and so
  external: the first call dials and waits for that dial (`FirstDial`); once a
  dial failed, the connection dials again by itself (`Redial`), after a delay of
  1 s that grows by 1.6 from dial to dial up to 120 s and is drawn within a fifth
  of that; a dial may take as long as the delay after it, and 20 s at least; until
  a dial succeeds, calls fail at once and do not reach the gateway (`FailFast`),
  because none of them asks to wait for ready. A connection that breaks fails the
  call on it and is idle, and the next call dials. The gateway has one address.
* **`ReleasePipeline`, `UnpublishedLock`.** One action per step that changes
  something others see; the two tags of `imagetools create` are two actions, the
  steps of one job are re-run together. `Ask` is any request to an agent built
  from a tag, with or without `SWH_GATEWAY_IMAGE` set; evidence and reports are
  sets of image and platform.

## Runs

TLC checks for deadlock in every run except `unpublished_lock`, where the bound
on commits ends all work. Every property has a mutant in `PROJECT.json`: a
plausible bug in a definition that makes the property fail.

| Run | Checks | Shows |
|---|---|---|
| `mem_safety` | `TypeOK`, `SectionsHoldTheLock`, `MapsAgree`, `NoStoreIntoNilMap`, `CatalogSpec`, `TablesGoOnlyWhenAsked` | any two catalog calls, in every interleaving of their statements, are atomic; that nothing is overwritten and a dataset starts empty is in what the atomic catalog answers and does |
| `mem_liveness` | `EveryCallReturns` | readers and writers do not starve or block each other |
| `readiness` | `TypeOK`, `WithinBudget`, `ReadyIsSeen`, `WaitEnds` | the wait is bounded, given up at once with its host, and misses a gateway that is up only if it has been up for no longer than an attempt takes, or than the connection's delays kept the attempts from it |
| `agent` | `TypeOK`, `StartedIsOwned`, `ConsumersHoldTheToken`, `EarlierRunsAreRevoked` | no failure or death of the agent leaks a container it could remove or a token |
| `serving` | `TypeOK`, `ClosedWhenQuiet`, `OkIsComplete`, `OnlyForceBreaksStreams`, `SignalEndsEverything`, `AbandonedHandlersReturn` | shutdown ends, at the right moment and for every client; results are whole and in order or not OK; a handler whose client is gone finds out |
| `insert` | `TypeOK`, `OkMeansEveryBatch`, `RowsAreAPrefix`, `EveryStreamIsAnswered` | rows are acknowledged only if all were taken, and none is taken over a gap |
| `unary` | `TypeOK`, `SchemasAreKept`, `DispositionIsHonoured`, `AdvertisedFormatsLoad`, `PollingEnds` | the translation keeps its meaning over any sequence of calls |
| `deployment` | `TypeOK`, `AnonymousOnlyByHand`, `LimitsAreNeverDropped`, `HandedTokenIsEnforced`, `NewServicesRun`, `ConsumersDialTheGateway` | no path from a service, a request or an environment to an anonymous gateway nobody started by hand, to a token that differs, or to a port nobody dials |
| `release` | `TypeOK`, `ReleasesResolve`, `ReportsAreEvidenced`, `TagsAreInventoried` | two concurrent releases with failures and re-runs publish nothing untested or uninventoried, and released agents name nothing else |
| `mem_codes` (violated) | `AlreadyExistsMeansIfNotExists` | the comment at `internal/serr/serr.go:20` says the opposite of the code |
| `insert_header` (violated) | `MisplacedHeaderIsAClientError` | `server.go:233-234` against `toStatus` |
| `unpublished_lock` (violated) | `ExceptionEndsAtTheFirstLock` | `allow-unpublished-image.sh:12-13` against git's history simplification |

### Findings

* `AlreadyExists` is answered when `IfNotExists` is *not* set; its comment says
  "an if-not-exists create found an existing object". The comment is wrong.
* The batch reader refuses a header sent mid-stream with `InvalidArgument`, and
  says that it is a client error. A backend that returns its reader's error
  unchanged sends it through `toStatus`, which knows `serr` codes only: the
  client sees `INTERNAL`. No backend of the repository reads batches yet, so
  this waits for the first one that does.
* The script follows "both parents of merges", it says. `git rev-list --all --
  path` simplifies history and follows only a parent that left the path
  unchanged. A topic branch that records a digest, deletes it again, is merged
  and is deleted leaves no trace in that listing: the exception is granted
  although the history records a digest. `--full-history` would list it.

### A limit worth knowing

`readinessPollInterval` paces the attempts, but while the connection is failing
they do not reach the gateway: dials that are refused from the start come at about
0, 1, 2.6, 5.2, 9.3, 16, 26, 43 and 70 s. A gateway that is up from 44 s on may be
reported as not ready at 60 s. What does hold is `ReadyIsSeen`: with the constants
of the program, a gateway that is up and accepting before 29 s, and stays so, is
always seen if its dials were only refused before, and one before 19 s if a dial
hung as well. Calls that wait for ready would not help, since the delays are the
connection's; a lower `MaxDelay` in `grpc.WithConnectParams` would. No document
says otherwise, so this is no finding.

### Bounds, and why they are enough

* `mem_safety`: two clients with every call and option over two datasets, one
  table name, two payloads of each kind. A violation needs two calls in each
  other's way; two payloads tell "existing" from "requested" and two datasets
  tell "this one" from "another". The theorems cover any number for the
  invariants. Clients, datasets, metas and schemas are interchangeable and are
  symmetry sets; liveness is checked without symmetry.
* `mem_liveness`: three clients, a reader and two writers: enough for a writer to
  wait for a writer and a reader at once.
* `readiness`: budget 30, probe timeout 4, interval 2 for 60, 5
  and 1 seconds; first delay 2, longest 8, least time of a dial 6 for 1, 120 and
  20. What matters is kept: several attempts fit, the interval is shorter than the
  timeout (assumed), the budget is no multiple of the timeout, so the last attempt
  may be cut short; a dial may outlast an attempt, several dials fit, and the delays grow,
  vary and reach their cap. In the program the cap is beyond the budget and makes
  no difference; the theorem is about any values.
* `agent`: at most three generated tokens (`MaxMinted`), hence up to three runs
  of generated tokens and any number with a pinned one; the theorems cover any
  number.
* `serving`: one query of up to four messages over a window of two, so that the
  handler blocks, and two other calls, so that a drain may have none, one or
  more to wait for, and one that never ends.
  `insert`: four messages of any kinds, so that a header or an empty message may
  come before, between and after batches.
* `unary`: one table, two jobs, two formats the backend loads. Two jobs are what
  a disposition needs: rows to replace or to add to. What a client may ask for is
  the constant `Lists`, of which `MCUnaryCalls` takes two: no columns, and a list
  with a mapped type, `UNSPECIFIED`, `UNKNOWN` and a number nobody knows, side by
  side and two levels deep; formats and dispositions include a number the
  gateway's proto does not have.
* `deployment`: one representative per class of value each check tells apart. A
  request is unusual in its configuration or elsewhere (references, mappings),
  not in both: `Deploy` looks at them in separate refusals. Local runs come
  before the first deployment: they share nothing but the settings.
* `release`: two tags and two digests, with every assignment of trees and labels:
  the shared `latest` needs two runs.
* `unpublished_lock`: two branches and five commits; the counterexample needs
  that many.

### Fairness

* `MemBackend`: weak fairness of each client's steps (goroutines are scheduled),
  strong fairness of the entry to the inner mutex, because `sync.Mutex` hands
  over in arrival order once a waiter has waited a millisecond. No client need
  ever call.
* `Readiness`: the goroutines, the code's and the connection's, run and time
  passes. The gateway owes nothing.
* `Serving`: main's steps from `Serve` on, the stopper and the grace timer run,
  and the client reads on. No handler need ever take a step, and accepted calls
  need not end: a backend call may hang. `AbandonedHandlersReturn` states the one
  assumption it needs besides, that the handler runs, as its premise: no deadline
  is set on backend calls in the gateway.
* `UnaryCalls`: the backend runs its jobs and the client polls. No other call
  need be made.
* `InsertStream`: the handler runs. No client need send, close or cancel.

`AgentRuntime`, `Deployment` and `ReleasePipeline` promise nothing about
progress: each waits for someone outside.

## Proofs

Every invariant and every action property that a passing run checks is also a
theorem, for every value of the constants. Each proof module names an inductive
invariant `IInv` and proves that it holds initially, that every action preserves
it (one lemma per action), and that it implies the properties. TLC checked each
`IInv` on the instance of its run before it was proved. None of the properties
below is inductive by itself; what `IInv` adds is the argument.

**`MemBackend_proofs`**: `TypeOK`, `SectionsHoldTheLock`, `MapsAgree`,
`NoStoreIntoNilMap`, and the refinement. Assumed: `NoClient` is no client, the
workload consists of calls, `NoCall` and `NoAnswer` are told apart from calls and
answers. A writer's statement is safe because of what its check saw, which is
still true because nobody else was in the section, which holds because of the
mutex. So `IInv` adds: which calls can be at which statement (`OpAt`), who holds
and waits for the mutex (`Locking`, `RW!Exclusion`), what is in a listing so far
(`Listing`), what each pending statement relies on (`Checked`), and how far apart
the maps are between two statements (`MapsDiffer`). `WriterAlone` is the lemma
the steps share; lemmas about the map operators of `CatalogCalls` come first.

The second part proves `Spec => CatalogSpec` (`Linearizable`) and the action
property `TablesGoOnlyWhenAsked` (`DropsAreAskedFor`). The invariant adds that a
listing under way agrees with the map it ranges over (`Snapshots`) and that what
is stored are maps (`Stored`). Then each action is one step of `Catalog` under
the refinement mapping or changes nothing the mapping sees: a read, a check that
answers or a refusal is the call taking effect; of the two statements of a create
the second is, and of a drop the first.

**`AgentRuntime_proofs`**: `TypeOK`, `StartedIsOwned`, `ConsumersHoldTheToken`,
`EarlierRunsAreRevoked`. Assumed: the bound on generated tokens is a number.
Tokens are generated in increasing order, so the one a run resolves is none that
was handed out before (`Generated`, `Fresh`); the container that `Init` reports
runs with it (`Configuring`); and it is the one handed out. Ownership follows
from the order in `startGateway` (`Owning`).

**`InsertStream_proofs`**: `TypeOK`, `OkMeansEveryBatch`, `RowsAreAPrefix`.
Assumed: nothing but the module's bound on messages. While the backend pulls,
what was received is the header and then batches, all of them taken (`Rows`);
only the end of the stream, reached with everything received, leads to OK
(`Complete`), and a client that closed sends no more. `ErrorsAreErrors` is about
`toStatus`: no error becomes an OK.

**`Serving_proofs`**: `TypeOK`, `ClosedWhenQuiet`, `OkIsComplete`,
`OnlyForceBreaksStreams`. Assumed: the bound on batches is a number and the
window has room. The process half of `IInv`: nothing is accepted before `Serve`
(`Early`) or after the server stopped, so a server that stopped without force has
no handler (`Quiet`), and a process past `Serve` served nobody or was drained
(`Over`). The stream half: what the client has, followed by what is on its way,
is 0, 1, 2, ... (`InOrder`), as many as the handler's place says (`Progress`),
and the client hears the handler's status only once nothing is on its way
(`Told`). The halves meet in `BreakStep`: an exit that breaks a stream was not a
drained one. Each half is proved against its own module's actions, and `Together`
says what a composed step has to show besides.

**`Readiness_proofs`**: `TypeOK`, `WithinBudget`, `ReadyIsSeen`, and that no time
passes once the host gave up (the safety half of `WaitEnds`). Assumed: the
durations are positive, the interval is no longer than the timeout, as 1 and 5
seconds are, and the first delay no longer than the longest (`BackoffAssumption`).
Three arguments meet in `IInv`. By the end of an attempt a tick is waiting or the
budget is spent (`TicksAreDue`), so the next attempt starts at once. A delay is
reached by the delays before it: as each is 1.6 times the one before and they vary
by a fifth, none is longer than all that had passed when its dial was made, and the
first delay (`Backoff`). So a connection that misses a gateway which is up tries
again within `Outage`, and once it does not miss it any more it stays so
(`Regained`); a gateway that is up and accepting is then met within an attempt,
and was not met for no longer than `Overlooked` (`Recent`).

**`Deployment_proofs`**: `TypeOK`, `AnonymousOnlyByHand`, `LimitsAreNeverDropped`,
`HandedTokenIsEnforced`, `NewServicesRun`, `ConsumersDialTheGateway`. Nothing is
assumed: the secrets behind `SWH_ALLOW_ANONYMOUS` may hold anything. A gateway is
what `FromEnv` makes of its environment, and an environment has the shape its
starter gives it (`Started`): a pod's says `"false"`, because a manifest that was
not refused does (`Rendered`), and a local run's names a token. `WhatServes` says
what `FromEnv` has checked of a gateway that comes up.

**`ReleasePipeline_proofs`**: `TypeOK`, `ReleasesResolve`, `TagsAreInventoried`,
`ReportsAreEvidenced`. Assumed: `latest` is no version and the local override no
digest of the registry. `IInv` says what each place of a run's jobs implies was
done before, what a tag was set from, and that none of it is taken back by
another run or a re-run.

**`UnaryCalls_proofs`**: `TypeOK`, `SchemasAreKept`, `DispositionIsHonoured`,
`AdvertisedFormatsLoad`. Assumed: the loadable formats are formats, "none" is no
job, and `Lists`, the columns a client may ask for, is any set of forests
(`IsForest`: every node has its parent, any number for a type), so that the
theorems are about columns of any width and depth. The lemmas follow each table of `convert.go` back by its inverse:
`TypesTwice` for every number, `ColumnsTwice` for columns of any width and depth,
`FormatsTwice`. `IInv` then says that a table holds the translation of the
columns it was given, a load that of the disposition it was asked with, and the
last answer about formats what the backend loads.

Only model-checked: liveness (`EveryCallReturns`, the eventuality of `WaitEnds`,
`SignalEndsEverything`, `AbandonedHandlersReturn`, `EveryStreamIsAnswered`,
`PollingEnds`), because fairness and `ENABLED` are out of the prover's reach; and
the three violations, which are counterexamples on an instance.

## Not modelled, and why

* What `Native`, `queryOptsIn`, `tableRefIn`, `datasetOut` pass through, and the
  bytes of rows and schemas: copied, and nothing in the repository acts on them.
  A query timeout of the request is multiplied into nanoseconds
  (`convert.go:166`) and overflows if it is large; no backend reads it yet.
* An `Unload` from an empty SQL text: the handler lets it through
  (`server.go:186-187`), although `backend.go:285-286` says that exactly one of
  table and SQL is set; only a backend that unloads can say what it means.
* What a configured value of blanks should do: it takes precedence over the
  setting and is then trimmed to nothing (`main.go:161, 171`). The model has the
  behaviour, the repository states no intent.
* The agent's `Load` and `GetAgentInformation`, the rendering of templates and
  the scan of an image: done by the core library, which is not in the
  repository. `publish-gateway-image.yml`: a composite action of another
  repository.
* The CLI's binding of an environment's configuration onto a rendered manifest
  (`deployment.yaml.tmpl:41-44`): done by another program, after the render.
* The token interceptors (`callertoken`) are core's. What they are given is
  modelled, not how they compare.
* Aliasing of stored slices and maps in `mem.go`: values in the model.
* Two lifecycle calls of one agent at once: the host serialises them. There is no
  lock in the code, and whether the host ever lets go of a running call is not
  visible here. Whether a second `Init` of one process hands out the first one's
  configurations as well is decided by a list in the core library.
* Which image `latest` should name after a re-run of an older tag: the model has
  the behaviour, the repository states no intent.
* Of the connection to the gateway: keepalives, the resolver, and a name with
  several addresses. The readiness probe dials the one native address.
* Steps that add nothing to what is checked: the failure of
  `CreateConnectionConfiguration` (`runtime.go:134-136`), which could only fail to
  load the configuration that `Init` has loaded before; the failure of
  `SendAndClose` itself (`server.go:217`), which a client that is gone does not
  see; the `envFrom` of the ephemeral profile (`deployment.yaml.tmpl:80-84`), over
  which explicit entries win; the check of a gRPC endpoint for nil
  (`builder.go:256`), which `Load` sets; the name in the lock that `release.yml`
  compares (`release.yml:93-96`), one more refusal; images that are named without
  platforms (`builder.go:84, 100, 137`), which the model gives both.
* The marshalling, descriptors and stubs under `gen/`: generated from the proto.
  Its constants, the column and the oneofs are in `Translation`, `UnaryCalls`,
  `InsertStream` and `QueryStream`.

## Plan

Done first, in this order: the catalog with its mutex and abstract
specification, because every caller depends on it; the agent's lifecycle and
readiness; the gateway process; the streams; configuration and deployment; the
release. Then: the streams inside the process, the unary handlers and their
translation, the agent's configuration and ports, what released agents report.

Next, extending the model:

1. `AgentRuntime` with `Readiness` and `AgentConfiguration`: `Start` against the
   gateway its container actually resolves.
2. `InsertStream` under a forced stop, as `Serving` does for queries.
3. Paging, once a backend honours it.

Next, proving:

1. Abstract specifications of the wait for readiness (an answer within the
   budget that is true of the gateway) and of a query (an atomic hand-over of the
   whole result), each with its refinement.
2. That the steps which liveness rests on cannot be lost: which action is enabled
   at each place of a handler, as a safety property.
