# Verification of platform_sdk

`platform_sdk` is a Python library for services and agents: it authorizes tool
calls with OPA, connects agents to MCP servers over SSE, finds and registers
services in a platform registry, caches tool results and prompts, and wires
configuration, telemetry and lifecycle around them. Its core is asyncio code on
one event loop per process. A step of the models is therefore the code between
two `await`s, and what can go wrong is what happens at the awaits: state read
before and used after, answers out of order, cancellation, time-outs, outages.

## The system

| Component | Source | State | Operations | Talks to | What is hard | What makes it correct |
|---|---|---|---|---|---|---|
| Circuit breaker | `resilience.py` | failure count, deadline | `is_open`, `record_success`, `record_failure` | embedded in OPA client, tool cache, registry client | many calls record into one breaker in the order of their answers | open exactly while the latest outcomes were failures and young enough |
| OPA client | `security.py` | breaker, HTTP client | `authorize`, `aclose` | OPA over HTTP | retries, outages, cancellation, calls in flight when the breaker opens, what counts as a grant | fails closed; a denial has a cause; every call returns |
| MCP tool bridge | `mcp_bridge.py` | session, stop and connected events, task | `connect`, `disconnect`, `_reconnect_loop`, tool closures | MCP server over SSE; the callers' tasks | a background task, three kinds of callers, reconnects, backoff, cancellation | one owner of the connection; no dead session left behind; stops when told, else reconnects |
| Registry client, reading | `registry/client.py` | cache, breaker, refresh task | `lookup`, `start_refresh`, `stop_refresh` | registry over HTTP | lookups race with the refresh; stale fall-back in outages | bounded staleness; stale only in an outage; converges |
| Registry client, writing | `registry/client.py`, `base/application.py` | heartbeat task | `register_self`, heartbeat, `deregister` | registry, which evicts silent services | eviction, restarts, time-outs that land late | a live service stays registered; a stopped one does not |
| MCP service | `base/mcp_service.py` | authorizer, cache, pool, registry client | `lifespan`, `run_with_registration` | all of the above; FastMCP | the lifespan runs once per connection over shared fields; partial failures | what is opened is closed, once, and not under somebody else |
| Agent application | `fastapi_app/base.py`, `bridge_health.py` | bridges, dependencies, status at startup | `lifespan`, `_connect_bridges`, `readiness` | registry client, bridges | order of startup and teardown, failures in the middle, a swallowed DELETE | teardown undoes startup, but for what it cannot know; readiness tells the truth |
| Tool pipeline | `authorized_tool.py`, `cache.py`, `models.py` | Redis contents, breaker | `authorized_tool`, `cached_tool` | OPA client, Redis, the tool | races of equal calls, outages of Redis, late commands, what counts as an error | no unauthorized result; no cached error; Redis never surfaces |
| Prompt manager | `prompt_manager.py` | prompts with time stamps | `get_prompt`, `get_chat_prompt`, `invalidate_cache` | LangFuse's client, which has a cache of its own; threads | no lock; fallbacks cached like prompts | what is served is young enough; what was invalidated is gone |
| Compaction | `compaction.py` | none | the modifier | LangGraph | boundaries of the budget, tool results between request and answer | keeps the end, the system prompt and, while its turn fits, the request |
| Agent context | `auth.py`, `mcp_auth.py` | secrets in the environment | signing, verifying, masks, filters | bridge and servers | rotation of secrets | least privilege by default |
| Configuration | `config/` | none | `load_config` | files, environment | merging, escapes, one error per phase | what is loaded is the overlay's or else the base's |
| MCP server base | `mcp_server_base.py` | `_resources` | `lifespan`, `create_base_resources` | OPA client, cache, pool | cannot run (see *Not modelled*) | |
| Schema introspection | `schema_introspection.py` | none | `introspect_schema` | PostgreSQL | several queries, no transaction, others commit | the prompt states nothing that never was |
| Agent construction | `agent.py`, `services/` | none | state modifiers | LangGraph, LiteLLM | the modifiers around compaction | the request reaches the model |
| Command line | `cli/main.py` | none | `check-env-example` | files | reads text where the loader reads YAML | what it accepts loads, unless YAML escapes hide a reference |

Telemetry, metrics, logging, the HTTP and LLM wrappers, the protocols and the
test support keep no state that several actors share, or only write output.
`PROJECT.json` lists every component with its status, and under `hazards` the
places where the code can go wrong in ways a test would hardly reach.

## Modules

| Module | Models |
|---|---|
| `CircuitBreaker` | `CircuitBreaker` as operators on a record: failures and the time left until `_open_until` |
| `OpaClient` | `OpaClient`: concurrent `authorize()` calls over one breaker; its properties |
| `MCPBridge`, `MCPBridgeProperties` | `MCPToolBridge` and the closures it makes; its properties |
| `BridgeSteps`, `BridgeContract` | what a bridge promises the code that holds it: the steps, and the abstract specification made of them |
| `RegistryClient`, `RegistryClientProperties` | `RegistryClient`, reading side; its properties |
| `ToolPipeline` | `authorized_tool` and `cached_tool` in both orders over one `ToolResultCache` and Redis |
| `BridgeHealth`, `AgentApp` | `BridgeHealthMatrix`, and the lifespan of `BaseAgentApp`, over bridges that behave as `BridgeSteps` says |
| `McpService` | the lifespan of `McpService`, `run_with_registration`, and the writing side of `RegistryClient` |
| `Identity` | tokens, signed headers, row filters and column masks while the secrets are rotated |
| `Prompts` | `PromptManager` |
| `Compaction` | the compaction modifier and the one `AgentBuilder` wraps around it |
| `SchemaIntrospection` | `introspect_schema` against a database that changes |
| `ConfigLoader` | `load_config` and `check-env-example` |
| `MC...` | the model values of the instances that TLC checks; `MCLibrary` puts the last five components side by side |
| `...Proofs` | theorems about the module of that name; `MCPBridgeProofs` also: the bridge implements its contract; `AgentProofs`: `AgentApp`, `Compaction` and `ConfigLoader`; `LibraryProofs`: `Prompts`, `Identity` and `SchemaIntrospection` |

`OpaClient`, `RegistryClient` and `ToolPipeline` extend `CircuitBreaker`, as the
three classes own one. Components compose through what they promise:
`ToolPipeline` uses of the OPA client that a call is granted or refused
(`FailClosed`), `AgentApp` uses of the registry client that a
lookup ends (`LookupsEnd`) and of a bridge its contract, which `MCPBridge` is
shown to implement. Definitions marked *Slip* are plausible mistakes in the
code; replacing the definition after them by the slip must break the property
they were written for (`mutants` in `PROJECT.json`), which shows that the
property says something about the code.

### CircuitBreaker

`time.monotonic()` is only compared with `_open_until`, so the record keeps the
time that is left (`openFor`, at most `RecoveryTimeout`) instead of the
deadline, and the failure count is saturated at the threshold, beyond which
nothing can tell it apart.

### OpaClient

One caller is a member of `Calls` and makes one call at a time, again and
again. `Authorize` is the code up to the first POST; `Decide`, `HttpError` and
`TransientError` are the return, the `HTTPStatusError` clause and the two
retried clauses; `Retry` is the end of the sleep; `Cancel` is a `CancelledError`
at either await; `Close` is `aclose()`. OPA is a switch that may flip at any
time: while it is up an exchange ends in a decision, while it is down in any of
the three kinds of failure. A decision is what `bool()` makes of the result:
`true`, any other value that Python takes for true (`truthy`, such as an
object), a `falsy` one, or none (`missing`); the first two grant. The
variables named *history* do not influence the code; they record what the
properties speak of.

### MCPBridge

A member of `Loops` names what one `connect()` creates: the task and its two
events. `current` says whose events the attributes hold, since the loop reads
the attributes and not the events it was started with. `pc[l]` is where the task
stands: `start`, `opening` (entering `sse_client` and `ClientSession`),
`handshake` (`initialize()`), `holding` (`_stop_event.wait()`), `closing`,
`failing` and `cancelling` (unwinding the exit stack after the event, an
exception or a cancellation), `backoff` (one slice of the sleep), `done`.
`held[t]` is the session a tool call captured; when the stack is unwound it
becomes `Closed`. The server is a switch; when it fails every connection is
lost, and one that accepts the stream need never answer `initialize()`.
`Overlap` selects whether `connect()` may be called on a bridge in use.
The SDK calls it once per bridge, at startup, and disconnects at shutdown; the
class documents more (see below).

### RegistryClient

`cache`, `snapshot` (the local `cached`) and `answer` carry the age of the entry,
which is what the code looks at, and the age of the data in it, which is what a
caller would care about. A request is answered at one moment and the answer
travels for a while, so that a lookup and the refresh may be answered in one
order and arrive in the other. The registry's contents change at any time; the
server may be down or answer with bodies that do not validate.

### ToolPipeline

A call is `idle`, or awaits the policy (`auth`), the tool (`run`) or Redis
(`get`, `set`). `CacheOutside` says which tools have `cached_tool` outside
`authorized_tool`; `FirstStage`, `CacheStage`, `MissStage` and `GrantStage` are
what follows what in the two orders. Redis carries out a request (`RedisServes`)
before its reply arrives (`RedisAnswers`), so one that raises at the client
(`RedisRaises`, which the code swallows and counts in its breaker) may have been
carried out, or may be on its way still: `Abandons` puts such a `SETEX` among
the `late` ones, which Redis carries out when it likes (`LateServed`) or never.
`Trimmed` maps a request to the one whose required input is stripped and cut,
which the policy, the tool and a cache inside are given; a cache outside uses
the arguments of the caller (`CallKey`). A result is its kind, the request it
answers, its age and whether the run that made it was granted. `IsErrorResponse`
keeps every `ToolResponse` out of the cache, also a successful one, as the code
does: its JSON has the key `error`.

### BridgeSteps, BridgeContract

A bridge is `off`, `seeking`, `asking` (the session is published and
`initialize()` unanswered) or `up`, told to stop or not, its task killed or not.
The refinement mapping (`AbstractBridge` in `MCPBridgeProperties`) is read off
the attributes: a published session is `asking` or `up`, a running loop without
one is `seeking`, the stop event of the current loop is `told`. The contract has
one fairness condition, the promise of `disconnect()` for a bridge that is not
`asking`.

### BridgeHealth, AgentApp

`host` chooses a matrix, or an application that finds its servers by
`mcp_dependencies` (registry) or `mcp_servers` (configuration). Each await of
the lifespan is a stage; `After` is the order of the calls to the agent's own
code and stores, each of which may raise (`CallRaises`), which leaves the
lifespan where it is. `listed` is the registry's side: `_deregister` sends a
DELETE whose failure the client logs and forgets (`RegistryAfter`), so that an
agent may have stopped its heartbeat and still be offered. `connect_all`
gathers: each `connect()` keeps what it saw when it returned, and all of it
becomes the startup status when the last has.

### McpService

A process is a connection, whose lifespan FastMCP runs on the one shared
service object, or one of the two coroutines that `run_with_registration` gives
to its background loop. A request (`POST`, `DELETE`) is in the network until the
registry serves it or it is lost; its sender may be gone by then. `field`,
`owned` and `open` are the attributes, the `_owns` flags and what is really
open, each resource named after the connection that made it. `Before` is the
order of the teardown. `clean` records that nothing raised, timed out or
overlapped.

### The library modules

`Identity`: a secret is a family and a generation, a signature the secret it
needs; services are redeployed one by one and retire their `*_PREVIOUS`, in any
order, with either secret, both or (in a dev environment) none configured.
`Prompts`: threads that take no lock, so that looking for an entry, checking its
age and reading it are three steps, and deleting the keys of a name one per key.
The langfuse client has a cache of its own and may give any version; `given` is
how long ago it gave a value for a key. `Compaction`: messages are a role and a
number of tokens; `Say` lets system messages come first, the model answer when it
was asked and tools answer the model; `TrimMessages` is LangChain's, external.
`SchemaIntrospection`: one step per query, others commit between; a column is its
name and how many values it has, its type, nullability and comment are left out.
`ConfigLoader`: files as trees of mappings. A string is a sequence of runs: a
number of dollars, how many of them (`plain`) stand in the text as they are, and
the name or other text that follows; the loader goes by the first number and
`check-env-example` by the second. `remarks` are the names that only the text
shows, in comments, keys and overlays of other environments. A list is its
leaves, each with its path in the list. A mapping nests to a depth that the
constant `Keys` gives, with the keys of each depth; the recursion of
`_deep_merge` and `_substitute` is by that depth, the functions for one depth
made of those for the depth below. The reference definition of the merge
(`MergedLeaves`) goes by the paths of leaves, of which `{}` is one: in the
overlay it replaces a leaf but leaves entries alone.

## What TLC checks

| Run | Instance | Shows |
|---|---|---|
| `Opa` | 2 calls, 2 attempts each, threshold 2, recovery 2 | `FailClosed`, `DenialJustified`, `BreakerTracksOutcomes`, `TrickleBounded`, `CallsReturn`, `BreakerRecovers` |
| `OpaSingleProbe` | the same | *violated*: two probes at once |
| `Bridge` | 2 connections, 2 callers, 1 tool task, backoff capped at 2 | the ownership of the session and of the task, `DisconnectStops`, `NoAttemptAfterStop`, `DisconnectEnds`, `Reconnects`, `InvocationsReturn`, and `ImplementsContract`: the bridge refines `BridgeContract` |
| `BridgeConnectRace` | the same with `Overlap`, cap 1 | *violated*: `disconnect()` hangs |
| `RegistrySafety` | 1 service, 2 lookups, refresh 1, stale limit 2, time-out 1, threshold 2 | `BoundedStaleness`, `StaleOnlyInOutage` |
| `RegistryLiveness` | 1 service with 2 versions, 1 lookup, threshold 1 | `LookupsEnd`, `CacheConverges` |
| `RegistryNotFoundMeansNoUsableEntry` | 1 service, 1 lookup | *violated*: a stale snapshot decides |
| `Tool` | 2 calls, 2 tools with the same argument, one per order of the decorators, one of them trimmed, TTL 1, socket time-out 1, 1 late command for 1 unit more, threshold 2, recovery 1, symmetric calls | `ResultsAuthorized`, `ErrorsHaveCause`, `StaleBounded` |
| `Agent` | 2 servers, the three hosts | `ReportedTruthfully`, `LeavesNothing`, `UnlistedFirst`, `LifespanMoves` |
| `Service` | 2 connections, authorizer and pool, with and without the background registration and the registry | `FieldsOpen`, `AloneIsSafe`, `ServesAndExits` |
| `ServiceListedWhileServing` | the same | *violated*: the first connection that closes unlists the service |
| `Library` | 2 accounts, 3 sets of claims, 2 generations of secrets; 1 prompt as text and chat, 2 threads, 1 version and a fallback, TTL 2, calls of 1 tick; histories of 4 messages of 0, 1 or 3 tokens, limits 2 and 4; 4 databases, 3 commits; files of two depths with two keys in the inner mapping, 1 variable, 4 strings with 1 to 3 dollars, some of them escapes, 1 list and 1 required key | `RotationKeepsIdentity`, `PromptsAreRecent`, `RequestReachesModel`, `PromptIsHonest`, `CheckedConfigLoads` |

`TypeOK` of the modules that are proved about is checked in their runs as well.

Bounds. The breaker, the retry loop, the caches and the fields of a service
treat all calls, entries and connections alike, so two give every interleaving
of one with *another*; two attempts have a first, a last and a retry; threshold
2 distinguishes the first failure from the one that opens. Two connections of a
bridge are a bridge used, stopped and used again. Two tools that differ only in
their name and in the order of their decorators would collide if the key left
the name out. An authorizer and a pool are a resource that is created at once
and one that is created across an await. The refresh period is shorter than the
stale limit, as the defaults (30 s and 300 s) are. Four messages have a leading
system message, something to trim, and the request; sizes 0, 1 and 3 against
limits 2 and 4 fit exactly, not at all, and weigh nothing. The two calls of `Tool`
are interchangeable, which its symmetry set says; the run has no liveness
property. One late `SETEX` suffices to age a result beyond the TTL and the two
requests. Two generations of a
secret are the current and the previous one. The theorems below remove these
bounds for the safety properties. Services of the registry are independent in
the code except for the breaker and the listing; one service with two lookups
exercises both.

`Agent`, `Service`, `ServiceListedWhileServing` and `Library` disable the
deadlock check, because those systems end: an agent has stopped or its lifespan
has raised, a process has exited, a deployment is loaded.

Fairness. Weak fairness of the event loop only: a request over HTTP ends (the
clients have time-outs), a sleep ends, a task that can run runs, time passes; in
`AgentApp` the agent's own code returns or raises and a bridge that is not
`asking` ends when told, which is the contract's fairness; in `McpService` the
background thread starts what it was given and `fut.result(timeout=10)` ends.
Callers are never obliged to call, servers and tools never to answer, come back
or stay up, connections never to close. In particular nothing obliges a server to
answer `initialize()` or `list_tools()`, for which the bridge has no time-out:
`DisconnectEnds`, `DisconnectEndsUnlessCancelled` and `Reconnects` have in their
premise that no handshake lasts for ever (`HandshakesEnd`), `LifespanMoves` has it
for the shutdown, though not for the startup, which `startup_timeout` ends; and a
call in `list_tools()` is not obliged to return. `Reconnects`, `BreakerRecovers`
and `CacheConverges` assume in their premise that an outage ends.

## Where code and documentation differ

Shown by runs (see `findings` in `PROJECT.json`):

- `resilience.py:36`: a *single* probe after the recovery timeout. `is_open`
  changes nothing, so every call that arrives before the first answer goes
  through. `TrickleBounded` is what does hold while the breaker is open.
- `mcp_bridge.py:301`: `connect()` and `disconnect()` are safe to call from any
  task. A `connect()` during a `disconnect()` replaces the event the first loop
  reads; the loop goes on and `disconnect()` waits for ever.
- `registry/exceptions.py:10`: `ServiceNotFound` only if no usable entry is
  cached. A lookup decides from the entry it read before its request.

- `base/mcp_service.py:178`: `run_with_registration` registers a service "that
  lives for the whole process". `lifespan()` runs once per SSE connection and
  its `finally` deregisters the same object, so the first connection that closes
  takes the service off the registry while it serves. `AloneIsSafe` and
  `FieldsOpen` are what does hold.

Noticed while modelling and visible in the definitions, without a run:

- *Authorization.* A result that is not `true` but true for Python, such as the
  object that the URL of a whole package yields, grants (`Granted`;
  `security.py:123`); `README.md:404` of the repository says "`True` only if OPA
  explicitly returns `{"result": true}`".
- *Bridge.* `disconnect()` waits for ever for a loop whose server accepts the
  stream and never answers `initialize()` (`mcp_bridge.py:394`, `511`), and with
  it the shutdown of the agent. `is_connected` (`mcp_bridge.py:356`, "live and
  ready") is true during the handshake and while a lost connection is unwound
  (`TransportOpens`, `ConnectionLost`); the backoff documented as starting at 1
  s (`mcp_bridge.py:312`) starts at 2 s after a failure (`Delay`); one tool
  schema that cannot be converted makes `get_langchain_tools` raise for all.
- *Breaker.* An open circuit may close before its 30 s are over, by the success
  of a request sent earlier (`Decide`).
- *Registry.* An unreachable registry raises `ServiceNotFound`, never
  `RegistryUnreachable` (`StaleOrRaise`). The heartbeat logs a 404 and goes on: an
  evicted service stays unlisted (`Evicts`;
  `docs/specs/2026-04-30-service-registry-design.md:473`).
- *Agent.* A dependency skipped at startup is never tried again (`FindServer`);
  `readiness()` reports a bridge lost after startup as `disconnected` while it
  reconnects, unless it was reconnecting at startup (`BridgeStatus`). A DELETE
  that fails is logged (`registry/client.py:163`) and the agent stops while the
  registry offers it; `on_shutdown()` that raises, or an exception after
  `_register()`, leaves registration, store and bridges (`CallRaises`).
  `CHANGELOG.md:88-91` says that every application "gracefully deregisters on
  shutdown".
- *Tool pipeline.* An argument named `fn` would replace the function's name in
  the cache key (`CacheKey`, excluded by `PipelineAssumption`); a TTL of 0 makes
  every `SETEX` fail; a successful `ToolResponse` is never cached.
- *Secrets.* The header secret falls back to `JWT_SECRET`, but its previous
  value does not fall back to `JWT_SECRET_PREVIOUS`, so a rotation of
  `JWT_SECRET` alone refuses headers signed before it, in whatever order
  (`auth.py:62`; `NoPrevious`). An operator who sets
  `CONTEXT_HMAC_SECRET_PREVIOUS` by hand all the same is not modelled.
  `README.md:440` of the repository has services redeployed "independently
  without coordinated downtime": a signer redeployed before its verifier is
  refused (`disorderly`).
- *Rows.* `auth.py:169` says of the assigned accounts "empty tuple = no row
  restriction"; a context without accounts is denied every row (`RowFiltersCrm`;
  `auth.py:313`), as `can_access_account` has it.
- *Masks.* `compliance_full` without `aml_view` still masks the AML columns
  (`ColMask`; docstring at `auth.py:332`).
- *Compaction.* The guard means to keep "system + last user"
  (`compaction.py:161`, `249`); it keeps the last message that is no system
  message, as the docstring at `compaction.py:118` says, which in a loop with
  tools is the result of one (`SystemAndLast`). What holds is that the user's
  request stays as long as the turn it began fits (`KeepsRequests`). A single
  message over the limit is trimmed away and only the prompt is sent (`TooFew`:
  the guard needs two messages). `AgentBuilder` adds its prompt after
  compaction, so that what is sent may exceed the limit
  (`services/agent_builder.py:79`). A LangGraph without the modifier argument
  skips compaction altogether (`agent_builder.py:84`), which is not modelled.
- *Prompts.* The fallback of one caller is cached and served to others. Without a
  lock a `get_prompt()` or an `invalidate_cache()` that meets another thread may
  raise `KeyError`, or `RuntimeError` for a dictionary that changes size
  (`GetChecks`, `GetReads`, `InvalidateDeletes`, `InvalidateInterrupted`). The
  wall clock, which the code uses, is assumed not to be set back.
- *Configuration.* `check-env-example` reads the text of the files: a reference
  written `"\x24{V}"` escapes it and fails at load; one written `"\x24${V}"`,
  which is no reference, is reported (`ScanYamlVars`).
- *Removed constructors.* `mcp_server_base.py:133`, `agent.py:158` and `196`, and
  `security.py:167` call `from_env()` of `MCPConfig` or `AgentConfig`, which
  0.6.0 removed (`CHANGELOG.md:25`; `tests/unit/test_mcp_config_pydantic.py:71`),
  so `BaseMCPServer`, `build_agent` and `OpaClient.from_env` raise
  `AttributeError`.
- *Introspection* is not one snapshot: a key may name a table that is not in the
  result (`PromptIsHonest` says what is true of it).

## What is proved

All theorems are checked by TLAPS, for every value of the constants that
satisfies the assumptions stated in the modules.

- `CircuitBreakerProofs`: types of the breaker's operations.
- `OpaClientProofs`: `TypeOK`, `FailClosed`, `DenialJustified` and
  `BreakerTracksOutcomes`. The invariant adds what a call that is still out has
  done so far (it has sent one request more than its attempt number, that number
  is below `MaxRetries`, and a call in its backoff has an attempt left), and that
  the breaker's failure count is the saturated streak and, at the threshold, its
  remaining time is `RecoveryTimeout` less the quiet time.
- `MCPBridgeProofs`: `TypeOK` and `SessionHasOwner` for any overlap of
  `connect()` and `disconnect()`. Without overlap also `NoOrphanLoop`,
  `HeldSessionPublished`, `CallsUsePublishedSession`, `NeverGivesUp`,
  `DisconnectStops` and `NoAttemptAfterStop`. None of these is inductive alone:
  a loop ends only when *its* event is set because the attribute it reads is its
  own (`NoOrphanLoop`), and that survives the end of a `disconnect()` because the
  task it waited for is the one the bridge had (`WaitsForTheTask`). The module
  also shows that, without overlap, every step of `MCPBridge` is a step of
  `BridgeContract` or none (`Contract!Safety`). Beyond that invariant this needs
  that an unused loop is neither told nor killed (`Fresh`) and that a cancelled
  loop that is unwound has given up its session (`CancelledLeaves`).
- `RegistryClientProofs`: `TypeOK`, `BoundedStaleness` and `StaleOnlyInOutage`.
  The code bounds the age of an entry; the invariant relates it to the age of the
  data in it, for the cache, for the snapshots in flight and for the answers under
  way. The third follows from it in one step: a fresh entry is too young, and a
  fall-back needs an open breaker or the failure it has just recorded.
- `ToolPipelineProofs`: `TypeOK`, `ResultsAuthorized`, `ErrorsHaveCause`,
  `StaleBounded`. The invariant says where a call stands in its order of the
  decorators and what it must have seen by then (`Requested`, `GrantFirst`),
  that what it holds and what Redis holds under a key answers that key's request
  and was granted (`ValuesHonest`, `RedisHonest`), that the same is true of what
  a late `SETEX` will write (`LateHonest`), and that age and remaining time to
  live add up (`ValuesAge`). That equal keys mean equal requests is the lemma
  `KeysDiffer`; it needs the assumption that no argument is named `fn`.
- `AgentProofs`: `UnlistedFirst`, `LeavesNothing`, `ReportedTruthfully`. The
  invariant follows the order of the lifespan: no bridge is told before
  `leaving`, a bridge that is told and no longer awaited is off, the matrix has
  its own stages, a stage that raised was reached through the ones before, and
  from the DELETE on the agent is listed only if that request failed
  (`Unlisted`).
- `AgentProofs` also proves `RequestReachesModel` of `Compaction`, for histories
  of any length. The state invariant (`ChatInv`) only says what was built and
  what was sent; the work is in the modifiers. `Tokens` and `Only` are recursive
  functions on the lengths of prefixes, and what they do to a concatenation or a
  suffix is shown by induction. The library's induction theorems take a
  predicate as a parameter; `NaturalInduction` and `SequenceInduction` are
  proved here from the least element of a set of numbers (`WFMin`, whose
  parameters are sets), and speak of the set of numbers, or sequences, that
  satisfy the claim. `Recursion` shows in the same way that a function defined
  by recursion exists. `Compacts` says what a modifier may do to a history, and
  composes. That the request stays while its turn fits is that trimming keeps
  every suffix that fits (`TrimKeepsWhatFits`), that the prompts and what was
  said are the history (`SystemsThenSpoken`) and that a part of a history costs
  no more than the whole (`BeginningSaysLess`).
- And `AgentProofs` proves `CheckedConfigLoads` of `ConfigLoader`, for files
  that nest to any depth. `MappingsExist`, `LeavesExist` and `MergesExist` show
  by induction over the depth that the functions are what their equations say.
  The leaves of the merge of two mappings are the `MergedLeaves` of theirs
  (`AllMergesGood`): at one depth the merge goes key by key (`KeyMerges`), and
  leaves under different keys do not affect each other (`MergeByKeys`); under
  one key, two mappings merge as the depth below does, and otherwise one side
  stays (`OverlayWins`, `BaseStays`). That a mapping with entries has leaves,
  with longer paths (`AllHaveLeaves`, `LeavesBelow`), is needed where it
  replaces a leaf. So every reference that `load_config` finds comes from one of
  the files, where `check-env-example` has found it too unless an escape hides
  it (`ReferencesAreScanned`), and no value depends on a variable that is set
  but not referred to (`SubstituteSame`). The state invariant (`ConfigInv`) says
  only that the verdict and the result are those of the deployed files.
- `McpServiceProofs`: `FieldsOpen`, inductive with the types however connections
  overlap, and `AloneIsSafe`. The latter needs that, as long as nothing overlaps
  or raises, one lifespan runs at a time and the coroutines of the background
  loop run before and after all of them (`Exclusive`); that this lifespan owns
  what is open, kind by kind in the order of the teardown (`Holdings`); that the
  client that beats is the one in `self.registry` (`Registration`); and that the
  service is listed only while that client, or a request under way, accounts for
  it (`Requests`).
- `LibraryProofs`: `PromptsAreRecent`. An entry is no younger by its time stamp
  than the answer of the client that it holds (`EntryIsGiven`); what a thread
  found valid stays so for the length of its call (`ValidForTheCall`), though
  the entry may be replaced or deleted between the check and the read; and what
  an `invalidate_cache()` is to drop is among the keys it has still to delete
  (`DoomedAreKnown`). Also `RotationKeepsIdentity`: making a context again
  changes nothing (`NormalisedOnce`), so what a verified request acts on is the
  context of the user's claims (`Identified`), whose filters and masks show what
  the claims permit (`ShownIsPermitted`); and while the rotation is orderly a
  verifier is at most one generation ahead of its signer and of what that
  signed, and not at all once its old secret is unset (`Covered`), so that a
  refusal takes a disorder or a previous secret that is not looked up
  (`RefusedFor`, `NoPrevious`). And `PromptIsHonest`: each query's rows were
  true when it was answered, the held facts are among them, and each kind of row
  keeps this until the prompt is written (`TablesHonest`, `ColumnsHonest`,
  `KeysHonest`, `ForeignHonest`, `EnumsHonest`). The first attempt failed, for a
  reason: a comment that was there all along is not stated when the table had no
  column at the time of the column query, and TLC's databases had no such table.
  The property now says so, and they do. Each is proved of its component by
  itself (`PromptSpec`, `IdSpec`, `SchemaSpec`; in `AgentProofs`
  `CompactionSpec` and `ConfigSpec`); the `Library` run checks them in the
  composition that runs one component at a time.
- `OpaClientProofs` also proves `TrickleBounded`, which counts: the requests sent
  through an open breaker are mapped one to one to the retries that the calls had
  left when it opened.

Assumptions are the named `ASSUME`s of the modules: settings are natural
numbers, model values that stand for "nothing" are no values of the kind they
are missing from, no account has the identifier that stands for none, a request
is a tool and a record of arguments none of which is named `fn`, trimming its
input leaves the tool, the size of a message is a natural number, a database
exists and its keys are made of columns, keys of a file are strings, a leaf is
neither a mapping nor a list, and the items of a list are leaves with a path of
strings. TLC evaluates them in the runs of their modules.

Every safety property that a passing run checks is thus a theorem. Only
model-checked are the liveness properties and the liveness half of
`ImplementsContract`, since fairness is out of the prover's reach.

## Not modelled

Telemetry, metrics and logging are output. `http.py`, `llm_client.py` and
`protocols.py` hold no state of their own. The fakes under `testing/` serve the
users' tests. `BaseMCPServer` and `build_agent` cannot run: they call
`MCPConfig.from_env()` and `AgentConfig.from_env()`, which were removed, before
they open or build anything, so there is no behaviour to model. Of the modelled
components these parts are left out, because they compute without shared state:
`make_api_key_verifier`, the conversion of tool schemas and the injection of
session ids, `create_app` and CORS, the templates of `prompts.py`, the payments
filter and role ranks of `auth.py`, the Pydantic declarations of the
configuration, and the commands that write files. `services/` and the rest of
`agent.py` wire LangGraph, LangChain and LiteLLM together.

A heartbeat is not a step of its own: whether one is answered changes nothing at
the client, so the eviction of the service stands for all that are missed.
`list_tools()` may wait for ever (a hazard without a property: nothing promises
that it ends).

## Plan

1. *Proofs*: the theorems of the library modules for the composition in
   `MCLibrary`.
2. *Composition*: `AgentApp` over several instances of `McpService`, so that a
   service that unlists itself is seen by the agent that looks it up.
3. *Larger instances*: three connections in `Service`, three calls in `Tool`, as
   far as the time of a run allows.
