# LIOP: a TLA+ verification project

LIOP (Logic-Injection-on-Origin Protocol) lets a client send logic to the server
that holds the data instead of fetching the data. This directory holds TLA+
modules of its TypeScript SDK, of its Rust node and of its Studio, the TLC
configurations that check them on small instances, and TLAPS proofs.
`PROJECT.json` is the index: components, runs, mutants (one plausible bug per
property, which TLC must find), the map from every definition to the source lines
it models, findings, hazards and theorems. Paths below are relative to `src/`;
`sdk/` abbreviates `sdks/typescript/src/`.

Run `tlc -workers 2 -config X.cfg MCModule` for a run (up to three minutes each) and
`tlapm X_proofs.tla` for the proofs of a group of modules (`Studio_proofs` takes about
seven minutes, `Gateway_proofs` six, the others less).

## 1. Inventory

All but the Rust node runs on Node.js: one event loop per process, interrupted at
every `await` and callback, with worker threads only for injected logic and for
proof verification. Concurrency therefore comes from three places: handlers
interleaved at their awaits, timers, and several processes sharing files. The Rust
node runs handlers on a thread pool, with its tables behind locks and each
execution in a blocking thread.

| Component | Where | State | Operations | Hard behaviour |
|---|---|---|---|---|
| Query budget | `sdk/server/index.ts` 380-470, 2780-2940 | JSON store on disk, `.lock`, `.tmp`, map in memory | check-and-charge, reset | several processes, crashes inside the lock, I/O errors, bounded retries |
| Logic-on-Origin service | `sdk/server/index.ts` 1680-2350, `sdk/workers/logic-execution.ts` | sessions, revoked tokens, worker queue | negotiateIntent, executeLogic | every await: token, key, worker, proxied tool, scan; expiry and revocation in between |
| Token revocation list | `sdk/server/index.ts` 2660-2780 | JSON file, cached set, modification time | load, check, revoke | processes and operators share the file; it is rewritten in place |
| Audit logger | `sdk/security/audit-logger.ts` | hash chain in memory, JSONL file | record, load, verify | crash and failure in the middle of an append |
| Token manager and forwarding | `sdk/runtime/token-manager.ts`, `sdk/bin/agent.ts` | cached token, expiry, pending promise | getToken, invalidate, forwardToGateway | callers share a promise; expiry; 401 and one retry |
| Tool call limits | `sdk/server/index.ts` 1440-1640 | two kinds of sliding window, failure count | callTool | window boundaries; two checks at two instants |
| Hybrid gateway | `sdk/gateway/{hybrid,interceptor,rate-limiter,grpc-web}.ts` | open requests, buckets, draining flag | HTTP/1.1 and HTTP/2 pipelines, drain, stop | clients leave at any await; deadline of the interceptor; drain races requests |
| MCP router | `sdk/gateway/{router,mcp-compat}.ts`, `sdk/security/rbac.ts` | manifest cache, back-off per peer, shared discovery, agent token | refresh, tools/list, resolve, forward, dispatch, transcode | shared refreshes, stale manifests, failing peers, clashing names; answers in callbacks nobody awaits |
| Mesh node | `sdk/mesh/node.ts` | libp2p node, identity and peer files, announced capabilities | start, stop, announce, query, resolve | re-announcement races connects; dial back-off; torn files |
| Agent, routing table, topology probe | `sdk/bin/agent.ts`, `sdk/runtime/` | mode, routes with failure counts, mesh node | start a mode, resolve, record, answer the host | fallback between gateway and mesh, a mesh that starts late |
| MCP bridge and stream bridge | `sdk/bridge/` | session map with last use | create, route, delete, evict, stop | sessions counted before an await; requests race the eviction |
| Client, RPC, verifier | `sdk/client`, `sdk/rpc`, `sdk/crypto`, `sdk/workers/zk-verifier.ts` | connections, manifests, verifier pool | resolve, callTool, verify | concurrent calls share connections; data, end, error and verification come in any order |
| Analysis and filtering | `sdk/security/{taint-analyzer,dp-engine}.ts`, `sdk/server/{pii,ner-scanner,output-sanitizer}.ts` | none between calls | analyse, add noise, scan | sequential; verdicts are inputs of the service |
| Identity | `sdk/security/{jwt-validator,rbac,oauth-server,prm,cert-manager}.ts` | key set cache, certificates | validate, authorise, issue | outcome is an input of the service and the gateway |
| Local execution, sandbox, egress policy | `sdk/server/index.ts` 479-702, 2471-2675, `sdk/sandbox/` | worker pool, data, a directory per run | executeInWorkerPool, setSandboxData, close | no time limit for WebAssembly; data replaced under a call; outputs of any shape |
| Rust node and client | `servers/liop-node`, `sdks/rust/crates/client` | sessions, windows per agent, response channels | negotiate, execute | one-time sessions, bounded response channel, clients that leave |
| Studio | `tools/liop-studio` | active transport and target, report, subprocess and its pending requests; the page's run and history | connect, scan, tools, execute; run and cancel | requests overlap switches of target; subprocesses exit within a line; nobody answers; events out of order |
| CLI, crates | `tools/liop-cli`, `crates/` | none | — | sequential |

How they interact. A client (or the agent, on behalf of an MCP host) obtains an
OAuth token through the token manager and sends an MCP request to the hybrid
gateway. The gateway validates the token, applies its rate limiter and
interceptor and hands the request to the router, which either calls a local tool
(`callTool`: tool call limits, then the tool) or forwards it to a peer found
through the mesh. Over gRPC the service negotiates a session and executes logic:
it asks the revocation list about both tokens involved, runs the preflight policy
(which charges the query budget), queues the logic for a worker, checks the
output and records the outcome in the audit log before it answers.

What makes each part correct: budgets are never overdrawn by races and no charge
is lost; a revoked token stays revoked; no logic runs in an expired or revoked
session and nothing is released unrecorded or without the proof its mode demands;
an audit chain that verifies has no gap; tokens sent are fresh and renewed once;
limits hold in every window of time and advice to retry is honest; nothing reaches
a dispatcher without having passed every gate; drains end, and end politely; every listed name
leads to the tool it was listed for, and a peer that recovers is found again; what
is called verified has a receipt for that very result; no request, session,
subprocess or thread is forgotten when another one overlaps it.

## 2. Modules

| Module | Models | Notes |
|---|---|---|
| `AtomicBudget` | what the query budget promises | abstract specification: one charge or reset is one step |
| `QueryBudget` | the lock-file protocol | one action per file-system call of `executeWithBudgetLock`, `getPersistentBudget` and `savePersistentBudget`; implements `AtomicBudget` |
| `LogicOnOrigin` | `negotiateIntent`, `executeLogic`, worker pool | one action per stretch of code between two awaits |
| `RevocationList` | `loadRevocationList`, `isTokenRevoked`, `revokeTokenHash` | one action per file-system call; `writeFileSync` is two (truncate, fill) |
| `AuditLog` | `AuditLogger` | a hash is the identity of the sealed entry; torn lines are values |
| `TokenManager` | `TokenManager`, `forwardToGateway` | the two continuations of a fetch are separate steps |
| `AgentModes` | `bin/agent.ts`, routing table, topology probe | one action per stretch between two awaits, in each of the three modes |
| `ToolCallLimits` | `callTool`, its rate limits and the throttle of payload tools | one action per call, at two instants |
| `EgressPolicy` | `validateOutputPolicy`, `violatesAggregationFirstPolicy` | functions on small JSON values; `Aggregated` is the reference they are checked against |
| `LocalExecution` | `executeInWorkerPool`, the worker, the life of a sandbox | extends `EgressPolicy` |
| `HybridGateway` | both MCP pipelines, `InMemoryRateLimiter`, `executeGatewayInterceptor`, `drain`, `stop` | one action per stretch between two awaits or stream events |
| `McpRouter` | discovery, manifest cache, tools/list and remote calls of `LiopMcpRouter`, with `MeshNode.queryManifest` | one action per stretch between two awaits |
| `McpDispatch` | `dispatch`, `authorizeRequest`, `adaptResponse`, `performTranscoding` | one action per callback of the gRPC stream |
| `MeshNode` | `MeshNode` over several runs of its process | one action per stretch between two awaits; a file write is two steps |
| `RustNode` | gRPC service and executor of the Rust node, sample client | one action per locked section or message |
| `ReceiptVerifier` | `verifyZkReceipt` of verifier and worker, receipt codec | which receipts are accepted, as operators |
| `LiopClient` | `LiopClient.callTool` with its connections | extends `ReceiptVerifier`; one action per await or stream event |
| `StreamBridge` | `LiopStreamBridge`, `LiopMcpBridge` | extends `ReceiptVerifier` |
| `StudioServer` | Studio's API, four transports, subprocess | calls and returns of nested methods, one step per stretch between awaits |
| `StudioUi` | `useStudioExecution` | one action per event of the execution stream |

The theorems are in eight modules of their own (their number in brackets), each for
components that share a library of facts:

| Module | Proves about |
|---|---|
| `Limits_proofs` | `QueryBudget` with `AtomicBudget` (7), `ToolCallLimits` (5), `EgressPolicy` and `LocalExecution` (2) |
| `LogicOnOrigin_proofs` | `LogicOnOrigin` (4) |
| `ServerFiles_proofs` | `RevocationList` (1), `AuditLog` (1) |
| `Agent_proofs` | `TokenManager` (1), `AgentModes` (1) |
| `Gateway_proofs` | `HybridGateway` (4), `McpRouter` (3), `McpDispatch` (1) |
| `Nodes_proofs` | `MeshNode` (1), `RustNode` (2) |
| `ClientBridge_proofs` | `LiopClient` and `StreamBridge`, each over `ReceiptVerifier` (4, one of them of both) |
| `Studio_proofs` | `StudioServer` (1), `StudioUi` (1) |

The `MC*` modules name model values and constant functions. Components that share no
state are checked side by side in one run: such an MC module extends both, a variable
`part` says which of the two moves (the other stays in an initial state), and the
fairness of an action that is enabled initially is asked of the moving part only.

### Correspondence

**QueryBudget.** `store`, `tmp`, `lock` are the three files; `mem` is
`fieldQueryBudget`; `pc`, `op`, `snap`, `attempts`, `outcome` are the local
variables of the synchronous operation a process is in. `StartQuery` is phase 3 of
`runPreflightPolicy`, `StartReset` is `resetFieldBudget`. `AcquireLock`,
`LockBusy`, `LockFault` are the three outcomes of creating the lock file;
`ReadStore`/`ReadFault` read the store (an unreadable one counts as empty);
`WriteTmp`, `Rename`, `SaveFault` save it; `ReleaseLock`/`ReleaseFault` are the
`finally`; `HandleError` is the caller's catch, which falls back to memory;
`Crash` restarts a process with its memory gone. `granted`, `fellBack` and
`lapses` are history: what was admitted on which ground, and how often a store was
taken for empty.

**LogicOnOrigin.** `pc[c]` names the await at which a call waits; `call[c]` its
local variables; `queue` the pool's queue. `Admission` is the part of both
handlers before the first await, `Proceed` the part of `executeLogic` up to the
decapsulation. Verdicts of the validator, the preflight policy, the worker, the
output policy and the scan are nondeterministic. `audit` is what this call left in
the chain, a failed append included, since memory is advanced before the append.
`deniedAtStart` is history. `CatchError` is the outer catch; an exception out of it
is answered on the JWT path. Elsewhere it is a rejected promise that nobody handles,
as is a key generation that rejects (`KeygenFails`): nothing in the SDK listens for
`unhandledRejection`, so Node.js ends the process. `Lives` guards every step: once
something is lost in that way nothing happens any more, and whatever was under way
stays unanswered. `Presents` and `Requests` are what the clients may send.

**RevocationList.** `file` is absent, torn (truncated but not filled) or whole;
`mem` and `last` are `revokedTokenHashes` and `lastRevocationLoadTime`. Every write
advances the modification time. `deploy` chooses who shares the file: the processes,
which of them revoke, whether an operator edits, whether it exists at first. `own`,
`sure` and `atStart` are history: the tokens revoked through this incarnation of a
process, those of them whose operation did not begin with a failing load, and the file
at the beginning of an operation.

**AuditLog.** `entries` and `lastHash` are the logger's, `log` the lines on disk.
A failed append and a death may leave half a line; a line appended to half a line
becomes part of it; a constructor that meets half a line throws. `Corrupt` alters,
removes or moves one line of the file other than the newest.

**TokenManager.** `pending` is `pendingPromise` with the stage of its request;
`exp` and `issuedAt` are what the endpoint knows. `Rotate` is the endpoint
discarding its signing key, after which earlier tokens are answered with 401.

**ToolCallLimits.** A window is the set of calls whose stamps the array holds; `log`
is the history of calls from which the properties are stated. A call reads the
clock twice, up to `Straddle` apart.

**HybridGateway.** `req[r]` is a request: protocol, stage, whether its client is
still there, whether `onDone` is attached, the gates it has passed. `active` is
`activeRequests`; `records` the limiter's buckets; `life` and `draining` the
server's. `passed` and `told` are history: the checks of a client that were allowed,
with their instants, and how long it was told to wait. On an HTTP/2 stream whose client
has gone, answering throws, in the catch block too. Nobody handles that rejection, and
Node.js ends the process: `Lives` guards every step, and the request stays `unhandled`.

**McpRouter.** `cache` is `manifestCache`, a sequence because a Map iterates in
insertion order and the order decides who gets a clashing name; `failure` and `dial`
are the back-offs of the router and of the mesh node; `discovery` is
`currentDiscovery` with the phase it is in; `query[<<w, p>>]` is a `queryManifest(p)` of
the discovery or of a call; `listing` a `getRemoteTools` that waits; `call` a
`tools/call` for a remote tool, whose phase is what it waits for; `agentToken` is
`meshAgentToken`. `world` is the environment: what each peer serves and whether a
connection is open. Time is relative: delays count down, ages count up to the TTL,
so that nothing grows. A tool name is the sequence of its parts between
underscores, which is what the suffix of a clashing name and
`resolveManifestTarget` look at. `FailureCap` is sound because the delay has
reached its maximum by then (`TimesAssumption`); `Doubled` is the code's power of two.
The repetitions of `findProviders` within one attempt are one step, `Search`, as nothing
happens between them but time; the router's own peer, which every loop skips, is not
among `Peers`. A call gives up its name when it has its peer: the address that is
resolved next, with its fallback to localhost, never fails.

**McpDispatch.** A request is what it asks (method, era of the client, scope of its
token, place of the tool); `stream` is the state of a transcoded call: the messages
received, whether it broke, what the audit of the receipt said. An answer is a
result, an error or nothing, with or without the fields of the modern era, or `dispatch`
rejects (`Thrown`): so for a `tools/call` without params. The gateway turns that into an
error, an agent in hybrid mode does not (`RouterRejects` of `AgentModes`). A rejection
that nobody handles ends the process (`crashed`), as Node.js does.

**AgentModes.** `req[r].stage` is the await of a request of the host; `mesh` the state
of the mesh node's start; `routes` the routing table, from which nothing is removed;
`gateway` is the environment. `promised` is history: the name was on a list the agent
gave out and nothing has changed since.

**MeshNode.** `file` and `peerFile` are the two files, `stage` how far `start` or `stop`
has come; `announced`, `reannouncing`, `loop` and `done` are the loop of
`reannounceAll` and its guard. libp2p is external: `provide` reaches the peers that
are connected when it ends. `settled` and `owed` are history.

**RustNode.** `sessions` and `rateLimits` are the two tables. A queue of time stamps is
the set of the handshakes it has stamps of, and `since` says how old each is; ages take
the place of instants. `run` is a blocking thread, `channel` the bounded channel to the
response stream. Tokens are drawn from a small set and may repeat, as 32-bit numbers may.

**ReceiptVerifier, LiopClient.** A receipt is what its bytes commit to; digests, seals
and proofs are perfect. `rpcClients` maps the three kinds of key (`static`, provider,
tool) to connections; a provider that moves leaves a connection with an old address
behind. `call[c]` holds the local variables of a call, the manifest it came upon
included, and the verifications under way. Keep-alive ends the stream of a provider that
has gone (`Breaks`); nothing ends a request to one that lives and is silent (`Owed`).

**StreamBridge.** `activeSessions` is the map, `open` the transports that really are
open; the two differ while a DELETE finishes, and for good when the transport refused it
(`DeleteRefused`), since the entry goes whatever it answered. A request between the check of the
limit and its session is `creating`. `answer` is the last message and what is shown for
it; a message without a result that could be compared is checked for its logic only.

**EgressPolicy, LocalExecution.** A JSON value is a leaf, the text of another value, an
array or an object. The recursion of the code is a recursive function over a set of
values closed under taking parts. `Aggregated` restates the policy over all parts that
can be reached, without the code's order of unwrapping. A call runs on the data of its
beginning; both egress checks ask for the number of records there are by then.
`TakeThread` is the pool handing a queued call to a thread.

**StudioServer, StudioUi.** A request holds the method it is in and a stack of returns
(`ret`); `turn` makes a stretch of code between two awaits indivisible. `pending` is the
table of a stdio transport, `kids` the subprocesses and the answers they owe. All the
subprocesses of a transport write into one `stdoutBuffer`: `torn` says that one of them
died within a line. The half line of a living one is not a state of its own; while
another lives beside it, either may tear the other's line (`LineSwallowed`). An uncaught
error ends the process (`lives`). `label` is the target that the page shows, 0 for the
address written in its source. `raced`, `mixed` and the ids `lost` in torn lines are
history: connects, or a switch and a scan, have overlapped.

## 3. Runs

Passing runs. TLC finishes, and for every property a mutant of the model is kept that
violates it. Some properties are conjunctions; their parts are named after what they
say in the module that defines them.

| Run | Question | Bounds and why they are enough |
|---|---|---|
| `budget` | Do races, crashes and I/O errors lose a charge, stretch the fallback, or do anything an atomic budget would not? Does every operation return? (`GrantsAreCounted`, `FallbackIsLimited`, `BudgetIsAtomic`, `OperationsReturn`) | 2 processes, 2 tools, the second with its own store and override, 3 operations, one crash each, one fault: a limit of 1 is reached and tried again by the other process, and a lock is left behind while another process waits |
| `origin_calls` | Do expiry, revocation, a full pool and a failing audit file leave every call answered, recorded and legitimate? (`OnlyEntitledLogicRuns`, `ReleasedIsRecorded`, `BlockingHasProof`, `EveryCallAnswered`) | 2 tokens, 2 negotiations, 2 calls (JavaScript and WebAssembly), 1 thread and no queue: the second call meets a full pool; a lifetime of 0 and one tick expire the session at any await. The first call presents another token than its session's, or none, and asks for the legacy or the optimistic proof; the second names either session: a key generation may reject while calls in the other session are at any await |
| `server_files` | With one editor at a time, is the revocation list honoured by those who share it? Does a restarted logger have the chain, and has a chain that verifies no gap? (`ListIsHonoured`, `ChainIsSound`) | three deployments, 2 interchangeable tokens, 3 operations per process, a crash and two faults (a load and a write of one operation may both fail); 6 audit entries, 3 restarts, 2 failed appends, 1 change of the file: a torn line in the middle and one at the end |
| `agent` | Can what was listed be called, is no request lost, are tokens fresh, is every caller answered? (`ListedIsCallable`, `EveryRequestAnswered`, `TokensAreFresh`, `EveryCallerReturns`) | 2 requests in 5 environments over the three modes, 1 change of the gateway between a list and a call; 2 callers, 3 tokens, a rotation, time enough for a token to expire and be renewed |
| `limits` | Do the windows really slide, is the advice to retry honest, is what leaves aggregated, is every local call answered? (`WindowsSlide`, `HintIsHonoured`, `ReleasedIsAggregated`, `CallsAreAnswered`) | 4 calls to 2 tools, window 2, clock to 5: windows that start between boundaries. Outputs two levels deep and their wrappings (text, array, object) under 4 policies; 2 local calls, 1 thread, a queue of 1, data of 1 or 3 records against a minimum of 2 |
| `gateway` | Does anything pass a gate it should not, do buckets, Retry-After, deadline and drain do what they say? (`NothingSlipsThrough`, `LimiterKeepsItsWord`, `DrainIsPatient`, `DeadlinesAreKept`) | 2 request slots (reused when a request ends), one client key, three configurations, window of 2 ticks |
| `router` | Do names lead to their tools, are waits bounded, is a restricted peer never called without a token, is a healthy peer found again? Does a dispatched request get an answer of its era, and is a remote result passed on only with a receipt for this request? (`ListsAreSound`, `NoTokenlessCall`, `DiscoveryRecovers`, `AnswersAreSound`, `DispatchAnswers`) | 2 peers that share a tool name with each other, with the local server and through an alias; one becomes restricted, one has a broken signature; from a mesh that is down and from one half connected; 2 changes, or 1 change with a call or a list, or 2 faults (`Bounds`: with 2 attempts per query two faults fail a query and start both delays). Discoveries and time are not bounded. One request of every method, era, scope and destination, a stream of up to 2 messages |
| `nodes` | Do identity, handlers and addresses survive restarts, do connected peers learn of the capabilities? Are sessions of the Rust node used once and within the limits, is the first verdict true, is no thread stuck? (`RestartsAreSafe`, `ConnectedPeersLearn`, `SessionsAreLimited`, `FirstVerdictIsTrue`, `EveryRunEnds`) | 2 runs of a process, the first of which finds no identity file or an earlier one (it writes and dies, the next reads what is left), 1 fault, 2 peers, one behind a container's address; 2 calls of one agent with a limit of 1, 2 tokens that may repeat, a channel of capacity 1 |
| `client_bridge` | Is a verified result bound to its call, a refused token replaced, a faulty connection forgotten, every call settled unless a living provider keeps silent? Are sessions counted, evicted justly and labelled truthfully? (`OutcomesAreJustified`, `FaultedIsEvicted`, `EveryCallSettles`, `SessionsAreAccounted`, `EvictionIsJust`) | 2 calls of one tool of 2 providers, 1 fault: one call meets what the other left in the caches; 3 requests of one address, a limit of 1, two creations at a time: both sessions exist when the third request is routed to one, deletes one, or is refused |
| `studio` | Which requests, subprocesses, reports and runs survive which overlaps? (`SwitchIsClean`, `PageFollowsItsRun`, `EverythingEnds`) | 2 overlapping requests over transports of all kinds, one of them with 2 subprocesses (an old one and its successor, which share a table and a buffer), 2 executions of the page, a history of 1 |

Violation runs: a document says otherwise (`findings` quotes it).

| Run | What the code does |
|---|---|
| `budget_fallback_exceeds` | A lock left by a dead process is never broken; queries then fall back to memory and are admitted beyond the limit the store had reached. |
| `origin_downgrade` | A client that asks for the optimistic mode gets a placeholder proof from a tool whose policy requires proofs. |

Deadlock is not checked: the models stop when their bounds (operations, calls, clock,
restarts) are used up, which the real system does not. That nothing waits for ever is
what the liveness properties say. Symmetry is used for the tokens of `server_files`
only, which no definition tells apart, in a run without liveness. The branch of
`QueryBudget` for a server without any store is not in these instances; the proofs
cover it.

### Fairness

* QueryBudget: weak fairness of a process's own steps. The code is synchronous: it
  runs on unless the process dies, and `Crash` returns it to idle. Faults and new
  operations are not fair.
* LogicOnOrigin: weak fairness of the awaited operations that are finite, key
  generation included, and of the worker for JavaScript, whose run has a limit of five
  seconds, as long as the process lives. None for WebAssembly, which has no limit, and
  `EveryCallAnswered` says so.
* TokenManager: weak fairness of the fetch and of the reply; both requests have a
  time-out.
* AgentModes: weak fairness of the start and of every handler: the requests they await
  end or time out.
* LocalExecution: weak fairness of the worker and of the checks after it. A
  WebAssembly module may still choose never to return.
* HybridGateway: weak fairness of timers and of the mesh node's stop, as long as the
  process lives. None for clients, the interceptor or the router, which may never answer.
* McpRouter: weak fairness of time and tools/list (the event loop runs what is due),
  of the background refresh (the agent schedules its poll for ever), of the work of a
  discovery and of a call up to sending it: libp2p ends a dial, a five-second timer
  every read, and the DHT attempts are counted. None for the answer to a call that
  was sent, since the gRPC call has no deadline; `DiscoveryRecovers` says so. None for
  peers, faults and clients.
* McpDispatch: weak fairness of the router's own steps while the process lives. None
  for the peer that streams the answer.
* MeshNode: weak fairness of the steps of `start`, of announcements and of the loop of
  `reannounceAll`; each ends in libp2p's time-out. None for stop, crashes and peers.
* RustNode: weak fairness of the blocking thread (bounded by fuel) and of the task that
  reads the channel. A client that leaves closes the channel.
* LiopClient: weak fairness of what a call does by itself: the lookups of the mesh and
  the token's fetch have time-outs, the workers verify in finite time, and keep-alive
  notices a provider that has gone (`sdk/rpc/channel-options.ts`). None for a provider
  that lives: `negotiateIntent` and `executeLogic` have no deadline (`sdk/rpc/client.ts`
  73, 101), and `EveryCallSettles` leaves out a call that waits for one.
* StreamBridge: weak fairness of time, of the eviction timer and of the continuations of
  handlers.
* StudioServer: weak fairness of running code, of the timer after a spawn and of what
  has a deadline or time-out: HTTP requests, health probes, scans, closing and joining.
  None for subprocesses, gRPC nodes and mesh peers: `sendJsonRpcRequest`,
  `negotiateIntent`, `executeLogic` and the mesh `callTool` wait for ever, and
  `EverythingEnds` says that nothing but these is waited for in the end.
* StudioUi: weak fairness of what the browser does with an aborted fetch and of the end
  of a stream that was answered. None for the answer: the server may leave a stream
  open for ever, and the page then stays running until the user cancels.

## 4. Proofs

For all values of the constants allowed by the named ASSUMEs of the modules, with no
bound on processes, tools, clients, calls, limits, faults, crashes or time. Every safety
invariant and every action property of a passing run is proved, `BudgetIsAtomic` (a
refinement) included. Most assumptions say only what kind of value a constant has. The
others:

* `TokenAssumption`: the answer of the token endpoint takes at most `Latency`, which is
  not more than the renewal buffer and less than a token's lifetime. The request is
  aborted after ten seconds (`sdk/runtime/token-manager.ts:133`); the buffer is half a
  minute. With tokens that live for less than ten seconds a token could be cached that
  has expired on its way.
* `GatewayAssumption`, `StreamBridgeAssumption`, `PeersAssumption`, `StudioAssumption`:
  finitely many requests, sessions or peers at a time, since the models count them, as
  the code does, or walk through them in some order.
* `RustNodeAssumption`: limits, lifetimes and the capacity of the channel are positive,
  as the constants in `servers/liop-node/src/grpc.rs` and the default lifetime are.
* `ModesAssumption`: an alias stands for a tool, and no provider calls a tool of its own
  by an alias (the table of `sdk/gateway/mcp-compat.ts` maps old names).
* `LiopClientAssumption`: what a response carries as evidence is a string, empty if
  nothing was sent. `EgressAssumption`: a value has the parts its type allows.
* `TimesAssumption` and `PeersAssumption`: the counter of failures is capped only where
  the delay has reached its maximum; a tool has a name.

Five theorems have a hypothesis of their own, because the property is false, or says
nothing, without it:

* `ListIsHonouredHolds`: `SingleEditor`, for every deployment.
* `HintIsHonouredHolds`: `MaxPerTool > 0`; with a limit of zero no instant has room.
* `ChainSound`: the file is changed from outside at most once (`MaxCorruptions <= 1`).
  Two changes can close a gap: exchange the last two lines; restart and append, so that
  the next entry is chained to the older of the two; then remove the newer one.
* `PolicyIsExact`, `ReleasedIsAggregatedHolds`: `JsonIsFinite`, that is, values have a
  depth, as every parsed JSON text and every value of the `limits` run has.
* `ListsAreSoundHolds`: `NamesAreApart`. No peer offers a tool under one of the router's
  aliases, no name with a suffix is the name of a tool or an alias, and no two peer ids
  end in the same four characters. Otherwise a listed name may lead elsewhere, which is
  a limitation of the naming scheme (`sdk/gateway/router.ts:1000`). The
  instance of the `router` run satisfies it (`InstanceIsApart`, which TLC evaluates).

**Limits_proofs: the query budget.** `IInv` strengthens the checked invariants by three parts.
`OperationsInv`: what a process is in the middle of is a real operation on the
store it names. `ProgressInv`: the budget a process is about to install is a
legitimate update of the store as it still is (nobody else can have changed it,
by mutual exclusion), and a charge that is installed but not answered is already
counted. `MemoryInv`: the fallback memory is within the limits and accounts for
what it admitted in this incarnation. Without `ProgressInv` the rename could
install an old snapshot, so none of the invariants about the store would be
inductive. From `IInv`: `TypeCorrect`, `MutualExclusionHolds`,
`StoreWithinLimitsHolds`, `GrantsAreCountedHolds`, `FallbackIsLimitedHolds`, the
action property `CountsDropOnlyByResetHolds`, and `BudgetRefinement`: every step of
the protocol is a step of `AtomicBudget` or stutters, the charge happening at the
rename.

**Limits_proofs: tool calls.** The invariant adds that the windows are complete: every call
young enough to matter has its stamp in the window, that is, the filters drop only
stamps that no later instant can find active. A set of calls that lie together and
contain a new call is then within the active set plus one, which the check keeps
within the limit: `LimitsTypeCorrect`, `ToolWindowSlidesHolds`, `GlobalWindowSlidesHolds`,
and both together, `WindowsSlideHolds`. For `HintIsHonouredHolds`, `Room` says of the
latest refusal that both windows have room from the instant on that its message names.

**Limits_proofs: egress.** `PolicyIsExact` is about a recursive function. The library's
induction theorems cannot be used, so it goes by least counterexample: `JudgementExists`
shows that the recursion of the code has a solution, which is not evident of a
CHOOSE; `OneJudgement` takes a value of least depth on which it differs from "something
looked at inside offends", and finds it impossible. With it `ReleasedIsAggregatedHolds`
follows from `ExecInv`: a job that has passed a check keeps its output, and the number of
records it was checked against is that of its beginning unless the data were replaced.

**LogicOnOrigin_proofs.** `IInv` says what a call that waits at an await has been
checked for (`EntitledInv`: its session's negotiation was accepted, and neither token
was revoked when the call came), that a session keeps the token of its negotiation
(`SessionInv`), that nothing is answered or recorded before the end (`OpenInv`), that a
call behind the proof check in blocking mode holds a native proof (`ProofInv`), and that
the pool's queue holds waiting calls, each once (`QueueInv`: otherwise `WorkerStart` could
start a call that ended long ago). From it `TypeCorrect`, `ReleasedIsRecordedHolds`,
`BlockingHasProofHolds` and the action property `OnlyEntitledLogicRunsHolds`, which
needs `EntitledInv` at the step that starts the logic.

**ServerFiles_proofs: the revocation list.** `ListIsHonouredHolds`, about the interleaving of
file-system calls of any number of processes, of crashes and failing calls. `ClockInv`: no
two writes share a modification time. `PlaceOK`: what the place of a process in
`loadRevocationList` or `revokeTokenHash` says about the file, in particular that a
process between truncating and filling it is the only editor. `CacheOK` is the heart: a cache as new as
the file holds its list and besides only what this process revoked itself; a file newer than
the cache holds what this process is sure to have revoked. Neither half is inductive
alone, since a reload trades the one for the other.

**ServerFiles_proofs: the audit log.** `ChainSound`. Before anybody touches the file its lines
stand in the order of their sealing and hold all that was returned (`Untouched`), and if
no append has failed they verify and end where memory ends (`Unfailed`). The change makes
a sequence that either still holds everything or does not verify, and whose gap no later
line can close, because a new line is chained to the last one and a verification
compares neighbours (`Complete`). A line that is half written stays so, and with it the
file never loads again.

**Agent_proofs.** `TokensAreFreshHolds`: `IssueInv` numbers tokens by issue;
`PendingInv` says that the token under way is the newest and known to nobody else (so the
repetition after a 401 cannot carry the refused one), and of which token `expiresAt`
speaks, late by at most the latency, between the two continuations of a fetch and
outside of them. `ListedCallable`: `PhaseInv` says which providers a mode can have
registered, `Gathered` that a list on its way holds only names the gateway has had, and
`OnItsWay`, for every stage of a call whose name was promised, that the stage can still
end well.

**Gateway_proofs: admission.** The invariant has two halves. `RequestsInv`: `onDone` listens
exactly while an HTTP/1.1 response is open and `active` is the number of such requests,
although two events per response decrement it; the stage of a request implies the gates
behind it; a draining gateway takes no new waiting client. `QuotaInv`: of the checks a client was
allowed, its bucket has counted those since it was opened, and fewer than a limit's worth came in the window
before; a client without a bucket has less than a limit's worth in the latest window. From
them `TypeCorrect`, `NothingSlipsThroughHolds`, `DrainIsPatientHolds` and
`LimiterKeepsItsWordHolds` (fewer than twice the limit in any window, and no refusal
after the time that Retry-After names, in whole seconds rounded up).

**Gateway_proofs: the router.** `RouterInv`: nobody is cached twice, a discovery is in its
query phase exactly while it has queries under way (`DiscoveryOwns`), a call has a
query under way only with the peer it waits for (`CallOwns`), and what a list has
waited and has still to wait add up to its deadline (`WaitsWithin`). From it
`WaitsAreBounded` and the action property `NoTokenlessCallHolds`, whose heart is that the
last check and the sending are one stretch of code. For `ListsAreSoundHolds` the nested
loop that makes the list is shown to put the tools of peers cached earlier first, and
to give a plain name once. A plain name therefore belongs to the first cached peer that
offers it, which is the one `resolveManifestTarget` finds; a name with a suffix, to the
one peer whose id ends so.

**Gateway_proofs: dispatch.** `AnswersSound`. `DispatchInv` says of each phase whether the
request may be a forwarded one and what its stream can be: silent until the peer has
accepted, and broken only with the error already given.

**Nodes_proofs: the Rust node.** `KeyInv`: a key is in the table under one token at most, and
nowhere once an execution has used it; that makes `SingleUse` inductive though tokens
repeat and requests are delivered twice. `WindowInv`: a queue holds every recent
handshake of its agent. `VerdictInv`: what a client has read and what is still in its
channel speak with one voice, the first verdict in both together is the run's, and a
reader without a verdict can still find one. From them `SessionsAreLimitedHolds` and
`FirstVerdictIsTrueHolds`.

**Nodes_proofs: the mesh node.** `RestartsAreSafeHolds`. `IdentityInv`: once settled, the identity is
on disk whole, since only a run that found no key is ever on its way to write one.
`ManifestInv`: from its first chance on a provider has its handler. `WayInv`: what leads to a
peer in the store or on disk comes from the addresses it listens on, and translating
addresses twice leads where translating them once does.

**ClientBridge_proofs.** `ClientInv` ties a call to its connection: every connection in the
table is under one key (`Tables`), the one its call goes by or the tool's (`Linked`), which
is why evicting both leaves none (`FaultedEvicted`); a call that goes on after a refusal
has a token issued after the first one it sent (`Asking`); what is being verified is no
error (`Answered`). `BridgeInv`: an address holds, with its initialisations under way, at
most `MaxSessionsPerIp - 1 + Concurrency` sessions (`Counted`), and the map and the open
transports agree but for a DELETE that finishes or was refused (`OpenInv`). From them
`BridgeAccounts`, `BridgeKeepsActive` (the safety half of `EvictionIsJust`) and, of both
modules as they are composed, `OutcomesJustified`.

**Studio_proofs.** `PageFollows`: one run goes on at a time and its controller is the page's
(`OneRun`), and no step still to come goes back in the timeline (`StepsAhead`), until an
abort lands late. `SwitchLeavesNothing`: a request is at a stack of return points that
its operation can have (`RequestsInv`); transports are made one after the other, each by
a connect, the last one active (`TransportsInv`); a transport holds the last subprocess
it started (`KidsInv`); timers end in the order of the subprocesses, so the timer of an
earlier child fires before the one of a later child (`TimersInv`); what is in a table
is waited for there (`PendingInv`); while a connect closes the active transport nothing
runs that is not killed (`Parted`); and whoever scans, scans the active transport
(`OnTarget`). All of this holds while the process lives (`Alive`). Each of the four
parts of `SwitchIsClean` needs several of these.

Only proved: the type invariants, `MutualExclusion`, `StoreWithinLimits`,
`CountsDropOnlyByReset`, `PolicyIsExact` and the parts of a property that a run checks as a
whole.

Only model-checked: liveness, since the prover does not do ENABLED and fairness
(`OperationsReturn`, `EveryCallAnswered`, `EveryCallerReturns`, `EveryRequestAnswered`,
`ConnectedPeersLearn`, `EveryRunEnds`, `EveryCallSettles`, `EverythingEnds`, `CallsAreAnswered`,
`DeadlinesAreKept`, `DiscoveryRecovers`, `DispatchAnswers` and the liveness half of
`EvictionIsJust`), and the two refutations of the violation runs, for which a
counterexample is the whole point.

## 5. Disagreements seen that no run keeps

Properties above are stated so as to allow for these, or the model has them without
a property about them.

Server and its files:

* `resetFieldBudget` does not clear a store that a tool's policy names (`sdk/server/index.ts:2803`).
* Two processes that revoke at once lose one token from the file, and its own process
  then reloads and admits it; `sdks/typescript/tests/unit/security/revocation.test.ts:101`
  expects both hashes. A crash between truncating and filling the list leaves an
  unreadable file, and a restarted process begins with an empty list; a change within
  one tick of the modification time is missed (`sdk/server/index.ts:2685`). A revocation
  whose load fails and whose write then fails too is in memory only, as the log says,
  and is gone with the next load that succeeds (2749).
* Losing the newest lines of the audit file goes unnoticed: nothing anchors its head.
  A failed append comes after the chain in memory was advanced (`audit-logger.ts:126`):
  after a restart the untouched ledger does not verify. Two loggers on one file fork
  the chain.
* Outside the JWT path an audit append that fails inside the catch block is a rejection
  that nobody handles (`sdk/server/index.ts:2338`), and so is a key generation that
  rejects (1832, 1881, 1912): either ends the process with every call under way.
* Rejections by the output policy, the proof check and a proxied tool are not in the
  audit chain (2166).
* A WebAssembly run has no time limit (`sandbox/wasi.ts:262`); its directory is left
  behind when its initialisation fails or its worker is killed.
* Both egress checks use the number of records at the time of the check, not of the
  run; texts inside arrays of primitives are not parsed; a result marked `isError`
  skips the first check.
* The windows of `callTool` are per tool, shared by all clients, where
  `docs/typescript-sdk/server.mdx:121` speaks of clients; the cool-down does not
  apply to valid envelopes (`sdk/server/index.ts:1556`).

Gateway and router:

* The gateway's limiter has fixed windows, so almost twice the limit can pass in a
  window of time (`rate-limiter.ts:60`); the HTTP/2 pipeline is neither rate-limited
  nor counted nor refused while draining. On an HTTP/2 stream whose client has gone,
  the answer throws twice (`hybrid.ts:660`); the rejection is unhandled and ends the
  process.
* A `tools/call` without params makes `dispatch` reject (`router.ts:1196`); an agent in
  hybrid mode does not handle that (`bin/agent.ts:987`).
* `list_changed` is sent only when the total number of tools differs
  (`router.ts:882`): a peer that replaces one tool by another goes untold, against
  the comment that tools do not change between notifications (1309), and so does a
  manifest that a call learned by itself (1475).
* `routeToRemoteProvider` caches a manifest without verifying its signature, which a
  discovery does (1475). Cached manifests are never evicted: a peer that is gone
  stays on the list. `meshAgentToken` is never renewed.
* A transcoded call has no deadline; an encapsulation that rejects is unhandled and ends
  the process. If verifying a remote answer throws, or the stream ends without a
  message, the body is passed on unmarked (`router.ts:1958`); a last message with
  `is_error` skips the audit. `server/discover` is not adapted for legacy clients.
* A manifest query that throws is not recorded as a failure and earns no back-off
  (`router.ts:862`).

Mesh node and agent:

* A query whose last dial fails is not recorded by the mesh node (`node.ts:819`), a
  query skipped by the mesh node's delay counts as a failure for the router.
* `reannounceAll` skips a connect that comes while it runs (`node.ts:307`), against
  the comment at 482; the identity and the peer file are overwritten in place (587);
  `start` after `stop` does nothing.
* A caller that reads the token cache between the two continuations of a fetch can
  get the old token with the new expiry (`token-manager.ts:157`).
* A hybrid agent leaves a request unanswered when the gateway throws and the mesh has
  failed; a rejection of `router.dispatch` in that mode ends the process. Routes are
  never removed, are resolved through aliases but their failures recorded under the
  caller's name (`routing-table.ts:124`), and no failure count ever closes a route.

Client, bridge, Rust node:

* `callTool` waits for ever for a provider that lives and does not answer: neither
  request has a deadline (`sdk/rpc/client.ts:73`, 101).
* A failing `negotiateIntent` leaves its cached connection in place, where the comment
  says it is evicted; a stream error removes a static connection for good. The token
  sent is that of the first cached manifest. A stream error during verification loses a
  valid result. A proxied receipt commits to the request and not to the result.
* The bridge counts the sessions of an address before an await and registers the new
  one after it (`bridge/stream.ts:310`), so overlapping initialisations exceed the limit; a
  session initialised after `stop` is never closed; a DELETE that the transport refuses
  takes its entry, and leaves it open and out of reach (264-270); a call longer than the idle
  time-out loses its answer; an exception of the verifier shows the result unlabelled.
* The Rust node sends, after a fuel halt, an error and then a success with a receipt; a
  32-bit token that repeats replaces a session; limits in its configuration are not
  used and its health is always good.

Studio:

* `disconnect` clears the pending requests without rejecting them; a subprocess that
  exits within its first 50 ms leaves `connect` waiting; half a line of a dead
  subprocess stays in `stdoutBuffer` and swallows the first answer of its successor.
  Whoever waits then waits for ever: there is no time-out on stdio, nor on gRPC and mesh
  exchanges.
* A line of more than 16 MB makes `handleStdoutChunk` throw out of a `data` handler, and
  a write to a subprocess that has closed its input emits an `error` nobody listens to:
  either ends Studio.
* The page starts with `http://127.0.0.1:15000/mcp` as its target, whatever `--stdio`,
  `--http`, `--grpc` or `--mesh` chose, and does so again when it is reloaded.
* Overlapping scans and connects leak a subprocess; the exit of an old subprocess
  rejects the requests of its successor; the report may be of an earlier target; the
  label "verified" does not come from a verification; the end of an aborted run clears
  the controller of the next one.

## 6. Not modelled, and why

The components that `PROJECT.json` lists as `not_modelled`. In short: byte-level
computation (cryptography, proof systems, regular expressions, noise), whose results
are nondeterministic inputs here; presentation, logging and metrics that nothing
reads back; third-party behaviour (libp2p, gRPC, jose). The taint analyzer walks the
syntax tree of injected JavaScript: a faithful model needs that tree, and one over a
handful of node kinds would check the handful and not the analyzer.

Inside modelled components: `listen` of the gateway and the contents of its auxiliary
answers; the wording of messages; two audit loggers on one file; of the router,
`list_changed`, statistics and the contents of resources and prompts; of the bridge, its loop
over standard input; of the Rust node, the swarm, configuration and health; of the Rust
SDK, all but the call of the sample client; of Studio, the token resolver's cache, the
page's polling and its components; of the verifier, the arithmetic of the proofs.

## 7. Plan

Done: `QueryBudget` with `AtomicBudget`, `LogicOnOrigin`,
`RevocationList`, `AuditLog`, `TokenManager`, `ToolCallLimits`, `HybridGateway`, `McpRouter`, `McpDispatch`, `MeshNode`, `AgentModes`, `StreamBridge`,
`ReceiptVerifier`, `LiopClient`, `RustNode`, `EgressPolicy`, `LocalExecution`,
`StudioServer`, `StudioUi`.

Abstract specifications still worth stating: an atomic revocation list (refuted for
two editors, to be proved for one), an append-only log implemented by `AuditLog`
without faults, a session service implemented by both `LogicOnOrigin` and the Rust
node, and a token bucket implemented by both limiters.

Theorems next: no safety invariant and no action property of a passing run is left
unproved, so the next ones are the refinements of the abstract specifications above, the
revocation list with one editor first.
