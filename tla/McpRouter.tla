------------------------------ MODULE McpRouter ------------------------------
(***************************************************************************)
(* LiopMcpRouter (gateway/router.ts): discovery, the tool list and remote  *)
(* calls, on top of MeshNode's manifest queries (mesh/node.ts).            *)
(*                                                                         *)
(* The router keeps the manifests of remote peers in a Map, which iterates *)
(* in insertion order and from which nothing is ever removed.  One         *)
(* discovery at a time asks the peers it finds; everyone who wants a       *)
(* refresh meanwhile shares it.  A peer that fails is left alone for a     *)
(* time that doubles with each failure, twice: by the router and, after a  *)
(* failed read, by the mesh node.  tools/list waits for a young mesh, but  *)
(* never longer than its deadline allows, and gives tools of the same name *)
(* different names; tools/call finds the peer behind a name again, sees to *)
(* a token if the peer asks for one, and forwards the call.                *)
(*                                                                         *)
(* Time is kept as what is left of each delay and as the age of each       *)
(* entry.  A tool name is the sequence of its parts between underscores.   *)
(***************************************************************************)
EXTENDS Naturals, Sequences, FiniteSets, SequencesExt

CONSTANTS
    Peers,             \* the remote peers
    Offers,            \* Offers[p]: the manifests p may serve
    Down,              \* what a peer that is not running serves
    Scenarios,         \* the states of the peers to start from
    LocalTools,        \* names of the tools registered with the local server
    Alias,             \* TOOL_ALIASES: alias -> canonical name
    ShortId,           \* ShortId[p]: the last four characters of p's id
    EndsIn,            \* EndsIn[p]: the name parts that p's id ends with
    CallNames,         \* names of remote tools that clients call
    TokenFor,          \* peers for which the environment holds a token
    CacheTTL,          \* MANIFEST_CACHE_TTL_S
    BaseCooldown,      \* MANIFEST_FAILURE_BASE_COOLDOWN_MS
    MaxCooldown,       \* MANIFEST_FAILURE_MAX_COOLDOWN_MS
    DialBaseCooldown,  \* MANIFEST_DIAL_BASE_COOLDOWN_MS
    DialMaxCooldown,   \* MANIFEST_DIAL_MAX_COOLDOWN_MS
    FailureCap,        \* failures are counted up to here: the delay grows no more
    MaxAttempts,       \* MAX_ATTEMPTS of queryManifest
    ColdAttempts,      \* MAX_COLD_ATTEMPTS of a discovery with an empty cache
    ExpectedProviders, \* LIOP_EXPECTED_PROVIDERS
    ListTimeout,       \* LIOP_INITIAL_DISCOVERY_TIMEOUT_MS
    RaceWait,          \* how long tools/list waits for one discovery
    StableChecks,      \* how many equal counts make tools/list give up
    Budgets            \* bounds: how often a peer changes, a dial or read of a
                       \* running peer fails, a client calls a tool, and
                       \* tools/list waits

Pause == 1  \* the second tools/list sleeps between two rounds

ASSUME TimesAssumption ==
    /\ {CacheTTL, BaseCooldown, MaxCooldown, DialBaseCooldown, DialMaxCooldown,
        FailureCap, MaxAttempts, ColdAttempts, ListTimeout, RaceWait} \subseteq Nat \ {0}
    /\ {ExpectedProviders, StableChecks} \subseteq Nat
    /\ Budgets \subseteq [changes : Nat, faults : Nat, calls : Nat, lists : Nat]
    /\ BaseCooldown * 2 ^ (FailureCap - 1) >= MaxCooldown
    /\ DialBaseCooldown * 2 ^ (FailureCap - 1) >= DialMaxCooldown

\* A manifest lists tools under names of at least one part.
ASSUME PeersAssumption ==
    /\ IsFiniteSet(Peers)
    /\ \A p \in Peers :
          Offers[p] \subseteq [tools : Seq(Seq(STRING) \ {<<>>}),
                              seal : {"none", "valid", "broken"}, auth : BOOLEAN]
    /\ ShortId \in [Peers -> STRING]
    /\ Down \notin UNION {Offers[p] : p \in Peers}
    /\ Scenarios \subseteq
          [Peers -> [serves : {Down} \cup UNION {Offers[p] : p \in Peers}, linked : BOOLEAN]]

VARIABLES
    world,      \* world[p]: what p serves, and whether a connection to it is open
    cache,      \* manifestCache: entries in the order of their first insertion
    failure,    \* manifestFailureState of the router
    dial,       \* manifestDialFailureState of the mesh node
    discovery,  \* currentDiscovery
    query,      \* query[<<w, p>>]: w's queryManifest(p) under way
    listing,    \* a getRemoteTools that waits for the mesh
    call,       \* a tools/call for a remote tool
    agentToken, \* whether meshAgentToken is set
    budget      \* what is left of the bounds

routerVars == <<world, cache, failure, dial, discovery, query, listing, call, agentToken, budget>>

Askers == {"discovery", "call"}
None == [phase |-> "none"]
Running(phase, tries) == [phase |-> phase, tries |-> tries]
NoFailure == [failures |-> 0, cooldown |-> 0]
Manifests == UNION {Offers[p] : p \in Peers}

(***************************************************************************)
(* The manifest cache.                                                     *)
(***************************************************************************)
Positions(c, p) == {i \in DOMAIN c : c[i].peer = p}
IsCached(c, p) == Positions(c, p) # {}
Entry(c, p) == c[CHOOSE i \in DOMAIN c : c[i].peer = p]
IsFresh(e) == e.age < CacheTTL

\* Map.set: a peer that is already in the map keeps its place.
Stored(c, p, m) ==
    LET e == [peer |-> p, manifest |-> m, age |-> 0]
    IN IF IsCached(c, p)
       THEN [i \in DOMAIN c |-> IF c[i].peer = p THEN e ELSE c[i]]
       ELSE Append(c, e)

(***************************************************************************)
(* Names: what tools/list calls the remote tools, and whom a name means.   *)
(***************************************************************************)
Canonical(n) == IF n \in DOMAIN Alias THEN Alias[n] ELSE n

\* manifest.tools.find: the position of the tool that n names, or 0.
ToolNamed(m, n) == SelectInSeq(m.tools, LAMBDA t : t = n \/ t = Canonical(n))

\* The tools in the order of the two loops of getRemoteTools.
RemoteTools(c) ==
    FlattenSeq([i \in DOMAIN c |->
        [j \in DOMAIN c[i].manifest.tools |->
            [peer |-> c[i].peer, tool |-> c[i].manifest.tools[j]]]])

(* Mutant: the names of local tools are not taken into account.            *)
ListedOverLocal(acc, x) ==
    LET taken == {acc[i].name : i \in DOMAIN acc}
        name == IF x.tool \in taken THEN Append(x.tool, ShortId[x.peer]) ELSE x.tool
    IN Append(acc, [name |-> name, peer |-> x.peer, tool |-> x.tool])

\* One iteration: a name already given away, or used by a local tool, gets the
\* end of the peer's id as a suffix.
Listed(acc, x) ==
    LET taken == {acc[i].name : i \in DOMAIN acc} \cup LocalTools
        name == IF x.tool \in taken THEN Append(x.tool, ShortId[x.peer]) ELSE x.tool
    IN Append(acc, [name |-> name, peer |-> x.peer, tool |-> x.tool])

RemoteList(c) == FoldLeft(Listed, <<>>, RemoteTools(c))

NoTarget == [peer |-> Down, tool |-> <<>>]

Target(e, n) == [peer |-> e.peer, tool |-> e.manifest.tools[ToolNamed(e.manifest, n)]]

\* resolveManifestTarget: the exact name with any peer, then the suffixed one.
Resolved(c, n) ==
    LET exact == SelectInSeq(c, LAMBDA e : ToolNamed(e.manifest, n) > 0)
        suffixed == IF Len(n) > 1
                    THEN SelectInSeq(c, LAMBDA e : /\ Last(n) \in EndsIn[e.peer]
                                                   /\ ToolNamed(e.manifest, Front(n)) > 0)
                    ELSE 0
    IN CASE exact > 0 -> Target(c[exact], n)
         [] exact = 0 /\ suffixed > 0 -> Target(c[suffixed], Front(n))
         [] OTHER -> NoTarget

(***************************************************************************)
(* Delays after failures, and the two records of them.                     *)
(***************************************************************************)
Least(a, b) == IF a < b THEN a ELSE b

\* 2 ^ n.
Doubled[n \in 0..FailureCap] == IF n = 0 THEN 1 ELSE 2 * Doubled[n - 1]

Failed(f, base, max) ==
    [failures |-> Least(f.failures + 1, FailureCap),
     cooldown |-> Least(base * Doubled[f.failures], max)]

recordManifestQueryFailure(p) ==
    failure' = [failure EXCEPT ![p] = Failed(@, BaseCooldown, MaxCooldown)]

recordManifestDialFailure(p) ==
    dial' = [dial EXCEPT ![p] = Failed(@, DialBaseCooldown, DialMaxCooldown)]

(***************************************************************************)
(* Refreshes and the phases of a discovery.                                *)
(***************************************************************************)
Connected == {p \in Peers : world[p].linked}

\* The synchronous beginning of the discovery: with an empty cache and no
\* connection it waits for one, otherwise it asks the DHT.
Begun ==
    IF cache = <<>> /\ Connected = {} THEN Running("connect", 0)
    ELSE Running("search", IF cache = <<>> THEN ColdAttempts ELSE 1)

\* refreshManifestCache: join the discovery under way, or be content with a
\* cache that is fresh (foreground only), or begin one.
AfterRefresh(silent) ==
    IF \/ discovery # None
       \/ ~silent /\ cache # <<>> /\ \A i \in DOMAIN cache : IsFresh(cache[i])
    THEN discovery
    ELSE Begun

\* The poll of the agent, resources/list, LiopMeshStatus and
\* notifications/initialized refresh in the background.
BackgroundRefresh ==
    /\ discovery = None
    /\ discovery' = AfterRefresh(TRUE)
    /\ UNCHANGED <<world, cache, failure, dial, query, listing, call, agentToken, budget>>

\* finally { currentDiscovery = null }: whoever raced the discovery goes on.
Ended ==
    /\ discovery' = None
    /\ listing' = IF listing.phase = "race" THEN [listing EXCEPT !.timer = 0] ELSE listing
    /\ call' = IF call.phase = "refresh" THEN [call EXCEPT !.phase = "refreshed"] ELSE call

\* A connection is there, or the three seconds of waiting are over.
ConnectPhaseEnds ==
    /\ discovery.phase = "connect"
    /\ discovery' = Running("search", IF cache = <<>> THEN ColdAttempts ELSE 1)
    /\ UNCHANGED <<world, cache, failure, dial, query, listing, call, agentToken, budget>>

(* Mutant: whatever is cached is taken for good, however old it is.        *)
EligibleOnce(ids) == {p \in ids : failure[p].cooldown = 0 /\ ~IsCached(cache, p)}

Eligible(ids) ==
    {p \in ids : /\ failure[p].cooldown = 0
                 /\ ~(IsCached(cache, p) /\ IsFresh(Entry(cache, p)))}

Asked == [phase |-> "dial", attempt |-> 1, manifest |-> Down]

\* queryManifest returns null at once while the mesh node's delay runs; the
\* router counts that as a failure like any other.
StartQueries(ids) ==
    LET ask == {p \in Eligible(ids) : dial[p].cooldown = 0}
        skipped == Eligible(ids) \ ask
    IN /\ query' = [q \in DOMAIN query |->
                       IF q[1] = "discovery" /\ q[2] \in ask THEN Asked ELSE query[q]]
       /\ failure' = [p \in Peers |-> IF p \in skipped
                                      THEN Failed(failure[p], BaseCooldown, MaxCooldown)
                                      ELSE failure[p]]
       /\ IF ask = {} THEN Ended
          ELSE discovery' = Running("query", 0) /\ UNCHANGED <<listing, call>>

\* The DHT, which may name any of the peers or none, and the open connections.
Search(found) ==
    /\ discovery.phase = "search"
    /\ LET ids == found \cup Connected
       IN \/ /\ ids = {}
             /\ discovery.tries > 1
             /\ discovery' = [discovery EXCEPT !.tries = @ - 1]
             /\ UNCHANGED <<query, failure, listing, call>>
          \/ /\ ids = {}
             /\ discovery.tries = 1
             /\ Ended
             /\ UNCHANGED <<query, failure>>
          \/ /\ ids # {}
             /\ StartQueries(ids)
    /\ UNCHANGED <<world, cache, dial, agentToken, budget>>

(***************************************************************************)
(* MeshNode.queryManifest: dial, read, try again; and what its callers do  *)
(* with the answer.                                                        *)
(***************************************************************************)
Others(p) == \E r \in Peers \ {p} : query[<<"discovery", r>>] # None

\* Promise.allSettled: the discovery ends with the last of its queries.  A call
\* goes on whatever its query brought.
Settled(w, p) ==
    CASE w = "call" -> call' = [call EXCEPT !.phase = "token"] /\ UNCHANGED <<discovery, listing>>
      [] w = "discovery" /\ Others(p) -> UNCHANGED <<call, discovery, listing>>
      [] OTHER -> Ended

\* null: the router counts a failure, a call goes on without a manifest.
Unanswered(w, p) ==
    /\ query' = [query EXCEPT ![<<w, p>>] = None]
    /\ IF w = "discovery" THEN recordManifestQueryFailure(p) ELSE UNCHANGED failure
    /\ Settled(w, p)
    /\ UNCHANGED cache

Retry(w, p) ==
    /\ query[<<w, p>>].attempt < MaxAttempts
    /\ query' = [query EXCEPT ![<<w, p>>] = [phase |-> "dial", attempt |-> @.attempt + 1, manifest |-> Down]]
    /\ UNCHANGED <<cache, failure, discovery, listing, call>>

\* A dial or a read fails when the peer is gone, or by a fault of the network.
Fault(p) ==
    IF world[p].serves = Down THEN UNCHANGED budget
    ELSE budget.faults > 0 /\ budget' = [budget EXCEPT !.faults = @ - 1]

\* The peer opens the stream and writes the manifest it has now.
DialSucceeds(w, p) ==
    /\ query[<<w, p>>].phase = "dial"
    /\ world[p].serves # Down
    /\ world' = [world EXCEPT ![p].linked = TRUE]
    /\ query' = [query EXCEPT ![<<w, p>>].phase = "read", ![<<w, p>>].manifest = world[p].serves]
    /\ UNCHANGED <<cache, failure, dial, discovery, listing, call, agentToken, budget>>

\* The third dial that fails ends the query without a record in the mesh node.
DialFails(w, p) ==
    /\ query[<<w, p>>].phase = "dial"
    /\ Fault(p)
    /\ \/ Retry(w, p)
       \/ query[<<w, p>>].attempt = MaxAttempts /\ Unanswered(w, p)
    /\ UNCHANGED <<world, dial, agentToken>>

\* Timeout, reset stream, or an answer too short or torn.
ReadFails(w, p) ==
    /\ query[<<w, p>>].phase = "read"
    /\ Fault(p)
    /\ \/ Retry(w, p) /\ UNCHANGED dial
       \/ /\ query[<<w, p>>].attempt = MaxAttempts
          /\ Unanswered(w, p)
          /\ recordManifestDialFailure(p)
    /\ UNCHANGED <<world, agentToken>>

\* The whole manifest is here.  A discovery verifies a signature, if there is
\* one; routeToRemoteProvider stores the manifest as it is.
ReadSucceeds(w, p) ==
    /\ query[<<w, p>>].phase = "read"
    /\ LET m == query[<<w, p>>].manifest
       IN \/ /\ w = "call" \/ m.seal # "broken"
             /\ cache' = Stored(cache, p, m)
             /\ failure' = IF w = "discovery" THEN [failure EXCEPT ![p] = NoFailure] ELSE failure
          \/ /\ w = "discovery" /\ m.seal = "broken"
             /\ recordManifestQueryFailure(p)
             /\ UNCHANGED cache
    /\ dial' = [dial EXCEPT ![p] = NoFailure]
    /\ query' = [query EXCEPT ![<<w, p>>] = None]
    /\ Settled(w, p)
    /\ UNCHANGED <<world, agentToken, budget>>

(***************************************************************************)
(* tools/call for a tool that is not local: resolve, refresh, authenticate,*)
(* route, send.                                                            *)
(***************************************************************************)
\* A call waits with its name for a target, then with the peer it found.
Waiting(phase, n, token) == [phase |-> phase, name |-> n, token |-> token]
Routed(phase, p, token) == [phase |-> phase, peer |-> p, token |-> token]

Restricted(p) == IsCached(cache, p) /\ Entry(cache, p).manifest.auth

\* routeToRemoteProvider: a peer the cache does not know is asked directly,
\* unless the mesh node's delay runs.
RouteToRemoteProvider(p, token) ==
    IF IsCached(cache, p) \/ dial[p].cooldown > 0
    THEN call' = Routed("token", p, token) /\ UNCHANGED query
    ELSE /\ call' = Routed("manifest", p, token)
         /\ query' = [query EXCEPT ![<<"call", p>>] = Asked]

\* A resolved peer: a restricted one waits for a token first.
ToTarget(p, token) ==
    IF Restricted(p) /\ ~token
    THEN call' = Routed("auth", p, token) /\ UNCHANGED query
    ELSE RouteToRemoteProvider(p, token)

\* A name the cache does not resolve waits for a refresh, if there is one, and
\* then for the providers the DHT knows.
StartCall(n, token) ==
    /\ call = None
    /\ budget.calls > 0
    /\ budget' = [budget EXCEPT !.calls = @ - 1]
    /\ LET target == Resolved(cache, n)
       IN \/ /\ target # NoTarget
             /\ ToTarget(target.peer, token)
             /\ UNCHANGED discovery
          \/ /\ target = NoTarget
             /\ discovery' = AfterRefresh(FALSE)
             /\ call' = Waiting(IF discovery' = None THEN "providers" ELSE "refresh", n, token)
             /\ UNCHANGED query
    /\ UNCHANGED <<world, cache, failure, dial, listing, agentToken>>

CallRefreshed ==
    /\ call.phase = "refreshed"
    /\ LET target == Resolved(cache, call.name)
       IN IF target # NoTarget THEN ToTarget(target.peer, call.token)
          ELSE call' = [call EXCEPT !.phase = "providers"] /\ UNCHANGED query
    /\ UNCHANGED <<world, cache, failure, dial, discovery, listing, agentToken, budget>>

\* findProviders names any peer, or none in three attempts.
ProviderFound(p) ==
    /\ call.phase = "providers"
    /\ RouteToRemoteProvider(p, call.token)
    /\ UNCHANGED <<world, cache, failure, dial, discovery, listing, agentToken, budget>>

CallReturns ==
    /\ call' = None
    /\ UNCHANGED <<world, cache, failure, dial, discovery, query, listing, budget>>

NoProviderFound ==
    /\ call.phase = "providers"
    /\ CallReturns
    /\ UNCHANGED agentToken

\* getOrAcquireMeshAgentToken: a token for this peer from the environment, the
\* router's own, or what the authorization server says, which is kept for good.
getOrAcquireMeshAgentToken(p, got) ==
    \/ got /\ (p \in TokenFor \/ agentToken) /\ UNCHANGED agentToken
    \/ got /\ p \notin TokenFor /\ ~agentToken /\ agentToken' = TRUE
    \/ ~got /\ p \notin TokenFor /\ ~agentToken /\ UNCHANGED agentToken

AuthTokenResolved(got) ==
    /\ call.phase = "auth"
    /\ getOrAcquireMeshAgentToken(call.peer, got)
    /\ \/ /\ got
          /\ RouteToRemoteProvider(call.peer, TRUE)
          /\ UNCHANGED <<world, cache, failure, dial, discovery, listing, budget>>
       \/ ~got /\ CallReturns

(* Mutant: the manifest is not looked at again before the call is sent.    *)
SendIntentUnchecked(got) ==
    /\ call.phase = "token"
    /\ IF call.token THEN got /\ UNCHANGED agentToken
       ELSE getOrAcquireMeshAgentToken(call.peer, got)
    /\ call' = [phase |-> "sent", token |-> got]
    /\ UNCHANGED <<world, cache, failure, dial, discovery, query, listing, budget>>

\* performTranscoding: the address is resolved, the intent signed, a missing
\* token acquired, and the manifest looked at once more before negotiateIntent.
SendIntent(got) ==
    /\ call.phase = "token"
    /\ IF call.token THEN got /\ UNCHANGED agentToken
       ELSE getOrAcquireMeshAgentToken(call.peer, got)
    /\ IF Restricted(call.peer) /\ ~got THEN CallReturns
       ELSE /\ call' = [phase |-> "sent", token |-> got]
            /\ UNCHANGED <<world, cache, failure, dial, discovery, query, listing, budget>>

\* The peer rejects the intent, or executes the logic, or breaks the stream; no
\* deadline makes it answer.
RemoteAnswers ==
    /\ call.phase = "sent"
    /\ CallReturns
    /\ UNCHANGED agentToken

CallStep ==
    \/ CallRefreshed \/ NoProviderFound
    \/ \E p \in Peers : ProviderFound(p)
    \/ \E got \in BOOLEAN : AuthTokenResolved(got) \/ SendIntent(got)

(***************************************************************************)
(* tools/list.                                                             *)
(***************************************************************************)
Satisfied == Len(cache) >= ExpectedProviders

\* One round of the loop: a background refresh raced by a timer.
Race(l) ==
    /\ discovery' = AfterRefresh(TRUE)
    /\ listing' = [l EXCEPT !.phase = "race", !.timer = RaceWait]

\* The answer; with too few providers one more refresh is left behind.
ListAnswered ==
    /\ listing' = None
    /\ discovery' = IF Satisfied THEN discovery ELSE AfterRefresh(TRUE)

StartList ==
    /\ listing = None
    /\ ~Satisfied
    /\ budget.lists > 0
    /\ Race([phase |-> "race", timer |-> 0, left |-> ListTimeout, elapsed |-> 0,
             stable |-> 0, last |-> Cardinality(Peers) + 1])
    /\ budget' = [budget EXCEPT !.lists = @ - 1]
    /\ UNCHANGED <<world, cache, failure, dial, query, call, agentToken>>

\* lastSize starts at a value no cache has; equal counts are counted after that.
RaceEnds ==
    /\ listing.phase = "race"
    /\ listing.timer = 0
    /\ LET same == Len(cache) = listing.last
           stable == IF same THEN listing.stable + 1 ELSE 0
       IN IF Satisfied \/ (same /\ stable >= StableChecks /\ cache # <<>>) THEN ListAnswered
          ELSE /\ listing' = [listing EXCEPT !.phase = "pause", !.timer = Pause, !.stable = stable,
                                             !.last = Len(cache)]
               /\ UNCHANGED discovery
    /\ UNCHANGED <<world, cache, failure, dial, query, call, agentToken, budget>>

PauseEnds ==
    /\ listing.phase = "pause"
    /\ listing.timer = 0
    /\ IF listing.left = 0 \/ Satisfied THEN ListAnswered ELSE Race(listing)
    /\ UNCHANGED <<world, cache, failure, dial, query, call, agentToken, budget>>

(***************************************************************************)
(* The peers and time.                                                     *)
(***************************************************************************)
PeerChanges(p, m, linked) ==
    /\ budget.changes > 0
    /\ [serves |-> m, linked |-> linked] # world[p]
    /\ m = Down => ~linked
    /\ world' = [world EXCEPT ![p] = [serves |-> m, linked |-> linked]]
    /\ budget' = [budget EXCEPT !.changes = @ - 1]
    /\ UNCHANGED <<cache, failure, dial, discovery, query, listing, call, agentToken>>

Less(n) == IF n = 0 THEN 0 ELSE n - 1

Cooler(f) == [p \in Peers |-> [f[p] EXCEPT !.cooldown = Less(@)]]

\* Timers of tools/list fire when they are due.
ClockTick ==
    /\ listing # None => listing.timer > 0
    /\ cache' = [i \in DOMAIN cache |-> [cache[i] EXCEPT !.age = Least(@ + 1, CacheTTL)]]
    /\ failure' = Cooler(failure)
    /\ dial' = Cooler(dial)
    /\ listing' = IF listing = None THEN None
                  ELSE [listing EXCEPT !.timer = @ - 1, !.left = Less(@), !.elapsed = @ + 1]
    /\ UNCHANGED <<world, discovery, query, call, agentToken, budget>>

RouterInit ==
    /\ world \in Scenarios
    /\ cache = <<>>
    /\ failure = [p \in Peers |-> NoFailure]
    /\ dial = [p \in Peers |-> NoFailure]
    /\ discovery = None
    /\ query = [q \in Askers \X Peers |-> None]
    /\ listing = None
    /\ call = None
    /\ agentToken = FALSE
    /\ budget \in Budgets

QueryStep(w, p) ==
    DialSucceeds(w, p) \/ DialFails(w, p) \/ ReadFails(w, p) \/ ReadSucceeds(w, p)

DiscoveryStep == ConnectPhaseEnds \/ \E found \in SUBSET Peers : Search(found)

ListStep == RaceEnds \/ PauseEnds

RouterNext ==
    \/ BackgroundRefresh
    \/ DiscoveryStep
    \/ \E w \in Askers, p \in Peers : QueryStep(w, p)
    \/ \E n \in CallNames, token \in BOOLEAN : StartCall(n, token)
    \/ CallStep
    \/ RemoteAnswers
    \/ StartList \/ ListStep
    \/ \E p \in Peers : \E m \in Offers[p] \cup {Down}, linked \in BOOLEAN : PeerChanges(p, m, linked)
    \/ ClockTick

\* The event loop runs what is due; the agent polls for ever; libp2p ends every
\* dial and the five-second timer every read, so that a discovery and a call go
\* on.  A peer may leave a call that was sent to it unanswered.
RouterFairness ==
    /\ WF_routerVars(ClockTick \/ ListStep)
    /\ WF_routerVars(BackgroundRefresh)
    /\ WF_routerVars(DiscoveryStep \/ \E p \in Peers : QueryStep("discovery", p))
    /\ WF_routerVars(CallStep \/ \E p \in Peers : QueryStep("call", p))

RouterSpec == RouterInit /\ [][RouterNext]_routerVars /\ RouterFairness

(***************************************************************************)
(* Properties.                                                             *)
(***************************************************************************)
FailureStates(max) == [failures : 0..FailureCap, cooldown : 0..max]

(* Types of the state of LiopMcpRouter and MeshNode: delays stay within    *)
(* their maxima, no peer is cached twice, and a discovery has a query      *)
(* under way exactly while it is in its query phase.                       *)
RouterTypeOK ==
    /\ world \in [Peers -> [serves : Manifests \cup {Down}, linked : BOOLEAN]]
    /\ \A i \in DOMAIN cache : cache[i] \in [peer : Peers, manifest : Manifests, age : 0..CacheTTL]
    /\ \A i, j \in DOMAIN cache : cache[i].peer = cache[j].peer => i = j
    /\ failure \in [Peers -> FailureStates(MaxCooldown)]
    /\ dial \in [Peers -> FailureStates(DialMaxCooldown)]
    /\ discovery.phase \in {"none", "connect", "search", "query"}
    /\ \A q \in Askers \X Peers : query[q].phase \in {"none", "dial", "read"}
    /\ (discovery.phase = "query") <=> (\E p \in Peers : query[<<"discovery", p>>] # None)
    /\ listing.phase \in {"none", "race", "pause"}
    /\ call.phase \in {"none", "refresh", "refreshed", "providers", "auth", "manifest", "token", "sent"}

(* When the names of tools can be told from the names the router makes:    *)
(* no peer offers a tool under an alias, no name with a suffix is the name *)
(* of a tool or an alias, and no two peers end in the same four characters.*)
NamesAreApart ==
    LET offered == UNION {Range(m.tools) : m \in Manifests}
        suffixed == {Append(t, ShortId[p]) : t \in offered, p \in Peers}
    IN /\ DOMAIN Alias \cap offered = {}
       /\ suffixed \cap (offered \cup LocalTools \cup DOMAIN Alias) = {}
       /\ \A p, q \in Peers : ShortId[p] \in EndsIn[q] <=> p = q

(* Every name getRemoteTools puts on the list leads, through the check for *)
(* local tools and resolveManifestTarget, to the very tool of the very     *)
(* peer it was listed for, whatever peers joined, changed and in which     *)
(* order.                                                                  *)
ListedNamesResolve ==
    LET list == RemoteList(cache)
    IN \A i \in DOMAIN list :
        /\ list[i].name \notin LocalTools
        /\ Resolved(cache, list[i].name) = [peer |-> list[i].peer, tool |-> list[i].tool]

(* tools/list is answered within its deadline, one race and one pause,     *)
(* however long the discovery it waits for takes.                          *)
ListIsBounded ==
    listing # None => listing.elapsed < ListTimeout + RaceWait + Pause

(* The tool list as a whole: its state is well formed, its names lead back *)
(* to the tools, and it does not keep the client waiting.                  *)
ListsAreSound == RouterTypeOK /\ ListedNamesResolve /\ ListIsBounded

(* No call leaves for a peer whose manifest, as known at that moment, asks *)
(* for authentication, unless a token goes with it: not even when the      *)
(* manifest is learned or changes while the call waits for its token, its  *)
(* address or its signature.                                               *)
NoTokenlessCall ==
    [][(call.phase # "sent" /\ call'.phase = "sent" /\ ~call'.token) => ~Restricted(call.peer)]_routerVars

(* A call is answered or sent in the end: neither the discovery it shares  *)
(* with others nor its own query keeps it waiting.                         *)
CallsGetThrough == call # None ~> call.phase \in {"none", "sent"}

Healthy(p, m) == world[p] = [serves |-> m, linked |-> TRUE] /\ m.seal # "broken"

(* A peer that stays connected and keeps serving a manifest is in the end  *)
(* cached with this manifest for good, whatever it served before, however  *)
(* often it failed and whichever older answers were still under way.       *)
HealthyPeersAreCached ==
    \A p \in Peers : \A m \in Offers[p] :
        <>[]Healthy(p, m) => <>[](IsCached(cache, p) /\ Entry(cache, p).manifest = m)

(* Discovery gets over whatever went wrong: nobody waits for it for ever,  *)
(* and it finds what the healthy peers serve.                              *)
DiscoveryRecovers == CallsGetThrough /\ HealthyPeersAreCached
==============================================================================
