----------------------------- MODULE AgentModes -----------------------------
(***************************************************************************)
(* The agent (bin/agent.ts) between an MCP host on stdio and the mesh: how *)
(* it chooses its mode (runtime/topology-probe.ts), and how each mode      *)
(* answers the host's requests, through the HTTP gateway, through the      *)
(* router of its own mesh node, or through one after the other, guided by  *)
(* the routing table (runtime/routing-table.ts).                           *)
(*                                                                         *)
(* Requests are handled concurrently, interleaved at every await.  What    *)
(* forwardToGateway does about tokens is in TokenManager; here a forwarded *)
(* request is answered (with a result or an error) or throws.              *)
(***************************************************************************)
EXTENDS Naturals, Sequences, FiniteSets, SequencesExt

CONSTANTS
    Requests,     \* requests of the host
    Tools,        \* names of tools of the mesh
    Status,       \* LiopMeshStatus
    Alias,        \* TOOL_ALIASES: alias -> canonical name
    MeshTools,    \* what the mesh's peers offer
    Settings,     \* environments the agent may be started in
    Locals,       \* the local URLs that are probed, in this order
    FailureCap,   \* failures of a route are counted up to here
    MaxChanges    \* bound: how often the gateway changes, or fails a request

\* An alias stands for a tool, and no provider calls a tool of its own by an alias.
ASSUME ModesAssumption ==
    /\ Alias \in [DOMAIN Alias -> Tools]
    /\ (Tools \cup {Status}) \cap DOMAIN Alias = {}
    /\ MeshTools \subseteq Tools
    /\ {FailureCap, MaxChanges} \subseteq Nat

VARIABLES
    setting,      \* where bootstraps and the gateway are, and what LIOP_BLG_URL says
    phase,        \* "bootstrap", "probe", a mode, or "exited"
    boots,        \* whether a usable bootstrap address was found
    candidates,   \* the URLs still to be probed
    gateway,      \* the gateway: whether it is up, and its tools
    mesh,         \* the mesh node and its router: "off" ... "ready" or "failed"
    routes,       \* RoutingTable.routes
    lastToolCount,
    req,          \* the requests and the local variables of their handlers
    listed,       \* history: names on the newest list, if nothing changed since
    changes

host == <<setting, boots, candidates>>
vars == <<host, phase, gateway, mesh, routes, lastToolCount, req, listed, changes>>

Names == Tools \cup DOMAIN Alias \cup {Status}
(* Mutant: the name of a call is passed on as the host wrote it.           *)
CanonicalRaw(n) == n
Canonical(n) == IF n \in DOMAIN Alias THEN Alias[n] ELSE n
NoRequest == [stage |-> "free"]

(***************************************************************************)
(* Start-up.                                                               *)
(***************************************************************************)
\* resolveBootstrapNodes: arguments and the address behind LIOP_NEXUS_URL, else
\* the beacon files, else LIOP_BOOTSTRAP; what does not parse is dropped last,
\* so that a malformed argument hides what comes after it.
Bootstraps(s) ==
    CASE {s.args, s.url} # {"none"} -> "valid" \in {s.args, s.url}
      [] {s.args, s.url} = {"none"} /\ s.beacon # "none" -> s.beacon = "valid"
      [] OTHER -> s.variable = "valid"

\* probeTopology skips a local URL that contains the port of LIOP_BLG_URL; a URL
\* without a port has the empty one, which every URL contains.
Candidates(blg) ==
    IF blg = "none" THEN Locals
    ELSE <<blg>> \o SelectSeq(Locals, LAMBDA u : blg # "portless" /\ u # blg)

ResolveBootstrapNodes ==
    /\ phase = "bootstrap"
    /\ phase' = "probe"
    /\ boots' = Bootstraps(setting)
    /\ candidates' = Candidates(setting.blg)
    /\ UNCHANGED <<setting, gateway, mesh, routes, lastToolCount, req, listed, changes>>

RegisterLocalTool(t, n) ==
    [m \in DOMAIN t \cup {n} |-> IF m = n THEN [provider |-> "local", failCount |-> 0] ELSE t[m]]

RegisterGatewayTools(t, names) ==
    [m \in DOMAIN t \cup names |->
        IF m \in names THEN [provider |-> "http-gateway", failCount |-> 0] ELSE t[m]]

\* main: dispatch by mode.
Begin(mode) ==
    /\ phase' = mode
    /\ mesh' = IF mode = "gateway" THEN "off" ELSE "starting"
    /\ IF mode = "mesh" THEN UNCHANGED <<routes, lastToolCount>>
       ELSE /\ routes' = RegisterGatewayTools(RegisterLocalTool(routes, Status), gateway.tools)
            /\ lastToolCount' = Cardinality(gateway.tools)

\* probeGatewayUrl of the next candidate.  A malformed LIOP_BLG_URL is found out
\* only when the first local URL is compared with it, and then ends the agent.
Probe ==
    /\ phase = "probe"
    /\ LET found == candidates # <<>> /\ Head(candidates) = setting.home /\ gateway.up
       IN CASE found -> Begin(IF boots THEN "hybrid" ELSE "gateway") /\ UNCHANGED candidates
            [] candidates = <<>> -> Begin("mesh") /\ UNCHANGED candidates
            [] ~found /\ candidates # <<>> ->
                 /\ phase' = IF Head(candidates) = "malformed" THEN "exited" ELSE "probe"
                 /\ candidates' = Tail(candidates)
                 /\ UNCHANGED <<mesh, routes, lastToolCount>>
    /\ UNCHANGED <<setting, boots, gateway, req, listed, changes>>

\* The mesh node starts; in hybrid mode in the background, and the router is
\* there before the first refresh, which initMeshPromise waits for, has ended.
MeshStarts ==
    /\ \/ mesh = "starting" /\ mesh' = (IF phase = "hybrid" THEN "routing" ELSE "ready")
       \/ mesh = "routing" /\ mesh' = "ready"
    /\ phase # "exited"
    /\ listed' = {}
    /\ UNCHANGED <<host, phase, gateway, routes, lastToolCount, req, changes>>

MeshFails ==
    /\ mesh = "starting" /\ phase # "exited"
    /\ mesh' = "failed"
    /\ phase' = IF phase = "mesh" THEN "exited" ELSE phase
    /\ listed' = {}
    /\ UNCHANGED <<host, gateway, routes, lastToolCount, req, changes>>

(***************************************************************************)
(* Requests.                                                               *)
(***************************************************************************)
Methods == {"local", "notification", "list", "call", "other"}

HasRouter == mesh \in {"routing", "ready"}
Settled == mesh \in {"ready", "failed"}

Serving == phase \in {"gateway", "hybrid"} \/ (phase = "mesh" /\ mesh = "ready")

\* RoutingTable.resolve.
Resolve(n) ==
    LET target == Canonical(n)
    IN IF target \in DOMAIN routes THEN routes[target].provider
       ELSE IF n \in DOMAIN routes THEN routes[n].provider ELSE "none"

\* The first await of a handler, or its answer if it has none.  Methods that the
\* agent answers itself are "local"; a notification is not answered.
FirstStage(method, n) ==
    CASE phase = "mesh" -> "router"
      [] phase # "mesh" /\ method \in {"local", "notification"} -> "answered"
      [] phase = "gateway" /\ method = "call" /\ Canonical(n) = Status -> "answered"
      [] phase = "hybrid" /\ method = "call" /\ Resolve(Canonical(n)) # "http-gateway" -> "init"
      [] OTHER -> "gateway"

\* A line of the host.  promised: the name is on the newest list.
Line(r, method, n) ==
    /\ Serving
    /\ req[r] = NoRequest
    /\ LET stage == FirstStage(method, n)
       IN req' = [req EXCEPT ![r] =
                    [stage |-> stage, method |-> method, name |-> Canonical(n), names |-> {},
                     answer |-> IF stage = "answered" THEN "result" ELSE "none",
                     promised |-> method = "call" /\ n \in listed]]
    /\ UNCHANGED <<host, phase, gateway, mesh, routes, lastToolCount, listed, changes>>

Goes(r, stage) == req' = [req EXCEPT ![r].stage = stage]
Answers(r, answer) == req' = [req EXCEPT ![r].stage = "answered", ![r].answer = answer]

WithAliases(names) == names \cup {a \in DOMAIN Alias : Alias[a] \in names}

AnswersList(r, names) ==
    /\ req' = [req EXCEPT ![r].stage = "answered", ![r].answer = "result", ![r].names = names]
    /\ listed' = names

\* hybrid: the gateway's tools, then what the router adds, if there is one.
ListMerged(r, fromGateway) ==
    IF HasRouter THEN /\ req' = [req EXCEPT ![r].stage = "router", ![r].names = fromGateway]
                      /\ UNCHANGED listed
    ELSE AnswersList(r, WithAliases(fromGateway \cup {Status}))

\* recordSuccess, recordFailure.
Recorded(n, count) ==
    IF n \in DOMAIN routes THEN [routes EXCEPT ![n].failCount = count] ELSE routes

\* forwardToGateway returns a response with a result.
GatewayAnswers(r) ==
    /\ req[r].stage = "gateway" /\ gateway.up
    /\ LET q == req[r]
           names == IF phase = "gateway" THEN WithAliases(gateway.tools \cup {Status}) ELSE gateway.tools
       IN IF q.method = "list"
          THEN /\ routes' = RegisterGatewayTools(routes, names)
               /\ IF phase = "gateway" THEN AnswersList(r, names) ELSE ListMerged(r, names)
          ELSE /\ q.method \in {"call", "late"} => q.name \in gateway.tools
               /\ Answers(r, "result")
               /\ routes' = IF q.method = "call" /\ phase = "hybrid" THEN Recorded(q.name, 0) ELSE routes
               /\ UNCHANGED listed
    /\ UNCHANGED <<host, phase, gateway, mesh, lastToolCount, changes>>

\* It returns an error: the gateway does not know the tool, or refuses.  An error
\* is a response like any other: a route has succeeded, and nothing falls back.
GatewayRefuses(r) ==
    /\ req[r].stage = "gateway" /\ gateway.up
    /\ \/ /\ req[r].method \in {"call", "late"} /\ req[r].name \notin gateway.tools
          /\ Answers(r, "error")
          /\ UNCHANGED <<changes, listed>>
       \/ /\ changes < MaxChanges /\ changes' = changes + 1
          /\ IF req[r].method = "list" /\ phase = "hybrid" THEN ListMerged(r, {})
             ELSE /\ req' = [req EXCEPT ![r].stage = "answered", ![r].answer = "error",
                                        ![r].promised = FALSE]
                  /\ UNCHANGED listed
    /\ routes' = IF req[r].method = "call" /\ phase = "hybrid" THEN Recorded(req[r].name, 0) ELSE routes
    /\ UNCHANGED <<host, phase, gateway, mesh, lastToolCount>>

Failures(n) == IF n \in DOMAIN routes /\ routes[n].failCount < FailureCap
               THEN routes[n].failCount + 1 ELSE FailureCap

(* Mutant: the list is given up when the gateway throws.                   *)
GatewayThrowsOut(r) ==
    /\ req[r].stage = "gateway" /\ ~gateway.up
    /\ Goes(r, IF req[r].method = "call" /\ phase = "hybrid" THEN "init" ELSE "dropped")
    /\ UNCHANGED <<host, phase, gateway, mesh, routes, lastToolCount, listed, changes>>

\* It throws: no connection, or no answer within thirty seconds.
GatewayThrows(r) ==
    /\ req[r].stage = "gateway" /\ ~gateway.up
    /\ LET m == req[r].method
       IN CASE m = "list" /\ phase = "gateway" -> AnswersList(r, DOMAIN routes)
            [] m = "list" /\ phase = "hybrid" -> ListMerged(r, DOMAIN routes)
            [] m # "list" /\ phase = "gateway" -> Answers(r, "error") /\ UNCHANGED listed
            [] OTHER -> Goes(r, "init") /\ UNCHANGED listed
    /\ routes' = IF req[r].method = "call" /\ phase = "hybrid"
                 THEN Recorded(req[r].name, Failures(req[r].name)) ELSE routes
    /\ UNCHANGED <<host, phase, gateway, mesh, lastToolCount, changes>>

\* initMeshPromise has settled.  Without a router a call goes on like any other
\* method, to the gateway; what came from there already is dropped unanswered.
InitSettled(r) ==
    /\ req[r].stage = "init" /\ Settled /\ phase # "exited"
    /\ IF HasRouter THEN Goes(r, "router")
       ELSE IF req[r].method = "call"
            THEN req' = [req EXCEPT ![r].stage = "gateway", ![r].method = "late"]
            ELSE Goes(r, "dropped")
    /\ UNCHANGED <<host, phase, gateway, mesh, routes, lastToolCount, listed, changes>>

\* router.dispatch returns.
RouterAnswers(r) ==
    /\ req[r].stage = "router" /\ HasRouter /\ phase # "exited"
    /\ LET q == req[r]
       IN CASE q.method = "list" ->
                 AnswersList(r, IF phase = "mesh" THEN MeshTools \cup {Status}
                                ELSE WithAliases(q.names \cup MeshTools \cup {Status}))
            [] q.method \in {"call", "late"} ->
                 /\ Answers(r, IF q.name \in MeshTools \cup {Status} THEN "result" ELSE "error")
                 /\ UNCHANGED listed
            [] OTHER -> Answers(r, "result") /\ UNCHANGED listed
    /\ UNCHANGED <<host, phase, gateway, mesh, routes, lastToolCount, changes>>

\* router.dispatch rejects: mesh mode ignores the line; in hybrid mode nobody
\* catches the rejection, which ends the process.
RouterRejects(r) ==
    /\ req[r].stage = "router" /\ req[r].method # "list"
    /\ HasRouter /\ phase # "exited"
    /\ changes < MaxChanges /\ changes' = changes + 1
    /\ IF phase = "mesh" THEN Goes(r, "dropped") /\ UNCHANGED phase
       ELSE phase' = "exited" /\ UNCHANGED req
    /\ UNCHANGED <<host, gateway, mesh, routes, lastToolCount, listed>>

\* The poll of gateway mode compares counts only.
Poll ==
    /\ phase = "gateway" /\ gateway.up
    /\ Cardinality(gateway.tools) # lastToolCount
    /\ lastToolCount' = Cardinality(gateway.tools)
    /\ routes' = RegisterGatewayTools(routes, gateway.tools)
    /\ UNCHANGED <<host, phase, gateway, mesh, req, listed, changes>>

\* The host closes stdin or stops reading.
HostCloses ==
    /\ Serving
    /\ phase' = "exited"
    /\ UNCHANGED <<host, gateway, mesh, routes, lastToolCount, req, listed, changes>>

GatewayChanges(up, tools) ==
    /\ changes < MaxChanges /\ changes' = changes + 1
    /\ gateway # [up |-> up, tools |-> tools]
    /\ gateway' = [up |-> up, tools |-> tools]
    /\ listed' = {}
    /\ req' = [r \in Requests |-> IF req[r] = NoRequest THEN NoRequest
                                  ELSE [req[r] EXCEPT !.promised = FALSE]]
    /\ UNCHANGED <<host, phase, mesh, routes, lastToolCount>>

Init ==
    /\ setting \in Settings
    /\ phase = "bootstrap"
    /\ boots = FALSE
    /\ candidates = <<>>
    /\ gateway \in [up : BOOLEAN, tools : SUBSET Tools]
    /\ mesh = "off"
    /\ routes = [n \in {} |-> <<>>]
    /\ lastToolCount = 0
    /\ req = [r \in Requests |-> NoRequest]
    /\ listed = {}
    /\ changes = 0

Startup == ResolveBootstrapNodes \/ Probe \/ MeshStarts \/ MeshFails

Handler(r) == GatewayAnswers(r) \/ GatewayRefuses(r) \/ GatewayThrows(r) \/ InitSettled(r)

Next ==
    \/ Startup
    \/ \E r \in Requests, m \in Methods \ {"call"} : Line(r, m, Status)
    \/ \E r \in Requests, n \in Names : Line(r, "call", n)
    \/ \E r \in Requests : Handler(r) \/ RouterAnswers(r) \/ RouterRejects(r)
    \/ Poll
    \/ HostCloses
    \/ \E up \in BOOLEAN, tools \in SUBSET Tools : GatewayChanges(up, tools)

\* Probes and forwarded requests have time limits, and the start of the mesh node
\* ends.  A router that waits for a remote peer has no limit.
Fairness ==
    /\ WF_vars(Startup)
    /\ \A r \in Requests : WF_vars(Handler(r))

Spec == Init /\ [][Next]_vars /\ Fairness

(***************************************************************************)
(* Properties.                                                             *)
(***************************************************************************)
\* The route of a tool that the gateway has dropped since it was registered:
\* routes are never removed.
Stale(n) == n \in DOMAIN routes /\ routes[n].provider = "http-gateway" /\ n \notin gateway.tools

(* Every name on a list the agent gave out can be called while nothing     *)
(* changes: the call is not answered with an error, whichever provider the *)
(* name came from and whichever way the call takes.  The exceptions are    *)
(* those of the code: a stale route, a gateway that is down, and the       *)
(* status tool of a hybrid agent whose mesh did not start.                 *)
ListedIsCallable ==
    \A r \in Requests :
        (req[r].stage = "answered" /\ req[r].promised /\ req[r].answer = "error") =>
            \/ Stale(req[r].name)
            \/ ~gateway.up
            \/ mesh = "failed" /\ req[r].name = Status

(* No request is lost: whatever awaits its handler goes through, the       *)
(* request is answered or waits for a remote peer, unless the agent has    *)
(* ended, both ways, the gateway and the mesh, have failed, or the router  *)
(* of an agent in mesh mode rejected it.                                   *)
EveryRequestAnswered ==
    []<>(\A r \in Requests :
            \/ req[r].stage \in {"free", "answered", "router"}
            \/ phase = "exited"
            \/ req[r].stage = "dropped" /\ (mesh = "failed" \/ phase = "mesh"))
=============================================================================
