---------------------------- MODULE StudioServer ----------------------------
(***************************************************************************)
(* LIOP Studio: the local HTTP server (tools/liop-studio/src/server), the   *)
(* one transport it holds to the inspected target, and the four kinds of    *)
(* transport it can be (src/transports).                                    *)
(*                                                                          *)
(* The server runs on the Node event loop: a request whose awaited result   *)
(* is there runs until it awaits again, and an event of the outside world   *)
(* is handled only when no request can run.  A request keeps a stack of     *)
(* return points, as the handlers and the transports await one another.     *)
(*                                                                          *)
(* What is abstracted: payloads, latencies, the topology report's node list *)
(* (an await that fetches it is kept as an await) and the progress events.  *)
(***************************************************************************)
EXTENDS Naturals, Sequences, FiniteSets

CONSTANTS
    Requests,   \* the API requests that may arrive, each once
    Ops,        \* Ops[r]: what request r may ask for
    Kinds,      \* Kinds[t]: the kinds the t-th transport may be; its length
                \* bounds the transports ever created
    MaxKids     \* bound: subprocesses ever started

ASSUME StudioAssumption ==
    /\ Ops \in [Requests -> SUBSET {"connect", "scan", "health", "tools", "execute"}]
    /\ Kinds \in Seq(SUBSET {"stdio", "http", "grpc", "mesh"}) /\ Kinds # <<>>
    /\ MaxKids \in Nat
    /\ IsFiniteSet(Requests) /\ "none" \notin Requests

Transports == DOMAIN Kinds
Kids == 1 .. MaxKids

VARIABLES
    active,    \* activeTransport: the newest transport
    report,    \* lastReport: the transport it was made on (0: none), its status
    trs,       \* the transports: kind, connected, client (gRPC), child (stdio)
    kids,      \* the subprocesses: transport, state, killed, early, the ids they
               \* have not answered and those answered in a torn line (history)
    pending,   \* pendingRequests of each stdio transport
    torn,      \* the stdoutBuffer of a transport holds half a line, of a
               \* subprocess that has exited
    req,       \* the API requests
    turn,      \* the request in the middle of its synchronous code, or None
    label,     \* activeConnectedTarget of the page that sends the requests: the
               \* transport it named, or 0, the address every page starts with
    lives,     \* the process is there
    raced,     \* history: a subprocess was started beside another of its
               \* transport or while it was being closed, or a connect replaced
               \* a transport other than the one it closed
    mixed      \* history: the target was switched while another request was
               \* scanning or switching it

vars == <<active, report, trs, kids, pending, torn, req, turn, label, lives, raced, mixed>>

None == "none"

Unused == [kind |-> None, connected |-> FALSE, client |-> FALSE, child |-> 0]
Unborn == [of |-> 0, st |-> "free", killed |-> FALSE, early |-> FALSE,
           owed |-> {}, lost |-> {}]
Idle == [op |-> None, at |-> "idle", wait |-> FALSE, t |-> 0, ret |-> <<>>,
         res |-> None, n |-> 0, kid |-> 0, made |-> 0]

Kind(r) == trs[req[r].t].kind
Id(r) == <<r, req[r].n>>
Busy(r) == req[r].at \notin {"idle", "done"}
Ready(r) == Busy(r) /\ ~req[r].wait
Waits(r, at) == Busy(r) /\ req[r].wait /\ req[r].at = at
Scanning(r) == Busy(r) /\ \E i \in DOMAIN req[r].ret : req[r].ret[i] = "h_rep"

----------------------------------------------------------------------------
(* The control of a request: calls, returns and awaits.                     *)

\* The request's code at this point runs; no other request is mid-way.
Running(r, at) == turn \in {None, r} /\ Ready(r) /\ req[r].at = at
\* An event of the outside world comes in between.
Event == turn = None /\ \A r \in Requests : ~Ready(r)

\* An API request arrives, and is a new one.
Arrives(r, op) == Event /\ req[r].op = None /\ op \in Ops[r]

CallOn(r, t, m, back) ==
    /\ req' = [req EXCEPT ![r].t = t, ![r].at = m, ![r].ret = <<back>> \o @,
                          ![r].res = None]
    /\ turn' = r
Call(r, m, back) == CallOn(r, req[r].t, m, back)
Return(r, res) ==
    /\ req' = [req EXCEPT ![r].at = Head(req[r].ret), ![r].ret = Tail(@), ![r].res = res]
    /\ turn' = r
Reply(r, res) ==
    /\ req' = [req EXCEPT ![r] = [Idle EXCEPT !.op = req[r].op, !.at = "done", !.res = res]]
    /\ turn' = None
Await(r, at) ==
    /\ req' = [req EXCEPT ![r].at = at, ![r].wait = TRUE, ![r].res = None]
    /\ turn' = None
\* The requests rs of which the promise settles with res become ready.
Settle(rs, res) ==
    req' = [q \in Requests |->
              IF q \in rs THEN [req[q] EXCEPT !.wait = FALSE, !.res = res] ELSE req[q]]

IsConnected(t) ==
    CASE trs[t].kind = "stdio" -> trs[t].connected /\ trs[t].child # 0
      [] trs[t].kind = "grpc"  -> trs[t].connected /\ trs[t].client
      [] OTHER                 -> trs[t].connected

SetConnected(t, b) == trs' = [trs EXCEPT ![t].connected = b]

\* The requests whose promise is in the transport's table.
Asking(t) == {q \in Requests : Busy(q) /\ req[q].t = t /\ Id(q) \in pending[t]}

\* sendJsonRpcRequest of a stdio transport: written to whatever child there
\* is and registered under a fresh id; refused when not connected.
SendJsonRpc(r, at) ==
    LET t == req[r].t
        k == trs[t].child
        id == <<r, req[r].n + 1>>
    IN IF k # 0 /\ trs[t].connected
       THEN /\ req' = [req EXCEPT ![r].at = at, ![r].n = @ + 1, ![r].wait = TRUE,
                                  ![r].res = None, ![r].kid = 0]
            /\ pending' = [pending EXCEPT ![t] = @ \cup {id}]
            /\ kids' = [kids EXCEPT ![k].owed =
                            IF kids[k].st = "up" THEN @ \cup {id} ELSE @]
            /\ turn' = None
       ELSE /\ req' = [req EXCEPT ![r].at = at, ![r].res = "fail"]
            /\ turn' = r
            /\ UNCHANGED <<pending, kids>>

----------------------------------------------------------------------------
(* connect()                                                                *)

\* A stdio transport starts a subprocess, beside one it may have already.
SpawnChild(r) ==
    LET t == req[r].t
        free == {k \in Kids : kids[k].st = "free"}
    IN \/ \E k \in free :
            /\ \A j \in free : k <= j
            /\ kids' = [kids EXCEPT ![k] = [Unborn EXCEPT !.of = t, !.st = "up"]]
            /\ trs' = [trs EXCEPT ![t].child = k]
            /\ raced' = \/ raced
                        \/ t # active
                        \/ trs[t].child # 0 /\ kids[trs[t].child].st = "up"
                        \/ \E q \in Requests : Busy(q) /\ req[q].at = "h_old"
            /\ req' = [req EXCEPT ![r].at = "c_spawn", ![r].kid = k, ![r].wait = TRUE,
                                  ![r].res = None]
            /\ turn' = None
       \/ /\ Return(r, "throw")
          /\ UNCHANGED <<kids, trs, raced>>

StdioConnect(r) ==
    /\ Kind(r) = "stdio"
    /\ IF IsConnected(req[r].t)
       THEN Return(r, "ok") /\ UNCHANGED <<kids, trs, raced>>
       ELSE SpawnChild(r)

HttpConnect(r) ==
    /\ Kind(r) = "http"
    /\ Await(r, "c_init")
    /\ UNCHANGED <<trs, kids, raced>>

\* Creating the gRPC client opens nothing: it succeeds at once.
GrpcConnect(r) ==
    /\ Kind(r) = "grpc"
    /\ Return(r, "ok")
    /\ trs' = [trs EXCEPT ![req[r].t].client = TRUE, ![req[r].t].connected = TRUE]
    /\ UNCHANGED <<kids, raced>>

MeshConnect(r) ==
    /\ Kind(r) = "mesh"
    /\ IF IsConnected(req[r].t) THEN Return(r, "ok") ELSE Await(r, "c_dial")
    /\ UNCHANGED <<trs, kids, raced>>

Connect(r) ==
    /\ Running(r, "connect")
    /\ StdioConnect(r) \/ HttpConnect(r) \/ GrpcConnect(r) \/ MeshConnect(r)
    /\ UNCHANGED <<active, report, pending, mixed, label>>

\* After the subprocess settled, or failed to start.
Spawned(r) ==
    /\ Running(r, "c_spawn")
    /\ IF req[r].res = "ok" THEN SendJsonRpc(r, "c_init")
                            ELSE Return(r, "throw") /\ UNCHANGED <<pending, kids>>
    /\ UNCHANGED <<active, report, trs, raced, mixed, label>>

\* After initialize: the tools are listed before connect returns.
StdioInitialized(r) == Kind(r) = "stdio" /\ Call(r, "list", "c_end") /\ UNCHANGED trs
HttpInitialized(r) ==
    Kind(r) = "http" /\ Call(r, "list", "c_end") /\ SetConnected(req[r].t, TRUE)

Initialized(r) ==
    /\ Running(r, "c_init")
    /\ \/ req[r].res = "ok" /\ (StdioInitialized(r) \/ HttpInitialized(r))
       \/ req[r].res = "fail" /\ Return(r, "throw") /\ UNCHANGED trs
    /\ UNCHANGED <<active, report, kids, pending, raced, mixed, label>>

MeshDialled(r) ==
    /\ Running(r, "c_dial")
    /\ IF req[r].res = "ok"
       THEN Return(r, "ok") /\ SetConnected(req[r].t, TRUE)
       ELSE Return(r, "throw") /\ UNCHANGED trs

Connected(r) ==
    /\ \/ Running(r, "c_end") /\ Return(r, req[r].res) /\ UNCHANGED trs
       \/ MeshDialled(r)
    /\ UNCHANGED <<active, report, kids, pending, raced, mixed, label>>

----------------------------------------------------------------------------
(* listTools(): "ok" with tools, "empty" without, or "throw".               *)

StdioList(r) == Kind(r) = "stdio" /\ SendJsonRpc(r, "l_rpc") /\ UNCHANGED trs
HttpList(r) == Kind(r) = "http" /\ Await(r, "l_rpc") /\ UNCHANGED <<trs, pending, kids>>

\* A gRPC listing connects first when it must, then probes with an intent.
GrpcList(r) ==
    /\ Kind(r) = "grpc"
    /\ trs' = [trs EXCEPT ![req[r].t].client = TRUE, ![req[r].t].connected = TRUE]
    /\ Await(r, "l_neg")
    /\ UNCHANGED <<pending, kids>>

MeshList(r) == Kind(r) = "mesh" /\ Return(r, "ok") /\ UNCHANGED <<trs, pending, kids>>

ListTools(r) ==
    /\ Running(r, "list")
    /\ StdioList(r) \/ HttpList(r) \/ GrpcList(r) \/ MeshList(r)
    /\ UNCHANGED <<active, report, raced, mixed, label>>

\* A stdio listing passes its error on; an HTTP listing turns it into [] and
\* an unconnected transport; so does a gRPC probe that fails or is rejected.
StdioListed(r) ==
    /\ Kind(r) = "stdio"
    /\ Return(r, IF req[r].res = "ok" THEN "ok" ELSE "throw")
    /\ UNCHANGED trs

HttpListed(r) ==
    /\ Kind(r) = "http"
    /\ Return(r, IF req[r].res = "ok" THEN "ok" ELSE "empty")
    /\ SetConnected(req[r].t, req[r].res = "ok")

GrpcListed(r) ==
    /\ Kind(r) = "grpc"
    /\ IF req[r].res = "ok" THEN Await(r, "l_resolve") ELSE Return(r, "empty")
    /\ SetConnected(req[r].t, req[r].res = "ok")

Listed(r) ==
    /\ Running(r, "l_rpc") \/ Running(r, "l_neg")
    /\ StdioListed(r) \/ HttpListed(r) \/ GrpcListed(r)
    /\ UNCHANGED <<active, report, kids, pending, raced, mixed, label>>

\* resolveNodeForGrpcTarget: an HTTP probe beside the gRPC target.
Resolved(r) ==
    /\ Running(r, "l_resolve")
    /\ Return(r, "ok")
    /\ UNCHANGED <<active, report, trs, kids, pending, raced, mixed, label>>

----------------------------------------------------------------------------
(* scan(): never throws; "online" or "offline".                             *)

ListOrConnect(r) ==
    IF IsConnected(req[r].t) THEN Call(r, "list", "s_end") ELSE Call(r, "connect", "s_list")

\* Awaited before the target is asked: the local network (stdio), the health
\* endpoint (HTTP).  A gRPC target is probed by an intent at once.
StdioScan(r) == Kind(r) = "stdio" /\ Await(r, "s_before") /\ UNCHANGED trs
HttpScan(r) == Kind(r) = "http" /\ Await(r, "s_before") /\ UNCHANGED trs
MeshScan(r) == Kind(r) = "mesh" /\ ListOrConnect(r) /\ UNCHANGED trs
GrpcScan(r) ==
    /\ Kind(r) = "grpc"
    /\ trs' = IF trs[req[r].t].client THEN trs
              ELSE [trs EXCEPT ![req[r].t].client = TRUE, ![req[r].t].connected = TRUE]
    /\ Await(r, "s_neg")

Scan(r) ==
    /\ Running(r, "scan")
    /\ StdioScan(r) \/ HttpScan(r) \/ GrpcScan(r) \/ MeshScan(r)
    /\ UNCHANGED <<active, report, kids, pending, raced, mixed, label>>

ScanConnects(r) ==
    /\ Running(r, "s_before")
    /\ ListOrConnect(r)
    /\ UNCHANGED <<active, report, trs, kids, pending, raced, mixed, label>>

\* After the connect, then after the listing: what was thrown makes the
\* report an offline one.  The node list is fetched last.
ScanGoesOn(r) ==
    IF req[r].at = "s_list" THEN Call(r, "list", "s_end") ELSE Await(r, "s_online")

StdioScanned(r) ==
    /\ Kind(r) = "stdio"
    /\ IF req[r].res = "throw" THEN Await(r, "s_offline") ELSE ScanGoesOn(r)
    /\ UNCHANGED trs

\* The catch block of an HTTP scan forgets the connection.
HttpScanned(r) ==
    /\ Kind(r) = "http"
    /\ IF req[r].res = "throw"
       THEN Await(r, "s_offline") /\ SetConnected(req[r].t, FALSE)
       ELSE ScanGoesOn(r) /\ UNCHANGED trs

MeshScanned(r) ==
    /\ Kind(r) = "mesh"
    /\ IF req[r].res = "throw" THEN Await(r, "s_offline") ELSE ScanGoesOn(r)
    /\ UNCHANGED trs

\* A gRPC target that rejects the probe is "degraded"; one that fails it is
\* no longer connected.
GrpcScanned(r) ==
    /\ Kind(r) = "grpc"
    /\ Await(r, IF req[r].res = "ok" THEN "s_online" ELSE "s_offline")
    /\ trs' = [trs EXCEPT ![req[r].t].connected = @ /\ req[r].res # "fail"]

ScanAsked(r) ==
    /\ Running(r, "s_list") \/ Running(r, "s_end") \/ Running(r, "s_neg")
    /\ StdioScanned(r) \/ HttpScanned(r) \/ MeshScanned(r) \/ GrpcScanned(r)
    /\ UNCHANGED <<active, report, kids, pending, raced, mixed, label>>

ScanEnds(r) ==
    /\ \/ Running(r, "s_online") /\ Return(r, "online")
       \/ Running(r, "s_offline") /\ Return(r, "offline")
    /\ UNCHANGED <<active, report, trs, kids, pending, raced, mixed, label>>

----------------------------------------------------------------------------
(* callTool(): "result", "error", or "throw" when the mesh cannot be joined *)

StdioCall(r) == Kind(r) = "stdio" /\ SendJsonRpc(r, "k_rpc") /\ UNCHANGED trs
HttpCall(r) == Kind(r) = "http" /\ Await(r, "k_rpc") /\ UNCHANGED <<trs, pending, kids>>
GrpcCall(r) ==
    /\ Kind(r) = "grpc"
    /\ trs' = [trs EXCEPT ![req[r].t].client = TRUE, ![req[r].t].connected = TRUE]
    /\ Await(r, "k_neg")
    /\ UNCHANGED <<pending, kids>>
MeshCall(r) ==
    /\ Kind(r) = "mesh"
    /\ IF IsConnected(req[r].t) THEN Await(r, "k_mesh") ELSE Call(r, "connect", "k_joined")
    /\ UNCHANGED <<trs, pending, kids>>

CallTool(r) ==
    /\ Running(r, "call")
    /\ StdioCall(r) \/ HttpCall(r) \/ GrpcCall(r) \/ MeshCall(r)
    /\ UNCHANGED <<active, report, raced, mixed, label>>

\* negotiateIntent accepted: the payload is sealed and the execution's stream
\* opened, whose first event decides.
GrpcNegotiated(r) ==
    /\ Running(r, "k_neg")
    /\ IF req[r].res = "ok" THEN Await(r, "k_stream") ELSE Return(r, "error")
    /\ UNCHANGED <<active, report, trs, kids, pending, raced, mixed, label>>

MeshJoined(r) ==
    /\ Running(r, "k_joined")
    /\ IF req[r].res = "ok" THEN Await(r, "k_mesh") ELSE Return(r, "throw")
    /\ UNCHANGED <<active, report, trs, kids, pending, raced, mixed, label>>

\* Errors of the target and of the exchange are both returned, not thrown.
Outcome(r) == IF req[r].res = "ok" THEN "result" ELSE "error"
StdioCalled(r) == Running(r, "k_rpc") /\ Kind(r) = "stdio" /\ Return(r, Outcome(r))
HttpCalled(r) == Running(r, "k_rpc") /\ Kind(r) = "http" /\ Return(r, Outcome(r))
GrpcCalled(r) == Running(r, "k_stream") /\ Return(r, Outcome(r))
MeshCalled(r) == Running(r, "k_mesh") /\ Return(r, Outcome(r))

Called(r) ==
    /\ StdioCalled(r) \/ HttpCalled(r) \/ GrpcCalled(r) \/ MeshCalled(r)
    /\ UNCHANGED <<active, report, trs, kids, pending, raced, mixed, label>>

----------------------------------------------------------------------------
(* The API handlers                                                         *)

DisconnectWithoutKill(t) ==    \* mutant: the subprocess is only forgotten
    /\ trs' = [trs EXCEPT ![t].connected = FALSE, ![t].client = FALSE, ![t].child = 0]
    /\ pending' = [pending EXCEPT ![t] = {}]
    /\ UNCHANGED kids

\* disconnect(): the subprocess is killed, the table of waiting requests is
\* emptied, and nobody is told.  What it still answers is dropped.
Disconnect(t) ==
    /\ trs' = [trs EXCEPT ![t].connected = FALSE, ![t].client = FALSE, ![t].child = 0]
    /\ pending' = [pending EXCEPT ![t] = {}]
    /\ kids' = IF trs[t].child = 0 THEN kids
               ELSE [kids EXCEPT ![trs[t].child].killed = TRUE, ![trs[t].child].owed = {}]

\* POST /api/connect closes the transport there is ...
ApiConnect(r) ==
    /\ Arrives(r, "connect")
    /\ Cardinality({q \in Requests : req[q].op = "connect"}) < Len(Kinds) - 1
    /\ Disconnect(active)
    /\ req' = [req EXCEPT ![r].op = "connect", ![r].t = active, ![r].at = "h_old",
                          ![r].wait = TRUE]
    /\ UNCHANGED <<active, report, turn, raced, mixed, label>>

\* ... and makes the new one the active one, which the factory may refuse.
SwitchTarget(r) ==
    /\ Running(r, "h_old")
    /\ \/ LET t == Cardinality({u \in Transports : trs[u].kind # None}) + 1
          IN \E kind \in Kinds[t] :
               /\ trs' = [trs EXCEPT ![t] = [Unused EXCEPT !.kind = kind]]
               /\ active' = t
               /\ raced' = (raced \/ active # req[r].t)
               /\ mixed' = (mixed \/ \E q \in Requests \ {r} :
                                     Scanning(q) \/ (Busy(q) /\ req[q].op = "connect"))
               /\ req' = [req EXCEPT ![r].t = t, ![r].made = t, ![r].at = "connect",
                                     ![r].ret = <<"h_conn">>, ![r].res = None]
               /\ turn' = r
       \/ Reply(r, "error") /\ UNCHANGED <<trs, active, raced, mixed>>
    /\ UNCHANGED <<report, kids, pending, label>>

\* A failed connect is left to the scan, which asks the transport that is
\* active by then.
ConnectScans(r) ==
    /\ Running(r, "h_conn")
    /\ CallOn(r, active, "scan", "h_rep")
    /\ UNCHANGED <<active, report, trs, kids, pending, raced, mixed, label>>

\* GET /api/scan and /api/nodes?force=true always scan; /api/health and
\* /api/nodes only when there is no report.
ApiScan(r, op) ==
    /\ Arrives(r, op)
    /\ IF op = "scan" \/ report.of = 0
       THEN /\ req' = [req EXCEPT ![r].op = op, ![r].t = active, ![r].at = "scan",
                                  ![r].ret = <<"h_rep">>]
            /\ turn' = r
       ELSE /\ req' = [req EXCEPT ![r].op = op, ![r].at = "done"]
            /\ UNCHANGED turn
    /\ UNCHANGED <<active, report, trs, kids, pending, raced, mixed, label>>

\* The page that sent a connect names the target once it is answered, unless
\* it was loaded again meanwhile.
ReportStored(r) ==
    /\ Running(r, "h_rep")
    /\ report' = [of |-> req[r].t, online |-> req[r].res = "online"]
    /\ label' \in IF req[r].op = "connect" THEN {req[r].made, 0} ELSE {label}
    /\ Reply(r, req[r].res)
    /\ UNCHANGED <<active, trs, kids, pending, raced, mixed>>

\* GET /api/tools, and POST /api/execute, which lists the tools first.
ApiTools(r, op) ==
    /\ Arrives(r, op)
    /\ req' = [req EXCEPT ![r].op = op, ![r].t = active, ![r].at = "list",
                          ![r].ret = <<IF op = "tools" THEN "h_tools" ELSE "h_exec">>]
    /\ turn' = r
    /\ UNCHANGED <<active, report, trs, kids, pending, raced, mixed, label>>

ToolsAnswered(r) ==
    /\ Running(r, "h_tools")
    /\ Reply(r, IF req[r].res = "throw" THEN "error" ELSE "result")
    /\ UNCHANGED <<active, report, trs, kids, pending, raced, mixed, label>>

\* A tool that is not listed is discarded; no list at all allows every tool.
\* The call goes to the transport that is active by then.
ExecuteChecks(r) ==
    /\ Running(r, "h_exec")
    /\ \/ req[r].res \in {"throw", "ok"} /\ Reply(r, "error")
       \/ req[r].res \in {"empty", "ok"} /\ CallOn(r, active, "call", "h_done")
    /\ UNCHANGED <<active, report, trs, kids, pending, raced, mixed, label>>

ExecuteAnswers(r) ==
    /\ Running(r, "h_done")
    /\ Reply(r, IF req[r].res = "result" THEN "result" ELSE "error")
    /\ UNCHANGED <<active, report, trs, kids, pending, raced, mixed, label>>

----------------------------------------------------------------------------
(* Events                                                                   *)

\* The 50 ms timer after a spawn marks the transport connected, whatever
\* became of the subprocess in the meantime.  Timers fire in spawning order.
SpawnSettles(r) ==
    /\ Event /\ Waits(r, "c_spawn")
    /\ \A q \in Requests : Waits(q, "c_spawn") => req[r].kid <= req[q].kid
    /\ SetConnected(req[r].t, TRUE)
    /\ Settle({r}, "ok")
    /\ UNCHANGED <<active, report, kids, pending, turn, raced, mixed, label>>

\* The page is loaded again, with the address written in its source.
PageReloaded ==
    /\ Event /\ label # 0
    /\ \A r \in Requests : Busy(r) => req[r].op # "connect"
    /\ label' = 0
    /\ UNCHANGED <<active, report, trs, kids, pending, req, turn, raced, mixed>>

\* The subprocess could not be started ('error').
SpawnFails(r) ==
    LET t == req[r].t IN
    /\ Event /\ Waits(r, "c_spawn")
    /\ kids[req[r].kid].st = "up" /\ ~kids[req[r].kid].killed
    /\ kids' = [kids EXCEPT ![req[r].kid].st = "gone", ![req[r].kid].early = TRUE]
    /\ SetConnected(t, FALSE)
    /\ pending' = [pending EXCEPT ![t] = {}]
    /\ Settle({r} \cup Asking(t), "fail")
    /\ UNCHANGED <<active, report, turn, raced, mixed, label>>

\* A subprocess ends ('exit'): the transport that started it is unconnected
\* and every request in its table rejected, whichever child it was put to.
\* The line it was writing stays in the buffer.
ChildExits(k) ==
    LET t == kids[k].of IN
    /\ Event /\ kids[k].st = "up"
    /\ kids' = [kids EXCEPT ![k].st = "gone", ![k].owed = {},
                            ![k].early = \E r \in Requests : Waits(r, "c_spawn") /\ req[r].kid = k]
    /\ \E half \in BOOLEAN : torn' = [torn EXCEPT ![t] = @ \/ half]
    /\ SetConnected(t, FALSE)
    /\ pending' = [pending EXCEPT ![t] = {}]
    /\ Settle(Asking(t), "fail")
    /\ UNCHANGED <<active, report, turn, raced, mixed, label>>

HandleStdoutChunkWithoutErrors(k, id, res) ==    \* mutant: error lines are ignored
    LET t == kids[k].of IN
    /\ Event /\ kids[k].st = "up" /\ id \in kids[k].owed /\ ~torn[t]
    /\ kids' = [kids EXCEPT ![k].owed = @ \ {id}]
    /\ IF res = "ok"
       THEN /\ pending' = [pending EXCEPT ![t] = @ \ {id}]
            /\ Settle({q \in Asking(t) : Id(q) = id}, res)
       ELSE UNCHANGED <<pending, req>>
    /\ UNCHANGED <<active, report, trs, turn, raced, mixed, label>>

\* handleStdoutChunk: a line with an id that is waited for settles it, any
\* other line is dropped.
HandleStdoutChunk(k, id, res) ==
    LET t == kids[k].of IN
    /\ Event /\ kids[k].st = "up" /\ id \in kids[k].owed /\ ~torn[t]
    /\ kids' = [kids EXCEPT ![k].owed = @ \ {id}]
    /\ pending' = [pending EXCEPT ![t] = @ \ {id}]
    /\ Settle({q \in Asking(t) : Id(q) = id}, res)
    /\ UNCHANGED <<active, report, trs, turn, raced, mixed, label>>

\* The other subprocesses that write into the same buffer.
Beside(k) == {j \in Kids \ {k} : kids[j].of = kids[k].of /\ kids[j].st = "up"}

\* The line that k ends begins with half a line of another subprocess: it is
\* no JSON and ignored, and so is the rest of the other's line.  Either line
\* may be an answer.
LineSwallowed(k) ==
    LET t == kids[k].of IN
    /\ Event /\ kids[k].st = "up" /\ (torn[t] \/ Beside(k) # {})
    /\ \E ids \in SUBSET UNION {kids[j].owed : j \in {k} \cup Beside(k)} :
         /\ \A j \in Kids : Cardinality(ids \cap kids[j].owed) <= 1
         /\ kids' = [j \in Kids |-> [kids[j] EXCEPT !.owed = @ \ ids,
                                       !.lost = @ \cup (ids \cap kids[j].owed)]]
    /\ torn' = [torn EXCEPT ![t] = FALSE]
    /\ UNCHANGED <<active, report, trs, pending, req, turn, label, raced, mixed>>

\* The process ends, and what it had in memory with it.
ProcessEnds ==
    /\ lives' = FALSE
    /\ active' = 1 /\ report' = [of |-> 0, online |-> FALSE]
    /\ trs' = [t \in Transports |-> Unused]
    /\ kids' = [k \in Kids |-> Unborn]
    /\ pending' = [t \in Transports |-> {}] /\ torn' = [t \in Transports |-> FALSE]
    /\ req' = [r \in Requests |-> Idle] /\ turn' = None
    /\ label' = 0 /\ raced' = FALSE /\ mixed' = FALSE

\* A line beyond 16 MB: handleStdoutChunk disconnects and throws, out of an
\* event handler, where nobody catches it.
BufferOverflows(k) == Event /\ kids[k].st = "up" /\ ProcessEnds

\* A request was written to a pipe that its reader has closed: nobody listens
\* to the 'error' of the stream.
PipeBreaks(k) == Event /\ kids[k].st = "up" /\ kids[k].owed # {} /\ ProcessEnds

\* Closing a transport, scanning the network (whose probes turn every failure
\* into an offline node) and what is built on it never reject.
NeverFail == {"h_old", "s_before", "s_online", "s_offline", "l_resolve"}

\* Exchanges without a deadline: intents, execution streams and mesh calls.
Unlimited == {"l_neg", "s_neg", "k_neg", "k_stream", "k_mesh"}

\* An HTTP, gRPC or libp2p exchange ends.
NetworkAnswers(r, res) ==
    /\ Event /\ Busy(r) /\ req[r].wait
    /\ req[r].at # "c_spawn"
    /\ ~(req[r].at \in {"c_init", "l_rpc", "k_rpc"} /\ Kind(r) = "stdio")
    /\ res = "rejected" => req[r].at \in {"l_neg", "s_neg", "k_neg"}
    /\ res = "fail" => req[r].at \notin NeverFail
    /\ Settle({r}, res)
    /\ UNCHANGED <<active, report, trs, kids, pending, turn, raced, mixed, label>>

----------------------------------------------------------------------------
Init ==
    /\ active = 1
    /\ report = [of |-> 0, online |-> FALSE]
    /\ trs \in {[t \in Transports |-> IF t = 1 THEN [Unused EXCEPT !.kind = kind] ELSE Unused]
                  : kind \in Kinds[1]}
    /\ kids = [k \in Kids |-> Unborn]
    /\ pending = [t \in Transports |-> {}]
    /\ req = [r \in Requests |-> Idle]
    /\ turn = None
    /\ torn = [t \in Transports |-> FALSE]
    /\ label = 0
    /\ lives = TRUE
    /\ raced = FALSE
    /\ mixed = FALSE

Step(r) ==
    \/ Connect(r) \/ Spawned(r) \/ Initialized(r) \/ Connected(r)
    \/ ListTools(r) \/ Listed(r) \/ Resolved(r)
    \/ Scan(r) \/ ScanConnects(r) \/ ScanAsked(r) \/ ScanEnds(r)
    \/ CallTool(r) \/ GrpcNegotiated(r) \/ MeshJoined(r) \/ Called(r)
    \/ SwitchTarget(r) \/ ConnectScans(r) \/ ReportStored(r)
    \/ ToolsAnswered(r) \/ ExecuteChecks(r) \/ ExecuteAnswers(r)

NetworkEvent(r) == \E res \in {"ok", "fail", "rejected"} : NetworkAnswers(r, res)
ChildAnswers(k) ==
    \E id \in kids[k].owed, res \in {"ok", "fail"} : HandleStdoutChunk(k, id, res)

\* What leaves the buffers alone.
Serve ==
    \/ \E r \in Requests :
         \/ ApiConnect(r)
         \/ \E op \in {"scan", "health"} : ApiScan(r, op)
         \/ \E op \in {"tools", "execute"} : ApiTools(r, op)
         \/ Step(r)
         \/ NetworkEvent(r)
         \/ SpawnSettles(r)
         \/ SpawnFails(r)
    \/ PageReloaded

Next ==
    /\ lives
    /\ \/ Serve /\ UNCHANGED <<torn, lives>>
       \/ \E k \in Kids :
            \/ ChildExits(k) /\ UNCHANGED lives
            \/ ChildAnswers(k) /\ UNCHANGED <<torn, lives>>
            \/ LineSwallowed(k) /\ UNCHANGED lives
            \/ BufferOverflows(k) \/ PipeBreaks(k)

CodeRuns == lives /\ (\E r \in Requests : Step(r)) /\ UNCHANGED <<torn, lives>>
Expires(r) ==
    /\ lives
    /\ SpawnSettles(r) \/ (req[r].at \notin Unlimited /\ NetworkEvent(r))
    /\ UNCHANGED <<torn, lives>>

\* The event loop runs what is ready; timers fire; what has a deadline ends.
\* Subprocesses, gRPC nodes and mesh peers need not answer.
Fairness ==
    /\ WF_vars(CodeRuns)
    /\ \A r \in Requests : WF_vars(Expires(r))

Spec == Init /\ [][Next]_vars /\ Fairness

----------------------------------------------------------------------------
(* Properties                                                               *)

\* A request suspended in a JSON-RPC exchange with a subprocess.
Asks(r) == Busy(r) /\ req[r].wait /\ req[r].at \in {"c_init", "l_rpc", "k_rpc"} /\ Kind(r) = "stdio"
\* Put to a subprocess that is running and will be heard.
Held(r) == /\ Id(r) \in pending[req[r].t]
           /\ \E k \in Kids : kids[k].of = req[r].t /\ kids[k].st = "up" /\ Id(r) \in kids[k].owed

\* The transport was disconnected under the request; or the request was put
\* to a child that had exited before its 50 ms settling timer, which the timer
\* then takes for connected; or its answer was part of a torn line.
Abandoned(r) ==
    LET mine == {k \in Kids : kids[k].of = req[r].t}
    IN \/ Id(r) \notin pending[req[r].t] /\ \E k \in mine : kids[k].killed
       \/ \E k \in mine : kids[k].st = "gone" /\ kids[k].early
       \/ \E k \in mine : Id(r) \in kids[k].lost

\* A request that waits for a subprocess is in the table, with an answer owed
\* by a running child, unless it was abandoned in one of these three ways.
WaitsAreHeld == \A r \in Requests : Asks(r) => Held(r) \/ Abandoned(r)

\* No subprocess is left running by a transport that lost track of it, or was
\* switched away from, unless two connects overlapped or a scan met a switch.
NoChildLeftBehind ==
    \A k \in Kids :
        (kids[k].st = "up" /\ ~kids[k].killed /\ ~raced)
            => kids[k].of = active /\ trs[active].child = k

\* Once the server is quiet, the report it serves is of the active target,
\* unless a switch overlapped another request's scan.
ReportIsOfTheTarget ==
    (~mixed /\ \A r \in Requests : ~Busy(r)) => report.of \in {0, active}

\* Once the server is quiet, a target that the page was connected to since it
\* was loaded is the active one, unless two switches overlapped.
LabelIsTheTarget ==
    (~mixed /\ \A r \in Requests : ~Busy(r)) => label \in {0, active}

\* While the process lives, a switch of target or the end of a subprocess
\* leaves behind nobody who waits, but for the ways above, no subprocess, no
\* report and no label.
SwitchIsClean ==
    lives => WaitsAreHeld /\ NoChildLeftBehind /\ ReportIsOfTheTarget /\ LabelIsTheTarget

\* Whoever the request waits for has no deadline and has not answered, or
\* nobody will hear the answer.
Unanswered(r) ==
    \/ Asks(r) /\ (Held(r) \/ Abandoned(r))
    \/ Busy(r) /\ req[r].wait /\ req[r].at \in Unlimited

\* Every API request was answered, or waits for a subprocess, a gRPC node or a
\* mesh peer.
EveryRequestEnded == lives => \A r \in Requests : Busy(r) => Unanswered(r)
============================================================================
