---------------------------- MODULE StreamBridge ----------------------------
(***************************************************************************)
(* LiopStreamBridge (bridge/stream.ts): legacy MCP sessions over HTTP, one *)
(* transport each, in front of LiopMcpBridge (bridge/index.ts), which      *)
(* answers the JSON-RPC messages and checks the receipt of a tool's result.*)
(*                                                                         *)
(* The transport is the MCP SDK's: it is given an id when it handles the   *)
(* first message, closes on DELETE or refuses it, and its close may or may *)
(* not call onclose.  Time since the last activity is counted in ticks, no *)
(* further than one past the time-out.                                     *)
(***************************************************************************)
EXTENDS Naturals, FiniteSets, ReceiptVerifier

CONSTANTS
    Requests,          \* bound: the HTTP requests of a behaviour
    Ips,
    Ids,               \* bound: session ids, given out in order
    Messages,          \* JSON-RPC messages, see Reply
    MaxSessionsPerIp,
    Timeout,           \* sessionTimeoutMs, in ticks
    Concurrency        \* how many sessions an address opens at the same time

ASSUME StreamBridgeAssumption ==
    /\ {MaxSessionsPerIp, Timeout, Concurrency} \subseteq Nat \ {0}
    /\ Requests \subseteq Nat
    /\ IsFiniteSet(Ids) /\ Ids = 1..Cardinality(Ids)

VARIABLES
    req,               \* the requests: stage, address and session
    answer,            \* the last answer: the message and what is shown for it
    activeSessions,    \* id -> address and idle ticks
    open,              \* ids of transports that are open
    unused,            \* idle ticks of each id, as seen by its client
    timer,             \* the eviction timer runs
    stopping           \* "no", "closing" sessions, or "released" the port

bridgeVars == <<req, answer, activeSessions, open, unused, timer, stopping>>

NoMessage == [method |-> NoValue]
Tracked == DOMAIN activeSessions
Given == {req[r].sid : r \in {q \in Requests : req[q].stage # "idle"}} \ {0}
Fresh == Ids \ Given
Of(ip) == {s \in Tracked : activeSessions[s].ip = ip}
\* Sessions whose DELETE was refused.
Refused == {req[r].sid : r \in {q \in Requests : req[q].stage = "refused"}}
At(stage, ip) == {r \in Requests : req[r].stage = stage /\ req[r].ip = ip}
\* The next request to arrive, unless the port is closed.
Arriving(r) ==
    /\ req[r].stage = "idle" /\ stopping # "released"
    /\ \A q \in Requests : q < r => req[q].stage # "idle"
Becomes(r, stage, ip, sid) == req' = [req EXCEPT ![r] = [stage |-> stage, ip |-> ip, sid |-> sid]]
Finished(r) == Becomes(r, "done", NoValue, req[r].sid)
Touched(s) == [activeSessions EXCEPT ![s] = [ip |-> activeSessions[s].ip, idle |-> 0]]
Drop(f, S) == [s \in DOMAIN f \ S |-> f[s]]

(***************************************************************************)
(* LiopMcpBridge.                                                          *)
(***************************************************************************)
\* verifyZkReceipt: what is shown of a tool's result.  Only logic that was sent as a
\* payload is checked; no session secret is known here, and a failure of the worker
\* pool is taken for a result that is not JSON.
VerifiedResult(msg) ==
    LET res == msg.result
        options == [secret |-> NoValue, output |-> res.output, guest |-> NoValue, vkey |-> FALSE,
                    policy |-> IF res.receipt.version = 2 THEN "required" ELSE "none"]
    IN IF res.isError \/ ~msg.payload \/ ~res.receipted \/ res.poolFails THEN "plain"
       ELSE IF VerifyInPool(res.receipt, msg.logic, res.image, options, FALSE) THEN "verified" ELSE "alert"

\* handleLiopToMcp.  A method that needs a parameter and the server's own failures
\* are answered with an error; only notifications/initialized gets no answer.
Reply(msg) ==
    CASE msg.method = "notifications/initialized" -> "nothing"
      [] msg.method = "tools/call" /\ msg.whole /\ ~msg.throws -> VerifiedResult(msg)
      [] msg.method \in {"prompts/get", "resources/read"} /\ msg.whole /\ ~msg.throws -> "plain"
      [] msg.method \in {"initialize", "server/discover", "ping", "tools/list", "resources/list", "prompts/list"} -> "plain"
      [] OTHER -> "error"

(***************************************************************************)
(* Requests.                                                               *)
(***************************************************************************)
\* A modern request needs no session; its answer is the response.
Stateless(r, msg) ==
    /\ Arriving(r)
    /\ Finished(r) /\ answer' = <<msg, Reply(msg)>>
    /\ UNCHANGED <<activeSessions, open, unused, timer, stopping>>

\* Without a session id a legacy client is initialising; the limit is checked here
\* and the session comes later.
Arrive(r, ip) ==
    /\ Arriving(r)
    /\ Cardinality(At("creating", ip)) < Concurrency /\ Fresh # {}
    /\ IF Cardinality(Of(ip)) >= MaxSessionsPerIp THEN Finished(r) ELSE Becomes(r, "creating", ip, 0)
    /\ UNCHANGED <<answer, activeSessions, open, unused, timer, stopping>>

\* The transport is loaded and handles the request: onsessioninitialized.
SessionInitialized(r) ==
    /\ req[r].stage = "creating"
    /\ \E s \in Fresh :
          /\ \A i \in Fresh : s <= i
          /\ activeSessions' = [i \in Tracked \cup {s} |-> IF i = s THEN [ip |-> req[r].ip, idle |-> 0]
                                                         ELSE activeSessions[i]]
          /\ open' = open \cup {s} /\ unused' = [unused EXCEPT ![s] = 0]
          /\ Becomes(r, "handling", req[r].ip, s)
    /\ UNCHANGED <<answer, timer, stopping>>

\* A request with a session id: unknown, or routed to its transport.
Route(r, s) ==
    /\ Arriving(r) /\ s \in Given
    /\ IF s \in Tracked
       THEN /\ activeSessions' = Touched(s)
            /\ unused' = [unused EXCEPT ![s] = 0]
            /\ Becomes(r, "handling", req[r].ip, s)
       ELSE Finished(r) /\ UNCHANGED <<activeSessions, unused>>
    /\ UNCHANGED <<answer, open, timer, stopping>>

\* onmessage has an answer; a transport that was closed meanwhile does not send it.
Respond(r, msg) ==
    /\ req[r].stage = "handling"
    /\ Finished(r)
    /\ answer' = IF req[r].sid \in open THEN <<msg, Reply(msg)>> ELSE answer
    /\ UNCHANGED <<activeSessions, open, unused, timer, stopping>>

\* A GET carries no message: its stream ends.
ListeningEnds(r) ==
    /\ req[r].stage = "handling"
    /\ Finished(r)
    /\ UNCHANGED <<answer, activeSessions, open, unused, timer, stopping>>

\* Closing a transport; fires says whether it calls onclose.
Close(S, fires) ==
    /\ open' = open \ S
    /\ activeSessions' = IF fires THEN Drop(activeSessions, S) ELSE activeSessions

\* DELETE: touched, closed by the transport, and later removed.
Delete(r, s, fires) ==
    /\ Arriving(r) /\ s \in Tracked
    /\ open' = open \ {s}
    /\ activeSessions' = IF fires THEN Drop(activeSessions, {s})
                         ELSE Touched(s)
    /\ unused' = [unused EXCEPT ![s] = 0]
    /\ Becomes(r, "deleting", req[r].ip, s)
    /\ UNCHANGED <<answer, timer, stopping>>

\* The transport refuses it, for the protocol version it names, and stays open.
DeleteRefused(r, s) ==
    /\ Arriving(r) /\ s \in Tracked
    /\ activeSessions' = Touched(s) /\ unused' = [unused EXCEPT ![s] = 0]
    /\ Becomes(r, "refusing", req[r].ip, s)
    /\ UNCHANGED <<answer, open, timer, stopping>>

(* Mutant: the removal is left to onclose.                                 *)
DeletedByTransport(r) ==
    /\ req[r].stage \in {"deleting", "refusing"}
    /\ Finished(r)
    /\ UNCHANGED <<answer, activeSessions, open, unused, timer, stopping>>

\* The entry goes, whatever the transport answered.
Deleted(r) ==
    /\ req[r].stage \in {"deleting", "refusing"}
    /\ activeSessions' = Drop(activeSessions, {req[r].sid})
    /\ Becomes(r, IF req[r].stage = "deleting" THEN "done" ELSE "refused", NoValue, req[r].sid)
    /\ UNCHANGED <<answer, open, unused, timer, stopping>>

(***************************************************************************)
(* Timer and shutdown.                                                     *)
(***************************************************************************)
IdleSessions == {s \in Tracked : activeSessions[s].idle > Timeout}

EvictIdleSessions ==
    /\ timer /\ IdleSessions # {}
    /\ open' = open \ IdleSessions
    /\ activeSessions' = Drop(activeSessions, IdleSessions)
    /\ UNCHANGED <<answer, req, unused, timer, stopping>>

Older(n) == IF n > Timeout THEN n ELSE n + 1

Tick ==
    /\ \E s \in Tracked : activeSessions[s].idle <= Timeout
    /\ activeSessions' = [s \in Tracked |-> [ip |-> activeSessions[s].ip, idle |-> Older(activeSessions[s].idle)]]
    /\ unused' = [s \in Ids |-> IF s \in open THEN Older(unused[s]) ELSE 0]
    /\ UNCHANGED <<answer, req, open, timer, stopping>>

Stop ==
    /\ stopping = "no"
    /\ stopping' = "closing" /\ timer' = FALSE
    /\ UNCHANGED <<answer, req, activeSessions, open, unused>>

\* The loop over the sessions, one close at a time; it also reaches the ones that
\* are opened meanwhile.
StopCloses(s) ==
    /\ stopping = "closing" /\ s \in Tracked
    /\ Close({s}, TRUE)
    /\ UNCHANGED <<answer, req, unused, timer, stopping>>

StopReleases ==
    /\ stopping = "closing" /\ Tracked = {}
    /\ stopping' = "released"
    /\ UNCHANGED <<answer, req, activeSessions, open, unused, timer>>

(* Mutant: the eviction timer is not started.                              *)
StartWithoutTimer ==
    /\ req = [r \in Requests |-> [stage |-> "idle", ip |-> NoValue, sid |-> 0]]
    /\ answer = <<NoMessage, "nothing">>
    /\ activeSessions = <<>> /\ open = {} /\ unused = [s \in Ids |-> 0]
    /\ timer = FALSE /\ stopping = "no"

Start ==
    /\ req = [r \in Requests |-> [stage |-> "idle", ip |-> NoValue, sid |-> 0]]
    /\ answer = <<NoMessage, "nothing">>
    /\ activeSessions = <<>> /\ open = {} /\ unused = [s \in Ids |-> 0]
    /\ timer = TRUE /\ stopping = "no"

Serve ==
    \E r \in Requests :
        \/ \E msg \in Messages : Stateless(r, msg)
        \/ \E ip \in Ips : Arrive(r, ip)
        \/ \E s \in Ids : Route(r, s) \/ DeleteRefused(r, s)
        \/ \E s \in Ids, fires \in BOOLEAN : Delete(r, s, fires)

Continue == \E r \in Requests : SessionInitialized(r) \/ Deleted(r) \/ ListeningEnds(r) \/ \E msg \in Messages : Respond(r, msg)

BridgeNext ==
    \/ Serve \/ Continue
    \/ EvictIdleSessions \/ Tick
    \/ Stop \/ StopReleases
    \/ \E s \in Ids : StopCloses(s)

\* Time passes, the timer fires, and what was begun goes on.
BridgeFairness ==
    WF_bridgeVars(Tick) /\ WF_bridgeVars(EvictIdleSessions) /\ WF_bridgeVars(Continue)

BridgeSpec == Start /\ [][BridgeNext]_bridgeVars /\ BridgeFairness

(***************************************************************************)
(* Properties.                                                             *)
(***************************************************************************)
(* The number of sessions is checked before the transport is loaded and    *)
(* counted after: an address has at most as many sessions, with those it   *)
(* is opening, as the limit allows plus the others it opens at that time.  *)
LimitPlusOverlap ==
    \A ip \in Ips :
        Cardinality(Of(ip)) + Cardinality(At("creating", ip)) <= MaxSessionsPerIp - 1 + Concurrency

(* Every open transport is known, so that the timer and stop reach it,     *)
(* unless its DELETE was refused, and no entry counts against its address  *)
(* after its transport was closed, except while the DELETE that closed it  *)
(* is finishing.                                                           *)
TrackedIffOpen ==
    /\ open \subseteq Tracked \cup Refused
    /\ \A s \in Tracked \ open : \E r \in Requests : req[r].stage = "deleting" /\ req[r].sid = s

(* The sessions of an address are counted right: see the two parts.        *)
SessionsAreAccounted == LimitPlusOverlap /\ TrackedIffOpen

(* The timer ends no session in which a request arrived within the         *)
(* time-out, whatever the request was.                                     *)
ActiveIsKept ==
    [][\A s \in open \ open' : timer /\ req' = req => unused[s] > Timeout]_bridgeVars

(* A session that its client leaves does not stay: while the bridge runs,  *)
(* each one is closed in the end, except one whose DELETE was refused,     *)
(* which nothing reaches any more.                                         *)
IdleIsReclaimed == []<>(open \subseteq Refused \/ stopping # "no")

(* The timer takes the idle sessions, all of them, and no other.           *)
EvictionIsJust == ActiveIsKept /\ IdleIsReclaimed

(* What is labelled verified carries a receipt for the logic that was sent *)
(* and for the result that is shown, if what is shown names a result (and  *)
(* the logic is no proxy); a refused receipt hides the result.             *)
LabelIsEarned ==
    answer[2] = "verified" =>
        LET msg == answer[1]
        IN /\ msg.result.receipt.logic = msg.logic
           /\ \/ msg.logic.proxy \/ msg.result.output = NoValue
              \/ msg.result.receipt.output = <<"result", msg.result.output>>
=============================================================================
