---------------------------- MODULE HybridGateway ----------------------------
(***************************************************************************)
(* LiopHybridGateway: what stands between a POST to /mcp and the router.   *)
(* A request over HTTP/1.1 or HTTP/2 is validated, counted against the     *)
(* client's quota, shown to the admission interceptor and dispatched; the  *)
(* handlers are interrupted at every await and every stream event.  The    *)
(* gateway can be drained and stopped under them.                          *)
(*                                                                         *)
(* Timers are abstract: the interceptor's deadline and the drain's may     *)
(* pass at any time.  The clock is the one the rate limiter reads.         *)
(***************************************************************************)
EXTENDS Integers, FiniteSets

CONSTANTS
    Requests, Keys, KeyOf,  \* requests under way at a time (an entry is used again when its
                            \* request is over) and their rate limit keys
    Configs,                \* [jwt, hook]: whether tokens are validated; no interceptor
                            \* ("none") or its failMode ("closed", "open")
    Window, MaxRequests,    \* windowMs and maxRequests of the rate limiter
    Second,                 \* a second, in units of the clock
    MaxClock                \* bound on the clock

ASSUME GatewayAssumption ==
    /\ IsFiniteSet(Requests) /\ KeyOf \in [Requests -> Keys]
    /\ Configs \subseteq [jwt : BOOLEAN, hook : {"none", "closed", "open"}]
    /\ {Window, MaxRequests, MaxClock} \subseteq Nat /\ Second \in Nat \ {0}

VARIABLES
    config,
    req,        \* req[r]: the request, see Request
    active,     \* activeRequests
    life,       \* "listening", "draining", "closing" (meshNode.stop) or "stopped"
    draining,   \* isDraining
    overdue,    \* whether the drain that closes the gateway gave up waiting
    clock,
    records,    \* records[k]: [count, resetTime], for the keys in the map
    timer,      \* whether the clean-up timer runs
    passed,     \* passed[k]: the checks allowed within the window that ends with the latest
                \* of them, since the last reset of k: their instants, numbered
    told        \* told[k]: when the latest check of k, if refused, said to come back

quota == << records, passed, told >>
server == << life, draining, overdue, timer >>
vars == << config, req, active, server, clock, quota >>

Never == -1
Limit == IF MaxRequests = 0 THEN 1 ELSE MaxRequests

(* stage: the await or event the handler is at; conn: the response stream; *)
(* attached: onDone listens to its finish and close; gates: what has let   *)
(* the request through.                                                    *)
Request ==
    [protocol : {"none", "h1", "h2"},
     stage : {"idle", "validate", "body", "other", "intercept", "dispatch",
              "answered", "unhandled"},
     conn : {"none", "open", "finished", "closed"},
     attached : BOOLEAN,
     status : {"none", "200", "400", "401", "403", "429", "503"},
     gates : SUBSET {"token", "quota", "hook", "failopen"}]

NoRequest == [protocol |-> "none", stage |-> "idle", conn |-> "none", attached |-> FALSE,
              status |-> "none", gates |-> {}]

Init ==
    /\ config \in Configs
    /\ req = [r \in Requests |-> NoRequest]
    /\ active = 0
    /\ life = "listening" /\ draining = FALSE /\ overdue = FALSE
    /\ clock = 0
    /\ records = << >> /\ timer = TRUE
    /\ passed = [k \in Keys |-> {}]
    /\ told = [k \in Keys |-> Never]

-----------------------------------------------------------------------------
(* InMemoryRateLimiter.                                                    *)
Put(f, k, v) == [x \in DOMAIN f \cup {k} |-> IF x = k THEN v ELSE f[x]]
Drop(f, S) == [x \in DOMAIN f \ S |-> f[x]]

Expired(rec) == clock >= rec.resetTime

(* Retry-After: Math.ceil(resetMs / 1000) seconds.                         *)
RetryAfter(resetMs) == (resetMs + Second - 1) \div Second

(* The n-th check allowed at an instant t is << t, n >>.                   *)
Recent(k) == {p \in passed[k] : clock - p[1] < Window}
ThisCheck(k) == << clock, 1 + Cardinality({p \in passed[k] : p[1] = clock}) >>

Pass(r) ==
    /\ passed' = [passed EXCEPT ![KeyOf[r]] = Recent(KeyOf[r]) \cup {ThisCheck(KeyOf[r])}]
    /\ told' = [told EXCEPT ![KeyOf[r]] = Never]

(* The first request of a client, or the first after its window is over:   *)
(* counted without a look at the limit.                                    *)
CheckOpens(r) ==
    /\ KeyOf[r] \in DOMAIN records => Expired(records[KeyOf[r]])
    /\ records' = Put(records, KeyOf[r], [count |-> 1, resetTime |-> clock + Window])
    /\ Pass(r)

CheckCounts(r) ==
    /\ KeyOf[r] \in DOMAIN records /\ ~Expired(records[KeyOf[r]])
    /\ records[KeyOf[r]].count < MaxRequests
    /\ records' = [records EXCEPT ![KeyOf[r]].count = @ + 1]
    /\ Pass(r)

CheckRefuses(r) ==
    /\ KeyOf[r] \in DOMAIN records /\ ~Expired(records[KeyOf[r]])
    /\ records[KeyOf[r]].count >= MaxRequests
    /\ told' = [told EXCEPT ![KeyOf[r]] =
                  clock + Second * RetryAfter(records[KeyOf[r]].resetTime - clock)]
    /\ UNCHANGED << records, passed >>

(* reset(key): no caller in the gateway, but part of the limiter.          *)
Reset(k) ==
    /\ k \in DOMAIN records
    /\ records' = Drop(records, {k})
    /\ passed' = [passed EXCEPT ![k] = {}]
    /\ told' = [told EXCEPT ![k] = Never]
    /\ UNCHANGED << config, req, active, server, clock >>

(* Mutant: the timer removes every bucket.                                 *)
CleanupAll ==
    /\ timer
    /\ records' = << >>
    /\ UNCHANGED << config, req, active, server, clock, passed, told >>

(* The interval timer, until close clears it.                              *)
Cleanup ==
    /\ timer
    /\ records' = Drop(records, {k \in DOMAIN records : Expired(records[k])})
    /\ UNCHANGED << config, req, active, server, clock, passed, told >>

-----------------------------------------------------------------------------
(* The answer a is written and the response ended.  If the client has gone *)
(* that has no effect on HTTP/1.1; on an HTTP/2 stream stream.respond      *)
(* throws, and throws again in the catch block; nobody handles that        *)
(* rejection, which ends the process (Lives).                              *)
Answered(q, a) ==
    IF q.conn = "open" THEN [q EXCEPT !.stage = "answered", !.status = a, !.gates = {}]
    ELSE IF q.protocol = "h2" THEN [q EXCEPT !.stage = "unhandled"]
    ELSE NoRequest

At(q, s) == [q EXCEPT !.stage = s]
Through(q, g) == [q EXCEPT !.gates = @ \cup {g}]

Becomes(r, q) == req' = [req EXCEPT ![r] = q]

(* A request reaches the HTTP/1.1 server: it is counted and onDone         *)
(* attached.  Probes, metrics, metadata and unknown paths are answered at  *)
(* once (with "200" here, whatever the code); gRPC-Web and /oidc read the  *)
(* body first, also while draining.  A POST to /mcp is refused while       *)
(* draining or without a bearer token.                                     *)
ArriveH1(r) ==
    LET q == [NoRequest EXCEPT !.protocol = "h1", !.conn = "open", !.attached = TRUE] IN
    /\ req[r].stage = "idle"
    /\ active' = active + 1
    /\ \/ Becomes(r, Answered(q, "200"))
       \/ Becomes(r, At(q, "other"))
       \/ draining /\ Becomes(r, Answered(q, "503"))
       \/ ~draining /\ config.jwt /\ Becomes(r, Answered(q, "401"))
       \/ ~draining /\ config.jwt /\ Becomes(r, At(q, "validate"))
       \/ ~draining /\ ~config.jwt /\ Becomes(r, At(q, "body"))
    /\ UNCHANGED << config, server, clock, quota >>

(* A stream of an HTTP/2 session: neither counted nor refused.             *)
ArriveH2(r) ==
    /\ req[r].stage = "idle"
    /\ Becomes(r, [NoRequest EXCEPT !.protocol = "h2", !.conn = "open", !.stage = "body"])
    /\ UNCHANGED << config, active, server, clock, quota >>

(* The body of a gRPC-Web or OIDC request was read and answered.           *)
OtherEnds(r) ==
    /\ req[r].stage = "other"
    /\ Becomes(r, Answered(req[r], "200"))
    /\ UNCHANGED << config, active, server, clock, quota >>

(* What follows the quota (HTTP/1.1) or the token (HTTP/2): the body does  *)
(* not parse or contradicts the headers, the interceptor is asked, or the  *)
(* request is dispatched.                                                  *)
Inspect(r, q) ==
    \/ Becomes(r, Answered(q, "400"))
    \/ config.hook # "none" /\ Becomes(r, At(q, "intercept"))
    \/ config.hook = "none" /\ Becomes(r, At(q, "dispatch"))

(* jwtValidator.validate settles.  The body of an HTTP/1.1 client that has *)
(* gone in the meantime never ends.                                        *)
Validate(r) ==
    LET q == Through(req[r], "token") IN
    /\ req[r].stage = "validate"
    /\ \/ Becomes(r, Answered(req[r], "401"))
       \/ q.protocol = "h1" /\ Becomes(r, IF q.conn = "closed" THEN NoRequest ELSE At(q, "body"))
       \/ q.protocol = "h2" /\ Inspect(r, q)
    /\ UNCHANGED << config, active, server, clock, quota >>

(* The end event of an HTTP/1.1 request: the quota is checked.             *)
EndH1(r) ==
    LET q == req[r] IN
    /\ q.stage = "body" /\ q.protocol = "h1"
    /\ \/ CheckRefuses(r) /\ Becomes(r, Answered(q, "429"))
       \/ (CheckOpens(r) \/ CheckCounts(r)) /\ Inspect(r, Through(q, "quota"))
    /\ UNCHANGED << config, active, server, clock, timer >>

(* The end event of an HTTP/2 stream: the token comes after the body, and  *)
(* no quota is checked.                                                    *)
EndH2(r) ==
    LET q == req[r] IN
    /\ q.stage = "body" /\ q.protocol = "h2"
    /\ \/ config.jwt /\ (Becomes(r, At(q, "validate")) \/ Becomes(r, Answered(q, "401")))
       \/ ~config.jwt /\ Inspect(r, q)
    /\ UNCHANGED << config, active, server, clock, quota >>

(* After the interceptor: the headers contradict the body, or dispatch.    *)
Compare(r, q) == Becomes(r, Answered(q, "400")) \/ Becomes(r, At(q, "dispatch"))

(* executeGatewayInterceptor: the interceptor's promise wins the race.     *)
InterceptorAnswers(r) ==
    /\ req[r].stage = "intercept"
    /\ Becomes(r, Answered(req[r], "403")) \/ Compare(r, Through(req[r], "hook"))
    /\ UNCHANGED << config, active, server, clock, quota >>

(* Mutant: an error counts as consent whatever the failMode.               *)
InterceptorFailedOpen(r) == Compare(r, Through(req[r], "failopen"))

(* What the catch of executeGatewayInterceptor makes of an error.          *)
InterceptorFailed(r) ==
    \/ config.hook = "open" /\ Compare(r, Through(req[r], "failopen"))
    \/ config.hook = "closed" /\ Becomes(r, Answered(req[r], "403"))

(* It throws, or its promise rejects.                                      *)
InterceptorThrows(r) ==
    /\ req[r].stage = "intercept"
    /\ InterceptorFailed(r)
    /\ UNCHANGED << config, active, server, clock, quota >>

(* AbortSignal.timeout wins the race.                                      *)
Deadline(r) ==
    /\ req[r].stage = "intercept"
    /\ InterceptorFailed(r)
    /\ UNCHANGED << config, active, server, clock, quota >>

(* router.dispatch settles: with a response, with an error, or without a   *)
(* response, upon which an HTTP/2 stream is closed.                        *)
Dispatched(r) ==
    /\ req[r].stage = "dispatch"
    /\ \/ \E a \in {"200", "400"} : Becomes(r, Answered(req[r], a))
       \/ req[r].protocol = "h2" /\ Becomes(r, NoRequest)
    /\ UNCHANGED << config, active, server, clock, quota >>

-----------------------------------------------------------------------------
(* Mutant: the listeners stay, so that finish and close are both counted.  *)
OnDoneTwice(r, q) ==
    /\ active' = IF q.attached /\ active > 0 THEN active - 1 ELSE active
    /\ Becomes(r, q)

(* A finish or close event leaves the request as q: onDone, if it is still *)
(* attached, removes itself and takes the request off the count.           *)
OnDone(r, q) ==
    /\ active' = IF q.attached /\ active > 0 THEN active - 1 ELSE active
    /\ Becomes(r, IF q.stage = "idle" THEN NoRequest ELSE [q EXCEPT !.attached = FALSE])

(* The response was handed to the operating system: event finish.          *)
Finish(r) ==
    /\ req[r].conn = "open" /\ req[r].stage = "answered"
    /\ OnDone(r, [req[r] EXCEPT !.conn = "finished"])
    /\ UNCHANGED << config, server, clock, quota >>

(* The stream is closed: after finish, or because the client went away.    *)
(* Without its body's end the handler never goes on; a handler behind an   *)
(* await does.                                                             *)
Close(r) ==
    /\ req[r].conn \in {"open", "finished"}
    /\ IF req[r].stage \in {"body", "other", "answered"}
       THEN OnDone(r, [NoRequest EXCEPT !.attached = req[r].attached])
       ELSE OnDone(r, [req[r] EXCEPT !.conn = "closed"])
    /\ UNCHANGED << config, server, clock, quota >>

(* drain: no more /mcp requests over HTTP/1.1.                             *)
Drain ==
    /\ life = "listening"
    /\ life' = "draining" /\ draining' = TRUE
    /\ UNCHANGED << config, req, active, overdue, timer, clock, quota >>

(* The loop of drain looks at the count every 50 ms.                       *)
DrainPoll ==
    /\ life = "draining" /\ active = 0
    /\ life' = "closing"
    /\ UNCHANGED << config, req, active, draining, overdue, timer, clock, quota >>

(* Mutant: no time limit.                                                  *)
DrainWaitsOn ==
    /\ life = "draining"
    /\ UNCHANGED vars

(* timeoutMs have passed.                                                  *)
DrainTimeout ==
    /\ life = "draining"
    /\ life' = "closing" /\ overdue' = TRUE
    /\ UNCHANGED << config, req, active, draining, timer, clock, quota >>

(* stop, called without drain.                                             *)
Stop ==
    /\ life = "listening"
    /\ life' = "closing"
    /\ UNCHANGED << config, req, active, draining, overdue, timer, clock, quota >>

(* meshNode.stop settles: the limiter and the servers are closed.  The     *)
(* connections that are open stay.                                         *)
Stopped ==
    /\ life = "closing"
    /\ life' = "stopped" /\ overdue' = FALSE
    /\ timer' = FALSE /\ records' = << >>
    /\ passed' = [k \in Keys |-> {}] /\ told' = [k \in Keys |-> Never]
    /\ UNCHANGED << config, req, active, draining, clock >>

Tick ==
    /\ clock < MaxClock
    /\ clock' = clock + 1
    /\ UNCHANGED << config, req, active, server, quota >>

-----------------------------------------------------------------------------
(* Node.js ends a process in which a promise is rejected and nobody        *)
(* handles it.                                                             *)
Lives == \A r \in Requests : req[r].stage # "unhandled"

Step ==
    \/ \E r \in Requests :
         \/ ArriveH1(r) \/ ArriveH2(r) \/ OtherEnds(r)
         \/ Validate(r) \/ EndH1(r) \/ EndH2(r)
         \/ InterceptorAnswers(r) \/ InterceptorThrows(r) \/ Deadline(r)
         \/ Dispatched(r) \/ Finish(r) \/ Close(r)
    \/ \E k \in Keys : Reset(k)
    \/ Cleanup \/ Drain \/ DrainPoll \/ DrainTimeout \/ Stop \/ Stopped \/ Tick

Next == Lives /\ Step

(* Timers fire and the mesh node stops, as long as the process lives; an   *)
(* interceptor, a router or a client may never answer.                     *)
Fairness ==
    /\ \A r \in Requests : WF_vars(Lives /\ Deadline(r))
    /\ WF_vars(Lives /\ DrainPoll) /\ WF_vars(Lives /\ DrainTimeout) /\ WF_vars(Lives /\ Stopped)

Spec == Init /\ [][Next]_vars /\ Fairness
-----------------------------------------------------------------------------
(* Types.  No bucket of the rate limiter counts beyond its limit, and the  *)
(* request count never goes below zero or above the open requests.         *)
TypeOK ==
    /\ config \in Configs
    /\ req \in [Requests -> Request]
    /\ active \in 0 .. Cardinality(Requests)
    /\ life \in {"listening", "draining", "closing", "stopped"}
    /\ {draining, overdue, timer} \subseteq BOOLEAN
    /\ clock \in Nat
    /\ DOMAIN records \subseteq Keys
    /\ \A k \in DOMAIN records : records[k] \in [count : 1 .. Limit, resetTime : Nat]
    /\ passed \in [Keys -> SUBSET (Nat \X Nat)]
    /\ told \in [Keys -> Nat \cup {Never}]

(* Whatever reaches router.dispatch has passed every gate of its protocol, *)
(* in spite of tokens that fail, interceptors that throw or are too slow   *)
(* and clients that leave: a valid token if tokens are validated, the      *)
(* quota on HTTP/1.1, and the interceptor's consent, or its failure under  *)
(* failMode "open" only.                                                   *)
NothingSlipsThrough ==
    \A r \in Requests : req[r].stage = "dispatch" =>
        /\ config.jwt => "token" \in req[r].gates
        /\ req[r].protocol = "h1" => "quota" \in req[r].gates
        /\ config.hook = "closed" => "hook" \in req[r].gates
        /\ config.hook = "open" => req[r].gates \cap {"hook", "failopen"} # {}

(* The rate limiter has fixed windows: wherever a window of time starts,   *)
(* fewer than twice the limit pass in it, since it cannot hold both the    *)
(* request that opened a bucket and one that the next bucket admitted.     *)
(* The timer that removes buckets may not change this.                     *)
LessThanTwice == \A k \in Keys : Cardinality(passed[k]) < 2 * Limit

(* Retry-After: the next request of a refused client, sent when the whole  *)
(* seconds it was told are over, is not refused again.                     *)
RetryAfterIsHonoured ==
    [][\A r \in Requests :
         (req[r].stage = "body" /\ req'[r].status = "429")
         => (told[KeyOf[r]] = Never \/ clock < told[KeyOf[r]])]_vars

(* The limiter keeps to its limit and to what it told the clients.         *)
LimiterKeepsItsWord == [](TypeOK /\ LessThanTwice) /\ RetryAfterIsHonoured

(* A drain that does not give up closes the gateway only when every        *)
(* HTTP/1.1 client was answered or has left, whatever order the finish and *)
(* close events of their responses came in.  (What is open then is a       *)
(* request that came later.)                                               *)
DrainIsPatient ==
    (draining /\ life = "closing" /\ ~overdue) =>
        \A r \in Requests : (req[r].protocol = "h1" /\ req[r].conn = "open") =>
            req[r].stage \in {"answered", "other"}

(* Both time limits hold, whoever hangs.  "The gateway never blocks beyond *)
(* timeoutMs": an interceptor that never settles does not hold a request.  *)
(* And a drain ends with a stopped gateway, even if requests never end.    *)
(* Only the death of the process, of an answer to an HTTP/2 client that    *)
(* has left, forestalls either.                                            *)
DeadlinesAreKept ==
    /\ \A r \in Requests : req[r].stage = "intercept" ~> req[r].stage # "intercept" \/ ~Lives
    /\ life = "draining" ~> life = "stopped" \/ ~Lives
==============================================================================
