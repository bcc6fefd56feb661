--------------------------- MODULE Gateway_proofs ---------------------------
(***************************************************************************)
(* Proofs about the gateway.                                               *)
(*                                                                         *)
(* Its transport, for any number of requests under way and of rate limit   *)
(* keys, every configuration, window and limit.  The invariant has two     *)
(* halves that meet in EndH1 only: what is known of the requests, and what *)
(* is known of the rate limiter.                                           *)
(*                                                                         *)
(* The dispatch behind it, for any number of requests, whatever they ask   *)
(* and whatever peers send.                                                *)
(*                                                                         *)
(* The router behind that, for any finite number of peers, whatever they   *)
(* serve, and any delays: what its state is while discoveries, calls and   *)
(* tools/list interleave, and where the names on the tool list lead.       *)
(***************************************************************************)
EXTENDS HybridGateway, McpRouter, McpDispatch, FiniteSetTheorems, SequenceTheorems, TLAPS

(***************************************************************************)
(* The transport.                                                          *)
(***************************************************************************)
(* One request: onDone is attached exactly while an HTTP/1.1 response is   *)
(* open, no answer comes before its stage, and the gates that lie behind   *)
(* the request are the ones its stage comes after.                         *)
Well(q) ==
    /\ q.stage = "idle" => q = NoRequest
    /\ q.attached <=> (q.protocol = "h1" /\ q.conn = "open")
    /\ q.stage # "answered" => q.status = "none"
    /\ (q.stage = "body" /\ q.protocol = "h1" /\ config.jwt) => "token" \in q.gates
    /\ q.stage \in {"intercept", "dispatch"} =>
         /\ config.jwt => "token" \in q.gates
         /\ q.protocol = "h1" => "quota" \in q.gates
    /\ q.stage = "dispatch" =>
         /\ config.hook = "closed" => "hook" \in q.gates
         /\ config.hook = "open" => q.gates \cap {"hook", "failopen"} # {}

(* The count is the number of requests that onDone still listens to.       *)
Attached == {r \in Requests : req[r].attached}

(* A client that waits for an answer: the drain has to wait for it.        *)
AwaitsAnswer(q) == q.protocol = "h1" /\ q.conn = "open" /\ q.stage \notin {"answered", "other"}

RequestsInv ==
    /\ config \in Configs
    /\ req \in [Requests -> Request]
    /\ \A r \in Requests : Well(req[r])
    /\ active = Cardinality(Attached)
    /\ life \in {"listening", "draining", "closing", "stopped"}
    /\ {draining, overdue} \subseteq BOOLEAN
    /\ life = "listening" => ~draining
    /\ DrainIsPatient

-----------------------------------------------------------------------------
(* The count is within bounds, and positive while a request is attached.   *)
LEMMA CountBounds ==
  ASSUME RequestsInv
  PROVE  /\ IsFiniteSet(Attached)
         /\ active \in 0 .. Cardinality(Requests)
         /\ \A r \in Requests : req[r].attached => active > 0
         /\ active = 0 => \A r \in Requests : ~req[r].attached
<1>1. IsFiniteSet(Requests) /\ Attached \subseteq Requests
  BY GatewayAssumption DEF Attached
<1>2. IsFiniteSet(Attached) /\ Cardinality(Attached) <= Cardinality(Requests)
  BY <1>1, FS_Subset
<1>3. Cardinality(Requests) \in Nat /\ Cardinality(Attached) \in Nat
  BY <1>1, <1>2, FS_CardinalityType
<1>4. Cardinality(Attached) = 0 <=> Attached = {}
  BY <1>2, FS_EmptySet
<1>5. active = Cardinality(Attached)
  BY DEF RequestsInv
<1>6. active \in 0 .. Cardinality(Requests)
  BY <1>2, <1>3, <1>5
<1>7. active = 0 <=> \A r \in Requests : ~req[r].attached
  BY <1>4, <1>5 DEF Attached
<1>8. ASSUME NEW r \in Requests, req[r].attached
      PROVE  active > 0
  BY <1>6, <1>7, <1>8
<1> QED
  BY <1>2, <1>6, <1>7, <1>8

(* A step of one request: the new one is well, the count follows its       *)
(* listener, and nobody starts to wait once the gateway drains.            *)
LEMMA RequestStep ==
  ASSUME RequestsInv, NEW r \in Requests, NEW q \in Request,
         Becomes(r, q), Well(q),
         AwaitsAnswer(q) => AwaitsAnswer(req[r]) \/ ~draining,
         active' = IF q.attached = req[r].attached THEN active
                   ELSE IF q.attached THEN active + 1 ELSE active - 1,
         UNCHANGED << config, life, draining, overdue >>
  PROVE  RequestsInv'
<1>1. /\ req' \in [Requests -> Request]
      /\ req'[r] = q
      /\ \A x \in Requests \ {r} : req'[x] = req[x]
  BY DEF RequestsInv, Becomes
<1>2. (\A x \in Requests : Well(req[x]))'
  BY <1>1 DEF RequestsInv, Well
<1>3. active' = Cardinality(Attached')
  <2>1. IsFiniteSet(Attached) /\ active = Cardinality(Attached)
    BY CountBounds DEF RequestsInv
  <2>2. {q.attached, req[r].attached} \subseteq BOOLEAN
    BY DEF RequestsInv, Request
  <2>3. CASE q.attached = req[r].attached
    <3>1. Attached' = Attached
      BY <1>1, <2>3 DEF Attached
    <3> QED
      BY <2>1, <2>3, <3>1
  <2>4. CASE q.attached /\ ~req[r].attached
    <3>1. Attached' = Attached \cup {r} /\ r \notin Attached
      BY <1>1, <2>4 DEF Attached
    <3>2. Cardinality(Attached \cup {r}) = Cardinality(Attached) + 1
      BY <2>1, <3>1, FS_AddElement
    <3> QED
      BY <2>1, <2>4, <3>1, <3>2
  <2>5. CASE ~q.attached /\ req[r].attached
    <3>1. Attached' = Attached \ {r} /\ r \in Attached
      BY <1>1, <2>5 DEF Attached
    <3>2. Cardinality(Attached \ {r}) = Cardinality(Attached) - 1
      BY <2>1, <3>1, FS_RemoveElement
    <3> QED
      BY <2>1, <2>5, <3>1, <3>2
  <2> QED
    BY <2>2, <2>3, <2>4, <2>5
<1>4. DrainIsPatient'
  BY <1>1 DEF RequestsInv, DrainIsPatient, AwaitsAnswer
<1> QED
  BY <1>1, <1>2, <1>3, <1>4 DEF RequestsInv

(* The usual case: the listener is left alone.                             *)
LEMMA Onwards ==
  ASSUME RequestsInv, NEW r \in Requests, NEW q \in Request,
         Becomes(r, q), Well(q), AwaitsAnswer(q) => AwaitsAnswer(req[r]),
         q.attached = req[r].attached,
         UNCHANGED << config, active, life, draining, overdue >>
  PROVE  RequestsInv'
  BY RequestStep

(* An answer keeps a request well, whether or not anybody reads it.        *)
LEMMA AnsweredWell ==
  ASSUME NEW q \in Request, Well(q), q.stage # "answered", NEW a \in {"200", "400", "401", "403", "429",
         "503"}
  PROVE  /\ Answered(q, a) \in Request
         /\ Well(Answered(q, a))
         /\ ~AwaitsAnswer(Answered(q, a))
         /\ Answered(q, a).attached = q.attached
         /\ Answered(q, a).stage # "answered" => Answered(q, a).status = "none"
<1>1. /\ NoRequest \in Request /\ Well(NoRequest)
      /\ NoRequest.attached = FALSE /\ NoRequest.protocol = "none" /\ NoRequest.status = "none"
  BY DEF NoRequest, Request, Well
<1>2. CASE q.conn = "open"
  <2> DEFINE n == [q EXCEPT !.stage = "answered", !.status = a, !.gates = {}]
  <2>1. Answered(q, a) = n
    BY <1>2 DEF Answered
  <2>2. /\ n \in Request /\ n.stage = "answered" /\ n.conn = q.conn
        /\ n.protocol = q.protocol /\ n.attached = q.attached
    BY DEF Request
  <2> HIDE DEF n
  <2> QED
    BY <2>1, <2>2 DEF Well, AwaitsAnswer
<1>3. CASE q.conn # "open" /\ q.protocol = "h2"
  <2> DEFINE n == [q EXCEPT !.stage = "unhandled"]
  <2>1. Answered(q, a) = n
    BY <1>3 DEF Answered
  <2>2. /\ n \in Request /\ n.stage = "unhandled" /\ n.conn = q.conn
        /\ n.protocol = q.protocol /\ n.attached = q.attached /\ n.status = q.status
    BY DEF Request
  <2>3. q.status = "none"
    BY DEF Well
  <2> HIDE DEF n
  <2> QED
    BY <1>3, <2>1, <2>2, <2>3 DEF Well, AwaitsAnswer
<1>4. CASE q.conn # "open" /\ q.protocol # "h2"
  <2>1. Answered(q, a) = NoRequest
    BY <1>4 DEF Answered
  <2>2. q.attached = FALSE
    BY <1>4 DEF Well, Request
  <2> QED
    BY <1>1, <2>1, <2>2 DEF AwaitsAnswer
<1> QED
  BY <1>2, <1>3, <1>4

LEMMA AtFields ==
  ASSUME NEW q \in Request,
         NEW s \in {"validate", "body", "other", "intercept", "dispatch"}
  PROVE  /\ At(q, s) \in Request
         /\ At(q, s).protocol = q.protocol
         /\ At(q, s).stage = s
         /\ At(q, s).conn = q.conn
         /\ At(q, s).attached = q.attached
         /\ At(q, s).status = q.status
         /\ At(q, s).gates = q.gates
  BY DEF At, Request

LEMMA ThroughFields ==
  ASSUME NEW q \in Request, NEW g \in {"token", "quota", "hook", "failopen"}
  PROVE  /\ Through(q, g) \in Request
         /\ Through(q, g).protocol = q.protocol
         /\ Through(q, g).stage = q.stage
         /\ Through(q, g).conn = q.conn
         /\ Through(q, g).attached = q.attached
         /\ Through(q, g).status = q.status
         /\ Through(q, g).gates = q.gates \cup {g}
  BY DEF Through, Request

(* A request that passes one more gate stays well.                         *)
LEMMA ThroughWell ==
  ASSUME NEW q \in Request, Well(q), q.stage # "idle",
         NEW g \in {"token", "quota", "hook", "failopen"}
  PROVE  Well(Through(q, g))
<1> DEFINE n == Through(q, g)
<1>1. /\ n.protocol = q.protocol /\ n.stage = q.stage /\ n.conn = q.conn
      /\ n.attached = q.attached /\ n.status = q.status /\ n.gates = q.gates \cup {g}
  BY ThroughFields
<1> HIDE DEF n
<1>2. Well(n)
  BY <1>1 DEF Well
<1> QED
  BY <1>2 DEF n

(* The request r goes on as an answer to p, which is like req[r] but for   *)
(* the gates.                                                              *)
LEMMA AnswerStep ==
  ASSUME RequestsInv, NEW r \in Requests, NEW p \in Request, Well(p),
         p.stage # "answered", p.attached = req[r].attached,
         NEW a \in {"200", "400", "401", "403", "429", "503"},
         Becomes(r, Answered(p, a)),
         UNCHANGED << config, active, life, draining, overdue >>
  PROVE  RequestsInv'
<1> DEFINE n == Answered(p, a)
<1>1. n \in Request /\ Well(n) /\ ~AwaitsAnswer(n) /\ n.attached = p.attached
  BY AnsweredWell
<1>2. Becomes(r, n)
  OBVIOUS
<1> HIDE DEF n
<1> QED
  BY <1>1, <1>2, Onwards

(* The request r goes on to the stage s, as p.                             *)
LEMMA StageStep ==
  ASSUME RequestsInv, NEW r \in Requests, NEW p \in Request, Well(p),
         p.stage \notin {"idle", "answered", "other"},
         p.stage = req[r].stage, p.protocol = req[r].protocol,
         p.conn = req[r].conn, p.attached = req[r].attached,
         NEW s \in {"validate", "body", "intercept", "dispatch"},
         Becomes(r, At(p, s)),
         (s = "body" /\ p.protocol = "h1" /\ config.jwt) => "token" \in p.gates,
         s \in {"intercept", "dispatch"} =>
           /\ config.jwt => "token" \in p.gates
           /\ p.protocol = "h1" => "quota" \in p.gates,
         s = "dispatch" =>
           /\ config.hook = "closed" => "hook" \in p.gates
           /\ config.hook = "open" => p.gates \cap {"hook", "failopen"} # {},
         UNCHANGED << config, active, life, draining, overdue >>
  PROVE  RequestsInv'
<1> DEFINE n == At(p, s)
<1>1. /\ n \in Request /\ n.protocol = p.protocol /\ n.stage = s /\ n.conn = p.conn
      /\ n.attached = p.attached /\ n.status = p.status /\ n.gates = p.gates
  BY AtFields
<1>2. Becomes(r, n)
  OBVIOUS
<1> HIDE DEF n
<1>3. Well(n)
  BY <1>1 DEF Well
<1>4. AwaitsAnswer(n) => AwaitsAnswer(req[r])
  BY <1>1 DEF AwaitsAnswer
<1> QED
  BY <1>1, <1>2, <1>3, <1>4, Onwards

(* What follows the gates of the protocol.                                 *)
LEMMA InspectStep ==
  ASSUME RequestsInv, NEW r \in Requests, NEW p \in Request, Well(p),
         p.stage \notin {"idle", "answered", "other"},
         p.stage = req[r].stage, p.protocol = req[r].protocol,
         p.conn = req[r].conn, p.attached = req[r].attached,
         config.jwt => "token" \in p.gates,
         p.protocol = "h1" => "quota" \in p.gates,
         Inspect(r, p),
         UNCHANGED << config, active, life, draining, overdue >>
  PROVE  RequestsInv'
<1>1. CASE Becomes(r, Answered(p, "400"))
  BY <1>1, AnswerStep
<1>2. CASE Becomes(r, At(p, "intercept"))
  BY <1>2, StageStep
<1>3. CASE config.hook = "none" /\ Becomes(r, At(p, "dispatch"))
  BY <1>3, StageStep
<1> QED
  BY <1>1, <1>2, <1>3 DEF Inspect

(* What follows the interceptor's consent, or its failure.                 *)
LEMMA CompareStep ==
  ASSUME RequestsInv, NEW r \in Requests, req[r].stage = "intercept",
         NEW g \in {"hook", "failopen"}, g = "failopen" => config.hook = "open",
         Compare(r, Through(req[r], g)),
         UNCHANGED << config, active, life, draining, overdue >>
  PROVE  RequestsInv'
<1> DEFINE p == Through(req[r], g)
<1>1. req[r] \in Request /\ Well(req[r])
  BY DEF RequestsInv
<1>2. /\ p \in Request /\ p.protocol = req[r].protocol /\ p.stage = req[r].stage
      /\ p.conn = req[r].conn /\ p.attached = req[r].attached
      /\ p.gates = req[r].gates \cup {g}
  BY <1>1, ThroughFields
<1>3. Well(p)
  BY <1>1, ThroughWell
<1>4. /\ config.jwt => "token" \in req[r].gates
      /\ req[r].protocol = "h1" => "quota" \in req[r].gates
  BY <1>1 DEF Well
<1>5. Becomes(r, Answered(p, "400")) \/ Becomes(r, At(p, "dispatch"))
  BY DEF Compare
<1> HIDE DEF p
<1>6. CASE Becomes(r, Answered(p, "400"))
  BY <1>2, <1>3, <1>6, AnswerStep
<1>7. CASE Becomes(r, At(p, "dispatch"))
  <2>1. /\ config.hook = "closed" => "hook" \in p.gates
        /\ config.hook = "open" => p.gates \cap {"hook", "failopen"} # {}
    BY <1>2
  <2> QED
    BY <1>2, <1>3, <1>4, <1>7, <2>1, StageStep
<1> QED
  BY <1>5, <1>6, <1>7

(* A request that nobody listens to any more leaves its entry.             *)
LEMMA GoneStep ==
  ASSUME RequestsInv, NEW r \in Requests, req[r].protocol # "h1" \/ req[r].conn # "open",
         Becomes(r, NoRequest),
         UNCHANGED << config, active, life, draining, overdue >>
  PROVE  RequestsInv'
<1>1. /\ NoRequest \in Request /\ Well(NoRequest) /\ ~AwaitsAnswer(NoRequest)
      /\ NoRequest.attached = FALSE
  BY DEF NoRequest, Request, Well, AwaitsAnswer
<1>2. req[r].attached = FALSE
  BY DEF RequestsInv, Well, Request
<1> QED
  BY <1>1, <1>2, Onwards

-----------------------------------------------------------------------------
(* The steps of the handlers.                                              *)
LEMMA ArriveStep ==
  ASSUME RequestsInv, NEW r \in Requests, ArriveH1(r) \/ ArriveH2(r)
  PROVE  RequestsInv'
<1>1. req[r] \in Request /\ Well(req[r])
  BY DEF RequestsInv
<1>2. req[r].stage = "idle" /\ UNCHANGED << config, life, draining, overdue >>
  BY DEF ArriveH1, ArriveH2, server
<1>3. req[r].attached = FALSE
  BY <1>1, <1>2 DEF Well, NoRequest
<1>4. CASE ArriveH1(r)
  <2> DEFINE q == [NoRequest EXCEPT !.protocol = "h1", !.conn = "open", !.attached = TRUE]
  <2>1. /\ q \in Request /\ q.protocol = "h1" /\ q.conn = "open" /\ q.attached = TRUE
        /\ q.stage = "idle" /\ q.status = "none" /\ q.gates = {}
    BY DEF NoRequest, Request
  <2>2. /\ active' = active + 1
        /\ \/ \E a \in {"200", "401", "503"} : Becomes(r, Answered(q, a))
           \/ \E s \in {"validate", "body", "other"} :
                /\ s = "body" => ~config.jwt
                /\ s # "other" => ~draining
                /\ Becomes(r, At(q, s))
    BY <1>4 DEF ArriveH1
  <2> HIDE DEF q
  <2>3. ASSUME NEW a \in {"200", "401", "503"}, Becomes(r, Answered(q, a))
        PROVE  RequestsInv'
    <3> DEFINE n == [q EXCEPT !.stage = "answered", !.status = a, !.gates = {}]
    <3>1. Becomes(r, n)
      BY <2>1, <2>3 DEF Answered
    <3>2. n \in Request /\ n.stage = "answered" /\ n.attached = TRUE /\ n.protocol = "h1" /\ n.conn = "open"
      BY <2>1 DEF Request
    <3> HIDE DEF n
    <3>3. Well(n) /\ ~AwaitsAnswer(n)
      BY <3>2 DEF Well, AwaitsAnswer
    <3> QED
      BY <1>2, <1>3, <2>2, <3>1, <3>2, <3>3, RequestStep
  <2>4. ASSUME NEW s \in {"validate", "body", "other"}, s = "body" => ~config.jwt,
               s # "other" => ~draining, Becomes(r, At(q, s))
        PROVE  RequestsInv'
    <3> DEFINE n == At(q, s)
    <3>1. /\ n \in Request /\ n.stage = s /\ n.attached = TRUE /\ n.protocol = "h1"
          /\ n.conn = "open" /\ n.status = "none"
      BY <2>1, AtFields
    <3>2. Becomes(r, n)
      BY <2>4
    <3> HIDE DEF n
    <3>3. Well(n)
      BY <2>4, <3>1 DEF Well
    <3>4. AwaitsAnswer(n) => ~draining
      BY <2>4, <3>1 DEF AwaitsAnswer
    <3> QED
      BY <1>2, <1>3, <2>2, <3>1, <3>2, <3>3, <3>4, RequestStep
  <2> QED
    BY <2>2, <2>3, <2>4
<1>5. CASE ArriveH2(r)
  <2> DEFINE n == [NoRequest EXCEPT !.protocol = "h2", !.conn = "open", !.stage = "body"]
  <2>1. /\ n \in Request /\ n.protocol = "h2" /\ n.conn = "open" /\ n.attached = FALSE
        /\ n.stage = "body" /\ n.status = "none"
    BY DEF NoRequest, Request
  <2>2. Becomes(r, n) /\ active' = active
    BY <1>5 DEF ArriveH2
  <2> HIDE DEF n
  <2>3. Well(n) /\ ~AwaitsAnswer(n)
    BY <2>1 DEF Well, AwaitsAnswer
  <2> QED
    BY <1>2, <1>3, <2>1, <2>2, <2>3, Onwards
<1> QED
  BY <1>4, <1>5

LEMMA ValidateStep ==
  ASSUME RequestsInv, NEW r \in Requests, Validate(r)
  PROVE  RequestsInv'
<1> DEFINE q == Through(req[r], "token")
<1>1. req[r] \in Request /\ Well(req[r]) /\ req[r].stage = "validate"
  BY DEF RequestsInv, Validate
<1>2. UNCHANGED << config, active, life, draining, overdue >>
  BY DEF Validate, server
<1>3. /\ q \in Request /\ q.protocol = req[r].protocol /\ q.stage = req[r].stage
      /\ q.conn = req[r].conn /\ q.attached = req[r].attached
      /\ q.gates = req[r].gates \cup {"token"}
  BY <1>1, ThroughFields
<1>4. Well(q)
  BY <1>1, ThroughWell
<1>5. \/ Becomes(r, Answered(req[r], "401"))
      \/ q.protocol = "h1" /\ q.conn = "closed" /\ Becomes(r, NoRequest)
      \/ q.protocol = "h1" /\ Becomes(r, At(q, "body"))
      \/ q.protocol = "h2" /\ Inspect(r, q)
  BY DEF Validate
<1> HIDE DEF q
<1>6. CASE Becomes(r, Answered(req[r], "401"))
  BY <1>1, <1>2, <1>6, AnswerStep
<1>7. CASE q.protocol = "h1" /\ q.conn = "closed" /\ Becomes(r, NoRequest)
  BY <1>1, <1>2, <1>3, <1>7, GoneStep
<1>8. CASE q.protocol = "h1" /\ Becomes(r, At(q, "body"))
  BY <1>1, <1>2, <1>3, <1>4, <1>8, StageStep
<1>9. CASE q.protocol = "h2" /\ Inspect(r, q)
  BY <1>1, <1>2, <1>3, <1>4, <1>9, InspectStep
<1> QED
  BY <1>5, <1>6, <1>7, <1>8, <1>9

LEMMA EndH1Step ==
  ASSUME RequestsInv, NEW r \in Requests, EndH1(r)
  PROVE  RequestsInv'
<1> DEFINE q == Through(req[r], "quota")
<1>1. /\ req[r] \in Request /\ Well(req[r])
      /\ req[r].stage = "body" /\ req[r].protocol = "h1"
  BY DEF RequestsInv, EndH1
<1>2. UNCHANGED << config, active, life, draining, overdue >>
  BY DEF EndH1, server
<1>3. /\ q \in Request /\ q.protocol = req[r].protocol /\ q.stage = req[r].stage
      /\ q.conn = req[r].conn /\ q.attached = req[r].attached
      /\ q.gates = req[r].gates \cup {"quota"}
  BY <1>1, ThroughFields
<1>4. Well(q)
  BY <1>1, ThroughWell
<1>5. config.jwt => "token" \in req[r].gates
  BY <1>1 DEF Well
<1>6. Becomes(r, Answered(req[r], "429")) \/ Inspect(r, q)
  BY DEF EndH1
<1> HIDE DEF q
<1>7. CASE Becomes(r, Answered(req[r], "429"))
  BY <1>1, <1>2, <1>7, AnswerStep
<1>8. CASE Inspect(r, q)
  BY <1>1, <1>2, <1>3, <1>4, <1>5, <1>8, InspectStep
<1> QED
  BY <1>6, <1>7, <1>8

LEMMA EndH2Step ==
  ASSUME RequestsInv, NEW r \in Requests, EndH2(r)
  PROVE  RequestsInv'
<1>1. /\ req[r] \in Request /\ Well(req[r])
      /\ req[r].stage = "body" /\ req[r].protocol = "h2"
  BY DEF RequestsInv, EndH2
<1>2. UNCHANGED << config, active, life, draining, overdue >>
  BY DEF EndH2, server
<1>3. CASE Becomes(r, At(req[r], "validate"))
  BY <1>1, <1>2, <1>3, StageStep
<1>4. CASE Becomes(r, Answered(req[r], "401"))
  BY <1>1, <1>2, <1>4, AnswerStep
<1>5. CASE ~config.jwt /\ Inspect(r, req[r])
  BY <1>1, <1>2, <1>5, InspectStep
<1> QED
  BY <1>3, <1>4, <1>5 DEF EndH2

LEMMA InterceptStep ==
  ASSUME RequestsInv, NEW r \in Requests,
         InterceptorAnswers(r) \/ InterceptorThrows(r) \/ Deadline(r)
  PROVE  RequestsInv'
<1>1. req[r] \in Request /\ Well(req[r]) /\ req[r].stage = "intercept"
  BY DEF RequestsInv, InterceptorAnswers, InterceptorThrows, Deadline
<1>2. UNCHANGED << config, active, life, draining, overdue >>
  BY DEF InterceptorAnswers, InterceptorThrows, Deadline, server
<1>3. \/ Becomes(r, Answered(req[r], "403"))
      \/ Compare(r, Through(req[r], "hook"))
      \/ config.hook = "open" /\ Compare(r, Through(req[r], "failopen"))
  BY DEF InterceptorAnswers, InterceptorThrows, Deadline, InterceptorFailed
<1>4. CASE Becomes(r, Answered(req[r], "403"))
  BY <1>1, <1>2, <1>4, AnswerStep
<1>5. CASE Compare(r, Through(req[r], "hook"))
  BY <1>1, <1>2, <1>5, CompareStep
<1>6. CASE config.hook = "open" /\ Compare(r, Through(req[r], "failopen"))
  BY <1>1, <1>2, <1>6, CompareStep
<1> QED
  BY <1>3, <1>4, <1>5, <1>6

LEMMA AnsweringStep ==
  ASSUME RequestsInv, NEW r \in Requests, OtherEnds(r) \/ Dispatched(r)
  PROVE  RequestsInv'
<1>1. req[r] \in Request /\ Well(req[r]) /\ req[r].stage \in {"other", "dispatch"}
  BY DEF RequestsInv, OtherEnds, Dispatched
<1>2. UNCHANGED << config, active, life, draining, overdue >>
  BY DEF OtherEnds, Dispatched, server
<1>3. \/ \E a \in {"200", "400"} : Becomes(r, Answered(req[r], a))
      \/ req[r].protocol = "h2" /\ Becomes(r, NoRequest)
  BY DEF OtherEnds, Dispatched
<1>4. CASE \E a \in {"200", "400"} : Becomes(r, Answered(req[r], a))
  BY <1>1, <1>2, <1>4, AnswerStep
<1>5. CASE req[r].protocol = "h2" /\ Becomes(r, NoRequest)
  BY <1>1, <1>2, <1>5, GoneStep
<1> QED
  BY <1>3, <1>4, <1>5

(* Finish and close: the listener goes with the open response.             *)
LEMMA OnDoneStep ==
  ASSUME RequestsInv, NEW r \in Requests, Finish(r) \/ Close(r)
  PROVE  RequestsInv'
<1>1. req[r] \in Request /\ Well(req[r])
  BY DEF RequestsInv
<1>2. UNCHANGED << config, life, draining, overdue >>
  BY DEF Finish, Close, server
<1>3. active' = IF req[r].attached /\ active > 0 THEN active - 1 ELSE active
  BY <1>1 DEF Finish, Close, OnDone, NoRequest, Request
<1>4. active' = IF req[r].attached THEN active - 1 ELSE active
  BY <1>3, CountBounds
<1>5. req[r].stage # "idle"
  BY <1>1 DEF Finish, Close, Well, NoRequest
<1>6. CASE Becomes(r, NoRequest)
  <2>1. /\ NoRequest \in Request /\ Well(NoRequest) /\ ~AwaitsAnswer(NoRequest)
        /\ NoRequest.attached = FALSE
    BY DEF NoRequest, Request, Well, AwaitsAnswer
  <2>2. req[r].attached \in BOOLEAN
    BY <1>1 DEF Request
  <2> QED
    BY <1>2, <1>4, <1>6, <2>1, <2>2, RequestStep
<1>7. ASSUME NEW c \in {"finished", "closed"},
             req[r].stage = "answered" \/ c = "closed",
             Becomes(r, [[req[r] EXCEPT !.conn = c] EXCEPT !.attached = FALSE])
      PROVE  RequestsInv'
  <2> DEFINE n == [[req[r] EXCEPT !.conn = c] EXCEPT !.attached = FALSE]
  <2>1. /\ n \in Request /\ n.protocol = req[r].protocol /\ n.stage = req[r].stage
        /\ n.conn = c /\ n.attached = FALSE /\ n.status = req[r].status
        /\ n.gates = req[r].gates /\ req[r].attached \in BOOLEAN
    BY <1>1 DEF Request
  <2>2. Becomes(r, n)
    BY <1>7
  <2> HIDE DEF n
  <2>3. Well(n) /\ ~AwaitsAnswer(n)
    BY <1>1, <1>5, <2>1 DEF Well, AwaitsAnswer
  <2> QED
    BY <1>2, <1>4, <2>1, <2>2, <2>3, RequestStep
<1>8. CASE Finish(r)
  <2>1. [req[r] EXCEPT !.conn = "finished"].stage # "idle"
    BY <1>1, <1>5 DEF Request
  <2>2. Becomes(r, [[req[r] EXCEPT !.conn = "finished"] EXCEPT !.attached = FALSE])
    BY <1>8, <2>1 DEF Finish, OnDone
  <2> QED
    BY <1>7, <1>8, <2>2 DEF Finish
<1>9. CASE Close(r) /\ req[r].stage \in {"body", "other", "answered"}
  <2>1. [NoRequest EXCEPT !.attached = req[r].attached].stage = "idle"
    BY DEF NoRequest
  <2> QED
    BY <1>6, <1>9, <2>1 DEF Close, OnDone
<1>10. CASE Close(r) /\ req[r].stage \notin {"body", "other", "answered"}
  <2>1. [req[r] EXCEPT !.conn = "closed"].stage # "idle"
    BY <1>1, <1>5 DEF Request
  <2>2. Becomes(r, [[req[r] EXCEPT !.conn = "closed"] EXCEPT !.attached = FALSE])
    BY <1>10, <2>1 DEF Close, OnDone
  <2> QED
    BY <1>7, <2>2
<1> QED
  BY <1>8, <1>9, <1>10

(* Every other step leaves the requests alone.                             *)
LEMMA ServerStep ==
  ASSUME RequestsInv,
         \/ \E k \in Keys : Reset(k)
         \/ Cleanup \/ Drain \/ DrainPoll \/ DrainTimeout \/ Stop \/ Stopped \/ Tick
         \/ UNCHANGED vars
  PROVE  RequestsInv'
<1>1. UNCHANGED << config, req, active >>
  BY DEF Reset, Cleanup, Drain, DrainPoll, DrainTimeout, Stop, Stopped, Tick, vars
<1>2. (\A r \in Requests : Well(req[r]))' /\ Attached' = Attached
  BY <1>1 DEF RequestsInv, Well, Attached
<1>3. CASE DrainPoll
  <2>1. \A r \in Requests : ~(req[r].protocol = "h1" /\ req[r].conn = "open")
    <3>1. \A r \in Requests : ~req[r].attached
      BY <1>3, CountBounds DEF DrainPoll
    <3>2. \A r \in Requests : req[r].attached <=> (req[r].protocol = "h1" /\ req[r].conn = "open")
      BY DEF RequestsInv, Well
    <3> QED
      BY <3>1, <3>2
  <2>2. /\ life' = "closing" /\ UNCHANGED << draining, overdue >>
    BY <1>3 DEF DrainPoll
  <2> QED
    BY <1>1, <1>2, <2>1, <2>2 DEF RequestsInv, DrainIsPatient
<1>4. CASE Drain \/ DrainTimeout \/ Stop \/ Stopped
  <2>1. /\ life' \in {"listening", "draining", "closing", "stopped"}
        /\ {draining', overdue'} \subseteq BOOLEAN
        /\ life' = "listening" => ~draining'
        /\ ~(draining' /\ life' = "closing" /\ ~overdue')
    <3>1. life \in {"listening", "draining", "closing", "stopped"} /\ draining \in BOOLEAN /\ overdue \in BOOLEAN
      BY DEF RequestsInv
    <3>2. CASE Drain
      BY <3>1, <3>2 DEF Drain
    <3>3. CASE DrainTimeout
      BY <3>1, <3>3 DEF DrainTimeout
    <3>4. CASE Stop
      <4>1. draining = FALSE
        BY <3>1, <3>4 DEF Stop, RequestsInv
      <4> QED
        BY <3>1, <3>4, <4>1 DEF Stop
    <3>5. CASE Stopped
      BY <3>1, <3>5 DEF Stopped
    <3> QED
      BY <1>4, <3>2, <3>3, <3>4, <3>5
  <2> QED
    BY <1>1, <1>2, <2>1 DEF RequestsInv, DrainIsPatient
<1>5. CASE (\E k \in Keys : Reset(k)) \/ Cleanup \/ Tick \/ UNCHANGED vars
  <2>1. UNCHANGED << life, draining, overdue >>
    BY <1>5 DEF Reset, Cleanup, Tick, vars, server
  <2> QED
    BY <1>1, <1>2, <2>1 DEF RequestsInv, DrainIsPatient
<1> QED
  BY <1>3, <1>4, <1>5

LEMMA RequestsPreserved == RequestsInv /\ [Next]_vars => RequestsInv'
<1> SUFFICES ASSUME RequestsInv, [Next]_vars
             PROVE  RequestsInv'
  OBVIOUS
<1> QED
  BY ArriveStep, AnsweringStep, ValidateStep, EndH1Step, EndH2Step, InterceptStep,
     OnDoneStep, ServerStep DEF Next, Step

-----------------------------------------------------------------------------
(* The rate limiter.  Of the checks allowed, P, a bucket that was opened   *)
(* at the instant s has counted those from s on, of which the one that     *)
(* opened it came at s itself; those before s were too few to fill it.     *)
After(P, s) == {p \in P : p[1] > s}
From(P, s) == {p \in P : p[1] >= s}
Before(P, s) == {p \in P : p[1] < s}

Counts(P, s, count) ==
    /\ Cardinality(After(P, s)) <= count - 1
    /\ Cardinality(From(P, s)) <= count
    /\ Cardinality(Before(P, s)) <= Limit - 1
    /\ \A p \in P : p[1] < s + Window \/ Window = 0

(* A client without a bucket has less than a limit's worth of checks in    *)
(* the last window, none of them at this instant.                          *)
Idle(P) ==
    /\ Cardinality(After(P, clock - Window)) <= Limit - 1
    /\ \A p \in P : p[1] < clock \/ Window = 0

OpenedAt(k) == records[k].resetTime - Window

QuotaTypes ==
    /\ clock \in Nat
    /\ DOMAIN records \subseteq Keys
    /\ \A k \in DOMAIN records : records[k] \in [count : 1 .. Limit, resetTime : Nat]
    /\ passed \in [Keys -> SUBSET (Nat \X Nat)]
    /\ told \in [Keys -> Nat \cup {Never}]

QuotaInv ==
    /\ QuotaTypes
    /\ \A k \in Keys : IsFiniteSet(passed[k]) /\ \A p \in passed[k] : p[1] <= clock
    /\ \A k \in DOMAIN records :
         /\ OpenedAt(k) \in 0 .. clock
         /\ Counts(passed[k], OpenedAt(k), records[k].count)
    /\ \A k \in Keys \ DOMAIN records : Idle(passed[k])
    /\ LessThanTwice
    /\ \A k \in DOMAIN records : told[k] # Never => told[k] >= records[k].resetTime

LEMMA LimitType == Limit \in Nat /\ Limit >= 1 /\ Limit >= MaxRequests
  BY GatewayAssumption DEF Limit

LEMMA SmallerSet ==
  ASSUME NEW A, IsFiniteSet(A), NEW B, B \subseteq A
  PROVE  /\ IsFiniteSet(B) /\ Cardinality(B) \in Nat /\ Cardinality(A) \in Nat
         /\ Cardinality(B) <= Cardinality(A)
  BY FS_Subset, FS_CardinalityType

LEMMA OneMore ==
  ASSUME NEW A, IsFiniteSet(A), NEW x, NEW B, B \subseteq A \cup {x}
  PROVE  /\ IsFiniteSet(B) /\ Cardinality(B) \in Nat /\ Cardinality(A) \in Nat
         /\ Cardinality(B) <= Cardinality(A) + 1
<1>1. /\ IsFiniteSet(A \cup {x}) /\ Cardinality(A) \in Nat
      /\ Cardinality(A \cup {x}) <= Cardinality(A) + 1
  <2>1. Cardinality(A) \in Nat
    BY FS_CardinalityType
  <2>2. /\ IsFiniteSet(A \cup {x})
        /\ Cardinality(A \cup {x}) = IF x \in A THEN Cardinality(A) ELSE Cardinality(A) + 1
    BY FS_AddElement
  <2> QED
    BY <2>1, <2>2
<1>2. IsFiniteSet(B) /\ Cardinality(B) \in Nat /\ Cardinality(B) <= Cardinality(A \cup {x})
  BY <1>1, SmallerSet
<1>3. Cardinality(A \cup {x}) \in Nat
  BY <1>1, FS_CardinalityType
<1> QED
  BY <1>1, <1>2, <1>3

LEMMA NoneThere == Cardinality({}) = 0 /\ IsFiniteSet({})
  BY FS_EmptySet

(* A check that opens a bucket.                                            *)
LEMMA Opening ==
  ASSUME NEW t \in Nat, NEW n, NEW R \in SUBSET (Nat \X Nat), IsFiniteSet(R),
         \A p \in R : p[1] < t, Cardinality(R) <= Limit - 1,
         NEW N, N = R \cup {<< t, n >>}
  PROVE  IsFiniteSet(N) /\ Counts(N, t, 1) /\ Cardinality(N) < 2 * Limit
<1>1. Window \in Nat
  BY GatewayAssumption
<1>2. << t, n >>[1] = t /\ \A p \in R : p[1] \in Nat
  OBVIOUS
<1>3. After(N, t) = {} /\ From(N, t) \subseteq {} \cup {<< t, n >>} /\ Before(N, t) \subseteq R
  BY <1>2 DEF After, From, Before
<1>4. Cardinality(After(N, t)) = 0
  BY <1>3, NoneThere, Zenon
<1>5. Cardinality(From(N, t)) <= 1
  <2> DEFINE F == From(N, t)
  <2>1. F \subseteq {} \cup {<< t, n >>}
    BY <1>3
  <2> HIDE DEF F
  <2>2. Cardinality(F) \in Nat /\ Cardinality(F) <= Cardinality({}) + 1
    BY <2>1, NoneThere, OneMore
  <2>3. Cardinality(F) <= 1
    BY <2>2, NoneThere
  <2> QED
    BY <2>3 DEF F
<1>6. Cardinality(Before(N, t)) <= Limit - 1
  <2>1. /\ Cardinality(Before(N, t)) <= Cardinality(R)
        /\ Cardinality(Before(N, t)) \in Nat /\ Cardinality(R) \in Nat
    BY <1>3, SmallerSet
  <2> QED
    BY <2>1, LimitType
<1>7. \A p \in N : p[1] < t + Window \/ Window = 0
  BY <1>1, <1>2
<1>8. IsFiniteSet(N) /\ Cardinality(N) \in Nat /\ Cardinality(N) <= Cardinality(R) + 1
      /\ Cardinality(R) \in Nat
  BY OneMore
<1>9. Cardinality(N) < 2 * Limit
  BY <1>8, LimitType
<1> QED
  BY <1>4, <1>5, <1>6, <1>7, <1>8, <1>9 DEF Counts

(* A check that is counted in an open bucket.                              *)
LEMMA Counting ==
  ASSUME NEW t \in Nat, NEW s \in 0 .. t, t < s + Window, NEW c \in Nat, c < Limit,
         NEW n, NEW P \in SUBSET (Nat \X Nat), IsFiniteSet(P), Counts(P, s, c),
         NEW R \in SUBSET P, NEW N, N = R \cup {<< t, n >>}
  PROVE  IsFiniteSet(N) /\ Counts(N, s, c + 1) /\ Cardinality(N) < 2 * Limit
<1>1. Window \in Nat
  BY GatewayAssumption
<1>2. << t, n >>[1] = t /\ \A p \in P : p[1] \in Nat
  OBVIOUS
<1>3. /\ After(N, s) \subseteq After(P, s) \cup {<< t, n >>}
      /\ From(N, s) \subseteq From(P, s) \cup {<< t, n >>}
      /\ Before(N, s) \subseteq Before(P, s)
      /\ N = From(N, s) \cup Before(N, s)
  BY <1>2 DEF After, From, Before
<1>4. /\ After(P, s) \subseteq P /\ From(P, s) \subseteq P /\ Before(P, s) \subseteq P
  BY DEF After, From, Before
<1>5. IsFiniteSet(After(P, s)) /\ IsFiniteSet(From(P, s)) /\ IsFiniteSet(Before(P, s))
  BY <1>4, SmallerSet
<1>6. /\ Cardinality(After(N, s)) <= Cardinality(After(P, s)) + 1
      /\ Cardinality(After(N, s)) \in Nat /\ Cardinality(After(P, s)) \in Nat
  <2> DEFINE A == After(P, s)
             B == After(N, s)
  <2>1. IsFiniteSet(A) /\ B \subseteq A \cup {<< t, n >>}
    BY <1>3, <1>5
  <2> HIDE DEF A, B
  <2>2. Cardinality(B) <= Cardinality(A) + 1 /\ Cardinality(B) \in Nat /\ Cardinality(A) \in Nat
    BY <2>1, OneMore
  <2> QED
    BY <2>2 DEF A, B
<1>7. /\ Cardinality(From(N, s)) <= Cardinality(From(P, s)) + 1 /\ IsFiniteSet(From(N, s))
      /\ Cardinality(From(N, s)) \in Nat /\ Cardinality(From(P, s)) \in Nat
  BY <1>3, <1>5, OneMore
<1>8. /\ Cardinality(Before(N, s)) <= Cardinality(Before(P, s)) /\ IsFiniteSet(Before(N, s))
      /\ Cardinality(Before(N, s)) \in Nat /\ Cardinality(Before(P, s)) \in Nat
  BY <1>3, <1>5, SmallerSet
<1>9. /\ Cardinality(After(P, s)) <= c - 1 /\ Cardinality(From(P, s)) <= c
      /\ Cardinality(Before(P, s)) <= Limit - 1
      /\ \A p \in P : p[1] < s + Window \/ Window = 0
  BY DEF Counts
<1>10. Counts(N, s, c + 1)
  <2>1. \A p \in N : p[1] < s + Window \/ Window = 0
    BY <1>1, <1>2, <1>9
  <2>2. /\ Cardinality(After(N, s)) <= (c + 1) - 1 /\ Cardinality(From(N, s)) <= c + 1
        /\ Cardinality(Before(N, s)) <= Limit - 1
    BY <1>6, <1>7, <1>8, <1>9, LimitType
  <2> QED
    BY <2>1, <2>2 DEF Counts
<1>11. IsFiniteSet(N) /\ Cardinality(N) <= Cardinality(From(N, s)) + Cardinality(Before(N, s))
  <2>1. /\ IsFiniteSet(From(N, s) \cup Before(N, s))
        /\ Cardinality(From(N, s) \cup Before(N, s))
             = Cardinality(From(N, s)) + Cardinality(Before(N, s))
               - Cardinality(From(N, s) \cap Before(N, s))
    BY <1>7, <1>8, FS_Union
  <2>2. Cardinality(From(N, s) \cap Before(N, s)) \in Nat
    BY <1>7, SmallerSet
  <2>3. IsFiniteSet(N) /\ Cardinality(N) = Cardinality(From(N, s)) + Cardinality(Before(N, s))
                                         - Cardinality(From(N, s) \cap Before(N, s))
    BY <1>3, <2>1, Zenon
  <2> QED
    BY <1>7, <1>8, <2>2, <2>3
<1>12. Cardinality(N) \in Nat
  BY <1>11, FS_CardinalityType
<1> QED
  BY <1>7, <1>8, <1>9, <1>10, <1>11, <1>12, LimitType

(* A bucket whose time is over leaves an idle client.                      *)
LEMMA Expiring ==
  ASSUME QuotaTypes, NEW P \in SUBSET (Nat \X Nat), IsFiniteSet(P),
         NEW s \in Nat, NEW c \in 1 .. Limit, Counts(P, s, c), clock >= s + Window
  PROVE  Idle(P)
<1>1. Window \in Nat /\ clock \in Nat
  BY GatewayAssumption DEF QuotaTypes
<1>2. \A p \in P : p[1] \in Nat
  OBVIOUS
<1>3. After(P, clock - Window) \subseteq After(P, s) /\ After(P, s) \subseteq P
  BY <1>1, <1>2 DEF After
<1>4. /\ Cardinality(After(P, clock - Window)) <= Cardinality(After(P, s))
      /\ Cardinality(After(P, clock - Window)) \in Nat /\ Cardinality(After(P, s)) \in Nat
  BY <1>3, SmallerSet
<1>5. Cardinality(After(P, s)) <= c - 1 /\ \A p \in P : p[1] < s + Window \/ Window = 0
  BY DEF Counts
<1>6. Cardinality(After(P, clock - Window)) <= Limit - 1
  BY <1>4, <1>5, LimitType
<1>7. \A p \in P : p[1] < clock \/ Window = 0
  BY <1>1, <1>2, <1>5
<1> QED
  BY <1>6, <1>7 DEF Idle

(* Retry-After rounds up.                                                  *)
LEMMA RetryAfterCovers ==
  ASSUME NEW ms \in Nat
  PROVE  RetryAfter(ms) \in Nat /\ Second * RetryAfter(ms) >= ms
<1>1. Second \in Nat \ {0}
  BY GatewayAssumption
<1>2. Second * ((ms + Second - 1) \div Second) >= ms
  BY <1>1
<1>3. (ms + Second - 1) \div Second \in Nat
  BY <1>1
<1> QED
  BY <1>2, <1>3 DEF RetryAfter

-----------------------------------------------------------------------------
(* A step that changes the quota of one client and no instant.             *)
LEMMA QuotaStep ==
  ASSUME QuotaInv, NEW k \in Keys, clock' = clock,
         DOMAIN records \ {k} = DOMAIN records' \ {k},
         DOMAIN records' \subseteq Keys,
         \A x \in DOMAIN records \ {k} : records'[x] = records[x],
         NEW P \in SUBSET (Nat \X Nat), passed' = [passed EXCEPT ![k] = P],
         NEW m \in Nat \cup {Never}, told' = [told EXCEPT ![k] = m],
         IsFiniteSet(P), \A p \in P : p[1] <= clock, Cardinality(P) < 2 * Limit,
         k \in DOMAIN records' =>
           /\ records'[k] \in [count : 1 .. Limit, resetTime : Nat]
           /\ records'[k].resetTime - Window \in 0 .. clock
           /\ Counts(P, records'[k].resetTime - Window, records'[k].count)
           /\ m # Never => m >= records'[k].resetTime,
         k \notin DOMAIN records' => Idle(P)
  PROVE  QuotaInv'
<1>1. /\ passed'[k] = P /\ told'[k] = m
      /\ \A x \in Keys \ {k} : passed'[x] = passed[x] /\ told'[x] = told[x]
      /\ passed' \in [Keys -> SUBSET (Nat \X Nat)] /\ told' \in [Keys -> Nat \cup {Never}]
  BY DEF QuotaInv, QuotaTypes
<1>2. ASSUME NEW x \in DOMAIN records', x # k
      PROVE  x \in DOMAIN records /\ records'[x] = records[x]
  BY <1>2
<1>3. QuotaTypes'
  <2>1. ASSUME NEW x \in DOMAIN records'
        PROVE  records'[x] \in [count : 1 .. Limit, resetTime : Nat]
    <3>1. CASE x = k
      BY <2>1, <3>1
    <3>2. CASE x # k
      BY <1>2, <2>1, <3>2 DEF QuotaInv, QuotaTypes
    <3> QED
      BY <3>1, <3>2
  <2>2. clock' \in Nat
    BY DEF QuotaInv, QuotaTypes
  <2> QED
    BY <1>1, <2>1, <2>2 DEF QuotaTypes
<1>4. ASSUME NEW x \in Keys
      PROVE  /\ IsFiniteSet(passed'[x]) /\ \A p \in passed'[x] : p[1] <= clock'
             /\ Cardinality(passed'[x]) < 2 * Limit
  <2>1. CASE x = k
    BY <1>1, <2>1
  <2>2. CASE x # k
    BY <1>1, <2>2 DEF QuotaInv, LessThanTwice
  <2> QED
    BY <2>1, <2>2
<1>5. ASSUME NEW x \in DOMAIN records'
      PROVE  /\ records'[x].resetTime - Window \in 0 .. clock'
             /\ Counts(passed'[x], records'[x].resetTime - Window, records'[x].count)
             /\ told'[x] # Never => told'[x] >= records'[x].resetTime
  <2>1. CASE x = k
    BY <1>1, <1>5, <2>1
  <2>2. CASE x # k
    <3>1. x \in DOMAIN records /\ records'[x] = records[x] /\ x \in Keys
      BY <1>2, <1>5, <2>2
    <3> QED
      BY <1>1, <2>2, <3>1 DEF QuotaInv, OpenedAt
  <2> QED
    BY <2>1, <2>2
<1>6. ASSUME NEW x \in Keys \ DOMAIN records'
      PROVE  Idle(passed[x])'
  <2>1. CASE x = k
    <3>1. Idle(P)
      BY <1>6, <2>1
    <3> QED
      BY <1>1, <2>1, <3>1 DEF Idle
  <2>2. CASE x # k
    <3>1. x \in Keys \ DOMAIN records
      BY <1>6, <2>2
    <3>2. Idle(passed[x])
      BY <3>1 DEF QuotaInv
    <3> QED
      BY <1>1, <2>2, <3>2 DEF Idle
  <2> QED
    BY <2>1, <2>2
<1>7. (\A x \in DOMAIN records : /\ OpenedAt(x) \in 0 .. clock
                                 /\ Counts(passed[x], OpenedAt(x), records[x].count))'
  BY <1>5 DEF OpenedAt, Counts
<1> QED
  BY <1>3, <1>4, <1>5, <1>6, <1>7 DEF QuotaInv, LessThanTwice

(* The checks that are still recent, and the one allowed now.              *)
LEMMA RecentSet ==
  ASSUME QuotaInv, NEW k \in Keys
  PROVE  /\ Recent(k) \in SUBSET passed[k] /\ passed[k] \in SUBSET (Nat \X Nat)
         /\ IsFiniteSet(passed[k]) /\ IsFiniteSet(Recent(k))
         /\ Recent(k) \cup {ThisCheck(k)} \in SUBSET (Nat \X Nat)
         /\ \A p \in Recent(k) \cup {ThisCheck(k)} : p[1] <= clock
         /\ Recent(k) = After(passed[k], clock - Window)
<1>1. /\ clock \in Nat /\ Window \in Nat
      /\ passed[k] \in SUBSET (Nat \X Nat) /\ IsFiniteSet(passed[k])
      /\ \A p \in passed[k] : p[1] <= clock
  BY GatewayAssumption DEF QuotaInv, QuotaTypes
<1>2. \A p \in passed[k] : p[1] \in Nat
  BY <1>1
<1>3. Recent(k) \in SUBSET passed[k] /\ Recent(k) = After(passed[k], clock - Window)
  BY <1>1, <1>2 DEF Recent, After
<1>4. IsFiniteSet(Recent(k))
  BY <1>1, <1>3, SmallerSet
<1>5. ThisCheck(k) \in Nat \X Nat /\ ThisCheck(k)[1] = clock
  <2> DEFINE S == {p \in passed[k] : p[1] = clock}
  <2>1. Cardinality(S) \in Nat
    BY <1>1, SmallerSet
  <2>2. ThisCheck(k) = << clock, 1 + Cardinality(S) >>
    BY DEF ThisCheck
  <2> HIDE DEF S
  <2> QED
    BY <1>1, <2>1, <2>2
<1> QED
  BY <1>1, <1>3, <1>4, <1>5

LEMMA CheckOpensStep ==
  ASSUME QuotaInv, NEW r \in Requests, CheckOpens(r), clock' = clock
  PROVE  QuotaInv'
<1> DEFINE k == KeyOf[r]
           n == ThisCheck(k)[2]
           P == Recent(k) \cup {ThisCheck(k)}
<1>1. k \in Keys
  BY GatewayAssumption
<1>2. /\ clock \in Nat /\ Window \in Nat /\ DOMAIN records \subseteq Keys
  BY GatewayAssumption DEF QuotaInv, QuotaTypes
<1>3. /\ passed' = [passed EXCEPT ![k] = P] /\ told' = [told EXCEPT ![k] = Never]
      /\ records' = Put(records, k, [count |-> 1, resetTime |-> clock + Window])
      /\ k \in DOMAIN records => clock >= records[k].resetTime
  BY DEF CheckOpens, Pass, Expired
<1>4. Idle(passed[k])
  <2>1. CASE k \in DOMAIN records
    <3>1. /\ records[k] \in [count : 1 .. Limit, resetTime : Nat]
          /\ OpenedAt(k) \in 0 .. clock
          /\ Counts(passed[k], OpenedAt(k), records[k].count)
          /\ IsFiniteSet(passed[k]) /\ passed[k] \in SUBSET (Nat \X Nat) /\ QuotaTypes
      BY <1>1, <2>1 DEF QuotaInv, QuotaTypes
    <3>2. clock >= OpenedAt(k) + Window /\ OpenedAt(k) \in Nat /\ records[k].count \in 1 .. Limit
      BY <1>2, <1>3, <2>1, <3>1 DEF OpenedAt
    <3> QED
      BY <3>1, <3>2, Expiring
  <2>2. CASE k \notin DOMAIN records
    BY <1>1, <2>2 DEF QuotaInv
  <2> QED
    BY <2>1, <2>2
<1>5. /\ P = Recent(k) \cup {<< clock, n >>}
      /\ Recent(k) \in SUBSET (Nat \X Nat) /\ IsFiniteSet(Recent(k))
      /\ P \in SUBSET (Nat \X Nat) /\ \A p \in P : p[1] <= clock
  BY <1>1, RecentSet DEF ThisCheck
<1>6. Cardinality(Recent(k)) <= Limit - 1
  BY <1>1, <1>4, RecentSet DEF Idle
<1>7. \A p \in Recent(k) : p[1] < clock
  <2>1. \A p \in passed[k] : p[1] < clock \/ Window = 0
    BY <1>4 DEF Idle
  <2>2. \A p \in Recent(k) : p \in passed[k] /\ p[1] \in Nat /\ clock - p[1] < Window /\ p[1] <= clock
    BY <1>5 DEF Recent
  <2> QED
    BY <1>2, <2>1, <2>2
<1> HIDE DEF P, n
<1>8. IsFiniteSet(P) /\ Counts(P, clock, 1) /\ Cardinality(P) < 2 * Limit
  BY <1>2, <1>5, <1>6, <1>7, Opening
<1>9. /\ DOMAIN records' = DOMAIN records \cup {k}
      /\ records'[k] = [count |-> 1, resetTime |-> clock + Window]
      /\ \A x \in DOMAIN records \ {k} : records'[x] = records[x]
  BY <1>3 DEF Put
<1>10. /\ records'[k] \in [count : 1 .. Limit, resetTime : Nat]
       /\ records'[k].resetTime - Window = clock /\ records'[k].count = 1
  BY <1>2, <1>9, LimitType
<1> HIDE DEF k
<1>11. records'[k].resetTime - Window \in 0 .. clock
  BY <1>2, <1>10
<1>12. Counts(P, records'[k].resetTime - Window, records'[k].count)
  BY <1>8, <1>10
<1> QED
  BY <1>1, <1>2, <1>3, <1>5, <1>8, <1>9, <1>10, <1>11, <1>12, QuotaStep

LEMMA CheckCountsStep ==
  ASSUME QuotaInv, NEW r \in Requests, CheckCounts(r), clock' = clock
  PROVE  QuotaInv'
<1> DEFINE k == KeyOf[r]
           n == ThisCheck(k)[2]
           P == Recent(k) \cup {ThisCheck(k)}
           s == records[k].resetTime - Window
           c == records[k].count
<1>1. k \in Keys /\ k \in DOMAIN records
  BY GatewayAssumption DEF CheckCounts
<1>2. /\ clock \in Nat /\ Window \in Nat /\ MaxRequests \in Nat /\ DOMAIN records \subseteq Keys
      /\ records[k] \in [count : 1 .. Limit, resetTime : Nat]
      /\ s \in 0 .. clock /\ Counts(passed[k], s, c)
  BY <1>1, GatewayAssumption DEF QuotaInv, QuotaTypes, OpenedAt
<1>3. /\ passed' = [passed EXCEPT ![k] = P] /\ told' = [told EXCEPT ![k] = Never]
      /\ records' = [records EXCEPT ![k].count = c + 1]
      /\ c < MaxRequests /\ ~(clock >= records[k].resetTime)
  BY DEF CheckCounts, Pass, Expired
<1>4. /\ P = Recent(k) \cup {<< clock, n >>}
      /\ Recent(k) \in SUBSET passed[k] /\ passed[k] \in SUBSET (Nat \X Nat)
      /\ IsFiniteSet(passed[k])
      /\ P \in SUBSET (Nat \X Nat) /\ \A p \in P : p[1] <= clock
  BY <1>1, RecentSet DEF ThisCheck
<1>5. /\ DOMAIN records' = DOMAIN records
      /\ records'[k].count = c + 1 /\ records'[k].resetTime = records[k].resetTime
      /\ records'[k] \in [count : 1 .. Limit, resetTime : Nat]
      /\ \A x \in DOMAIN records \ {k} : records'[x] = records[x]
  BY <1>1, <1>2, <1>3, LimitType
<1>6. clock < s + Window /\ c \in Nat /\ c < Limit
  BY <1>2, <1>3, LimitType
<1> HIDE DEF P, n, s, c
<1>7. IsFiniteSet(P) /\ Counts(P, s, c + 1) /\ Cardinality(P) < 2 * Limit
  <2> DEFINE R == Recent(k)
             Q == passed[k]
  <2>1. /\ clock \in Nat /\ s \in 0 .. clock /\ clock < s + Window /\ c \in Nat /\ c < Limit
        /\ Q \in SUBSET (Nat \X Nat) /\ IsFiniteSet(Q) /\ Counts(Q, s, c)
        /\ R \in SUBSET Q /\ P = R \cup {<< clock, n >>}
    BY <1>2, <1>4, <1>6
  <2> HIDE DEF R, Q, k
  <2> QED
    BY <2>1, Counting
<1>8. records'[k].resetTime - Window = s
  BY <1>5 DEF s
<1> HIDE DEF k
<1> QED
  BY <1>1, <1>2, <1>3, <1>4, <1>5, <1>7, <1>8, QuotaStep

LEMMA CheckRefusesStep ==
  ASSUME QuotaInv, NEW r \in Requests, CheckRefuses(r), clock' = clock
  PROVE  QuotaInv'
<1> DEFINE k == KeyOf[r]
           m == clock + Second * RetryAfter(records[k].resetTime - clock)
<1>1. k \in Keys /\ k \in DOMAIN records
  BY GatewayAssumption DEF CheckRefuses
<1>2. /\ clock \in Nat /\ records[k] \in [count : 1 .. Limit, resetTime : Nat]
      /\ passed \in [Keys -> SUBSET (Nat \X Nat)] /\ told \in [Keys -> Nat \cup {Never}]
  BY <1>1 DEF QuotaInv, QuotaTypes
<1>3. /\ told' = [told EXCEPT ![k] = m] /\ records' = records /\ passed' = passed
      /\ ~(clock >= records[k].resetTime)
  BY DEF CheckRefuses, Expired
<1>4. m \in Nat /\ m >= records[k].resetTime
  <2> DEFINE ms == records[k].resetTime - clock
             w == Second * RetryAfter(ms)
  <2>1. ms \in Nat
    BY <1>2, <1>3
  <2>2. w \in Nat /\ w >= ms
    BY <2>1, RetryAfterCovers, GatewayAssumption
  <2> HIDE DEF w
  <2>3. clock + w \in Nat /\ clock + w >= records[k].resetTime
    BY <1>2, <2>1, <2>2
  <2> QED
    BY <2>3 DEF w
<1> HIDE DEF m, k
<1>5. passed' = [passed EXCEPT ![k] = passed[k]]
  BY <1>1, <1>2, <1>3
<1>6. /\ passed[k] \in SUBSET (Nat \X Nat) /\ IsFiniteSet(passed[k])
      /\ \A p \in passed[k] : p[1] <= clock
      /\ Cardinality(passed[k]) < 2 * Limit
      /\ records[k].resetTime - Window \in 0 .. clock
      /\ Counts(passed[k], records[k].resetTime - Window, records[k].count)
      /\ DOMAIN records \subseteq Keys
  BY <1>1 DEF QuotaInv, QuotaTypes, LessThanTwice, OpenedAt
<1> QED
  BY <1>1, <1>2, <1>3, <1>4, <1>5, <1>6, QuotaStep

LEMMA ResetStep ==
  ASSUME QuotaInv, NEW k \in Keys, Reset(k)
  PROVE  QuotaInv'
<1>1. /\ DOMAIN records' = DOMAIN records \ {k}
      /\ \A x \in DOMAIN records \ {k} : records'[x] = records[x]
      /\ passed' = [passed EXCEPT ![k] = {}] /\ told' = [told EXCEPT ![k] = Never]
      /\ clock' = clock
  BY DEF Reset, Drop
<1>2. Idle({}) /\ Cardinality({}) < 2 * Limit /\ IsFiniteSet({})
  <2>1. After({}, clock - Window) = {}
    BY DEF After
  <2> QED
    BY <2>1, NoneThere, LimitType DEF Idle
<1>3. DOMAIN records \subseteq Keys
  BY DEF QuotaInv, QuotaTypes
<1> QED
  BY <1>1, <1>2, <1>3, QuotaStep

LEMMA CleanupStep ==
  ASSUME QuotaInv, Cleanup
  PROVE  QuotaInv'
<1>1. /\ UNCHANGED << clock, passed, told >>
      /\ DOMAIN records' = {k \in DOMAIN records : ~(clock >= records[k].resetTime)}
      /\ \A x \in DOMAIN records' : records'[x] = records[x]
  BY DEF Cleanup, Drop, Expired
<1>2. QuotaTypes'
  BY <1>1 DEF QuotaInv, QuotaTypes
<1>3. ASSUME NEW k \in Keys \ DOMAIN records'
      PROVE  Idle(passed[k])
  <2>1. CASE k \notin DOMAIN records
    BY <1>3, <2>1 DEF QuotaInv
  <2>2. CASE k \in DOMAIN records
    <3>1. /\ records[k] \in [count : 1 .. Limit, resetTime : Nat]
          /\ OpenedAt(k) \in 0 .. clock /\ clock \in Nat /\ Window \in Nat
          /\ Counts(passed[k], OpenedAt(k), records[k].count)
          /\ IsFiniteSet(passed[k]) /\ passed[k] \in SUBSET (Nat \X Nat) /\ QuotaTypes
      BY <1>3, <2>2, GatewayAssumption DEF QuotaInv, QuotaTypes
    <3>2. clock >= records[k].resetTime
      BY <1>1, <1>3, <2>2
    <3>3. clock >= OpenedAt(k) + Window /\ OpenedAt(k) \in Nat /\ records[k].count \in 1 .. Limit
      BY <3>1, <3>2 DEF OpenedAt
    <3> QED
      BY <3>1, <3>3, Expiring
  <2> QED
    BY <2>1, <2>2
<1>4. (\A k \in Keys \ DOMAIN records : Idle(passed[k]))'
  BY <1>1, <1>3 DEF Idle
<1> QED
  BY <1>1, <1>2, <1>4 DEF QuotaInv, LessThanTwice, OpenedAt, Counts

LEMMA TickStep ==
  ASSUME QuotaInv, Tick
  PROVE  QuotaInv'
<1>1. clock \in Nat /\ Window \in Nat /\ clock' = clock + 1 /\ UNCHANGED << records, passed, told >>
  BY GatewayAssumption DEF Tick, QuotaInv, QuotaTypes, quota
<1>2. QuotaTypes'
  BY <1>1 DEF QuotaInv, QuotaTypes
<1>3. ASSUME NEW k \in Keys
      PROVE  \A p \in passed[k] : p[1] \in Nat /\ p[1] <= clock
  BY <1>3 DEF QuotaInv, QuotaTypes
<1>4. ASSUME NEW k \in Keys \ DOMAIN records
      PROVE  Idle(passed[k])'
  <2> DEFINE A == After(passed[k], clock - Window)
             B == After(passed[k], clock' - Window)
  <2>1. IsFiniteSet(passed[k]) /\ Cardinality(A) <= Limit - 1
        /\ \A p \in passed[k] : p[1] < clock \/ Window = 0
    BY DEF QuotaInv, Idle
  <2>2. B \subseteq A /\ A \subseteq passed[k]
    BY <1>1, <1>3 DEF After
  <2> HIDE DEF A, B
  <2>3. IsFiniteSet(A)
    BY <2>1, <2>2, SmallerSet
  <2>4. Cardinality(B) <= Cardinality(A) /\ Cardinality(A) \in Nat /\ Cardinality(B) \in Nat
    BY <2>2, <2>3, SmallerSet
  <2>5. Cardinality(B) <= Limit - 1
    BY <2>1, <2>4, LimitType
  <2>6. \A p \in passed[k] : p[1] < clock' \/ Window = 0
    BY <1>1, <1>3
  <2> QED
    BY <1>1, <2>5, <2>6 DEF Idle, B, After
<1>5. ASSUME NEW k \in DOMAIN records
      PROVE  OpenedAt(k)' \in 0 .. clock' /\ OpenedAt(k)' = OpenedAt(k)
  BY <1>1 DEF QuotaInv, OpenedAt
<1>6. \A k \in Keys : \A p \in passed[k] : p[1] <= clock'
  BY <1>1, <1>3
<1> QED
  BY <1>1, <1>2, <1>4, <1>5, <1>6 DEF QuotaInv, LessThanTwice, Counts

LEMMA StoppedStep ==
  ASSUME QuotaInv, Stopped
  PROVE  QuotaInv'
<1>1. /\ clock' = clock /\ DOMAIN records' = {}
      /\ passed' = [k \in Keys |-> {}] /\ told' = [k \in Keys |-> Never]
  BY DEF Stopped
<1>2. After({}, clock - Window) = {}
  BY DEF After
<1>3. Idle({}) /\ Cardinality({}) < 2 * Limit /\ IsFiniteSet({})
  <2>1. 0 <= Limit - 1 /\ 0 < 2 * Limit
    BY LimitType
  <2>2. Cardinality(After({}, clock - Window)) = 0
    BY <1>2, NoneThere, Zenon
  <2> QED
    BY <2>1, <2>2, NoneThere DEF Idle
<1>4. (\A k \in Keys : Idle(passed[k]))'
  BY <1>1, <1>3 DEF Idle
<1>5. QuotaTypes'
  BY <1>1 DEF QuotaInv, QuotaTypes
<1> QED
  BY <1>1, <1>3, <1>4, <1>5 DEF QuotaInv, LessThanTwice

LEMMA QuotaPreserved == QuotaInv /\ [Next]_vars => QuotaInv'
<1> SUFFICES ASSUME QuotaInv, [Next]_vars
             PROVE  QuotaInv'
  OBVIOUS
<1>1. CASE UNCHANGED << clock, quota >>
  BY <1>1 DEF QuotaInv, QuotaTypes, quota, LessThanTwice, OpenedAt, Counts, Idle
<1>2. ASSUME NEW r \in Requests, EndH1(r)
      PROVE  QuotaInv'
  BY <1>2, CheckOpensStep, CheckCountsStep, CheckRefusesStep DEF EndH1
<1>3. ASSUME NEW r \in Requests,
             \/ ArriveH1(r) \/ ArriveH2(r) \/ OtherEnds(r) \/ Validate(r) \/ EndH2(r)
             \/ InterceptorAnswers(r) \/ InterceptorThrows(r) \/ Deadline(r)
             \/ Dispatched(r) \/ Finish(r) \/ Close(r)
      PROVE  UNCHANGED << clock, quota >>
  BY <1>3 DEF ArriveH1, ArriveH2, OtherEnds, Validate, EndH2, InterceptorAnswers,
              InterceptorThrows, Deadline, Dispatched, Finish, Close
<1>4. Drain \/ DrainPoll \/ DrainTimeout \/ Stop \/ UNCHANGED vars => UNCHANGED << clock, quota >>
  BY DEF Drain, DrainPoll, DrainTimeout, Stop, vars
<1> QED
  BY <1>1, <1>2, <1>3, <1>4, ResetStep, CleanupStep, TickStep, StoppedStep DEF Next, Step

-----------------------------------------------------------------------------
LEMMA InitInv == Init => RequestsInv /\ QuotaInv /\ timer \in BOOLEAN
<1> SUFFICES ASSUME Init PROVE RequestsInv /\ QuotaInv /\ timer \in BOOLEAN
  OBVIOUS
<1>1. RequestsInv
  <2>1. NoRequest \in Request /\ Well(NoRequest) /\ NoRequest.attached = FALSE
    BY DEF NoRequest, Request, Well
  <2>2. req \in [Requests -> Request] /\ \A r \in Requests : Well(req[r])
    BY <2>1 DEF Init
  <2>3. Attached = {}
    BY <2>1 DEF Init, Attached
  <2>4. active = Cardinality(Attached)
    BY <2>3, NoneThere DEF Init
  <2>5. /\ life = "listening" /\ draining = FALSE /\ overdue = FALSE /\ config \in Configs
    BY DEF Init
  <2> QED
    BY <2>2, <2>4, <2>5 DEF RequestsInv, DrainIsPatient
<1>2. QuotaInv
  <2>1. /\ clock = 0 /\ DOMAIN records = {}
        /\ passed = [k \in Keys |-> {}] /\ told = [k \in Keys |-> Never]
    BY DEF Init
  <2>2. QuotaTypes
    BY <2>1 DEF QuotaTypes
  <2>3. Cardinality(After({}, clock - Window)) = 0
    <3>1. After({}, clock - Window) = {}
      BY DEF After
    <3> QED
      BY <3>1, NoneThere, Zenon
  <2>4. 0 <= Limit - 1 /\ 0 < 2 * Limit
    BY LimitType
  <2>5. Idle({}) /\ Cardinality({}) < 2 * Limit /\ IsFiniteSet({})
    BY <2>3, <2>4, NoneThere DEF Idle
  <2> QED
    BY <2>1, <2>2, <2>5 DEF QuotaInv, LessThanTwice
<1>3. timer \in BOOLEAN
  BY DEF Init
<1> QED
  BY <1>1, <1>2, <1>3

LEMMA TimerPreserved == timer \in BOOLEAN /\ [Next]_vars => timer' \in BOOLEAN
  BY DEF Next, Step, vars, server, ArriveH1, ArriveH2, OtherEnds, Validate, EndH1, EndH2,
         InterceptorAnswers, InterceptorThrows, Deadline, Dispatched, Finish, Close, Reset,
         Cleanup, Drain, DrainPoll, DrainTimeout, Stop, Stopped, Tick

IInv == RequestsInv /\ QuotaInv /\ timer \in BOOLEAN

LEMMA Invariance == Spec => []IInv
<1>1. Init => IInv
  BY InitInv DEF IInv
<1>2. IInv /\ [Next]_vars => IInv'
  BY RequestsPreserved, QuotaPreserved, TimerPreserved DEF IInv
<1> QED
  BY <1>1, <1>2, PTL DEF Spec

(* Types: no bucket counts beyond the limit, and activeRequests, which two *)
(* events per response decrement, stays between zero and the requests      *)
(* under way.                                                              *)
THEOREM TypeCorrect == Spec => []TypeOK
<1>1. IInv => TypeOK
  BY CountBounds DEF IInv, TypeOK, RequestsInv, QuotaInv, QuotaTypes
<1> QED
  BY <1>1, Invariance, PTL

(* What reaches router.dispatch has passed every gate of its protocol.     *)
THEOREM NothingSlipsThroughHolds == Spec => []NothingSlipsThrough
<1>1. IInv => NothingSlipsThrough
  BY DEF IInv, RequestsInv, Well, NothingSlipsThrough
<1> QED
  BY <1>1, Invariance, PTL

(* A drain that ends on its count ends with no HTTP/1.1 client waiting.    *)
THEOREM DrainIsPatientHolds == Spec => []DrainIsPatient
<1>1. IInv => DrainIsPatient
  BY DEF IInv, RequestsInv
<1> QED
  BY <1>1, Invariance, PTL

(* A request is refused with 429 by the step that checks its quota.        *)
LEMMA RefusalIsChecked ==
  ASSUME RequestsInv, [Next]_vars, NEW r \in Requests,
         req[r].stage = "body", req'[r].status = "429"
  PROVE  CheckRefuses(r)
<1>1. req[r] \in Request /\ req[r].status = "none" /\ req \in [Requests -> Request]
  BY DEF RequestsInv, Well
<1>2. ASSUME NEW q \in Request, NEW a \in {"200", "400", "401", "403", "503"}, q.status # "429"
      PROVE  Answered(q, a).status # "429"
  <2>1. CASE q.conn = "open"
    BY <2>1, <1>2 DEF Answered, Request
  <2>2. CASE q.conn # "open"
    BY <2>2, <1>2 DEF Answered, NoRequest, Request
  <2> QED
    BY <2>1, <2>2
<1>3. ASSUME NEW q \in Request, q.status # "429", Inspect(r, q)
      PROVE  req'[r].status # "429"
  BY <1>1, <1>2, <1>3, AtFields DEF Inspect, Becomes
<1>4. CASE \E x \in Requests \ {r} :
             \/ ArriveH1(x) \/ ArriveH2(x) \/ OtherEnds(x)
             \/ Validate(x) \/ EndH1(x) \/ EndH2(x)
             \/ InterceptorAnswers(x) \/ InterceptorThrows(x) \/ Deadline(x)
             \/ Dispatched(x) \/ Finish(x) \/ Close(x)
  <2> PICK x \in Requests \ {r} :
             \/ ArriveH1(x) \/ ArriveH2(x) \/ OtherEnds(x)
             \/ Validate(x) \/ EndH1(x) \/ EndH2(x)
             \/ InterceptorAnswers(x) \/ InterceptorThrows(x) \/ Deadline(x)
             \/ Dispatched(x) \/ Finish(x) \/ Close(x)
    BY <1>4
  <2>1. \E q : Becomes(x, q)
    BY DEF ArriveH1, ArriveH2, OtherEnds, Validate, EndH1, EndH2, InterceptorAnswers,
           InterceptorThrows, Deadline, Dispatched, Finish, Close, OnDone, Inspect, Compare,
           InterceptorFailed
  <2> QED
    BY <1>1, <2>1 DEF Becomes
<1>5. CASE EndH1(r)
  <2>1. CASE CheckRefuses(r)
    BY <2>1
  <2>2. CASE Inspect(r, Through(req[r], "quota"))
    BY <1>1, <1>3, <2>2, ThroughFields
  <2> QED
    BY <1>5, <2>1, <2>2 DEF EndH1
<1>6. CASE EndH2(r)
  <2>1. CASE Becomes(r, At(req[r], "validate"))
    BY <1>1, <2>1, AtFields DEF Becomes
  <2>2. CASE Becomes(r, Answered(req[r], "401"))
    BY <1>1, <1>2, <2>2 DEF Becomes
  <2>3. CASE Inspect(r, req[r])
    BY <1>1, <1>3, <2>3
  <2> QED
    BY <1>6, <2>1, <2>2, <2>3 DEF EndH2
<1>7. CASE Close(r)
  <2>1. Becomes(r, NoRequest)
    <3>1. [NoRequest EXCEPT !.attached = req[r].attached].stage = "idle"
      BY DEF NoRequest
    <3> QED
      BY <1>7, <3>1 DEF Close, OnDone
  <2> QED
    BY <1>1, <2>1 DEF Becomes, NoRequest
<1>8. ~(\/ ArriveH1(r) \/ ArriveH2(r) \/ OtherEnds(r) \/ Validate(r)
        \/ InterceptorAnswers(r) \/ InterceptorThrows(r) \/ Deadline(r)
        \/ Dispatched(r) \/ Finish(r))
  BY DEF ArriveH1, ArriveH2, OtherEnds, Validate, InterceptorAnswers, InterceptorThrows,
         Deadline, Dispatched, Finish
<1>9. CASE (\E k \in Keys : Reset(k)) \/ Cleanup \/ Drain \/ DrainPoll \/ DrainTimeout
           \/ Stop \/ Stopped \/ Tick \/ UNCHANGED vars
  <2>1. req' = req
    BY <1>9 DEF Reset, Cleanup, Drain, DrainPoll, DrainTimeout, Stop, Stopped, Tick, vars
  <2> QED
    BY <1>1, <2>1
<1> QED
  BY <1>4, <1>5, <1>6, <1>7, <1>8, <1>9 DEF Next, Step

(* The rate limiter: fewer than twice the limit pass in any window, and a  *)
(* client that waits as long as Retry-After said is not refused again.     *)
THEOREM LimiterKeepsItsWordHolds == Spec => LimiterKeepsItsWord
<1> DEFINE Honest == \A r \in Requests : (req[r].stage = "body" /\ req'[r].status = "429")
                       => (told[KeyOf[r]] = Never \/ clock < told[KeyOf[r]])
<1>1. IInv => LessThanTwice
  BY DEF IInv, QuotaInv
<1>2. IInv /\ [Next]_vars => Honest
  <2> SUFFICES ASSUME IInv, [Next]_vars, NEW r \in Requests,
                      req[r].stage = "body", req'[r].status = "429",
                      told[KeyOf[r]] # Never
               PROVE  clock < told[KeyOf[r]]
    OBVIOUS
  <2> DEFINE k == KeyOf[r]
  <2>1. CheckRefuses(r)
    BY RefusalIsChecked DEF IInv
  <2>2. k \in DOMAIN records /\ ~(clock >= records[k].resetTime) /\ k \in Keys
    BY <2>1, GatewayAssumption DEF CheckRefuses, Expired
  <2>3. /\ clock \in Nat /\ records[k] \in [count : 1 .. Limit, resetTime : Nat]
        /\ told[k] >= records[k].resetTime /\ told[k] \in Nat \cup {Never}
    BY <2>2 DEF IInv, QuotaInv, QuotaTypes
  <2> QED
    BY <2>2, <2>3 DEF Never
<1>3. Spec => [](TypeOK /\ LessThanTwice)
  BY <1>1, TypeCorrect, Invariance, PTL
<1>4. Spec => [][Honest]_vars
  <2> HIDE DEF Honest
  <2>1. IInv /\ [Next]_vars => [Honest]_vars
    BY <1>2
  <2> QED
    BY <2>1, Invariance, PTL DEF Spec
<1> QED
  BY <1>3, <1>4 DEF LimiterKeepsItsWord, RetryAfterIsHonoured

(***************************************************************************)
(* The dispatch.                                                           *)
(***************************************************************************)
(* What a client of either era may see.                                    *)
Sound(ask, answer) ==
    (answer # Nothing /\ answer.is = "result" /\ ask.method \notin {"initialize", "ping", "server/discover"})
    => /\ ask.version = "modern" => answer.tags \/ (ask.method = "tools/call" /\ ask.arg = "remote")
       /\ (ask.version \in {"absent", "legacy"} /\ LegacySupport) => ~answer.tags

Forwarded(ask) == ask.method = "tools/call" /\ ask.arg = "remote"

(* What a finished remote call may say of its stream.                      *)
Bound(answer, s) ==
    (answer # Nothing /\ answer.is = "result" /\ ~answer.flagged /\ s.audit # "thrown") =>
        /\ ~s.broken
        /\ s.messages # <<>> => s.messages[Len(s.messages)].bound \/ s.messages[Len(s.messages)].declared

(* A request and the stream of its peer: the stream is silent until the    *)
(* peer has accepted, and once it breaks the error is already the answer.  *)
RequestInv(q, s) ==
    /\ s = [messages |-> s.messages, broken |-> s.broken, audit |-> s.audit]
    /\ s.messages \in Seq(Messages) /\ s.broken \in BOOLEAN
    /\ q.phase # "none" => q = [phase |-> q.phase, ask |-> q.ask, answer |-> q.answer] /\ Sound(q.ask, q.answer)
    /\ q.phase \in {"intent", "stream", "ended"} => Forwarded(q.ask)
    /\ q.phase \in {"listing", "unknown", "handler", "local"} => ~Forwarded(q.ask)
    /\ q.phase \in {"intent", "stream"} => q.answer = Nothing
    /\ q.phase \notin {"ended", "done", "crashed"} => ~s.broken
    /\ q.phase = "ended" => q.answer = Nothing \/ (q.answer.flagged /\ q.answer.is = "result")
    /\ (q.phase = "ended" /\ s.broken) => q.answer # Nothing
    /\ (q.phase = "done" /\ Forwarded(q.ask)) => Bound(q.answer, s)

DispatchInv ==
    /\ request = [r \in RequestIds |-> request[r]] /\ stream = [r \in RequestIds |-> stream[r]]
    /\ \A r \in RequestIds : RequestInv(request[r], stream[r])

-----------------------------------------------------------------------------
LEMMA Answering ==
  ASSUME NEW ask, NEW tags \in BOOLEAN
  PROVE  /\ Tagged(ask).is = "result" /\ ~Tagged(ask).flagged /\ Tagged(ask) # Nothing /\ Sound(ask, Tagged(ask))
         /\ Sound(ask, Error) /\ Error # Nothing /\ Error.is = "error" /\ Sound(ask, Nothing)
         /\ \A flagged \in BOOLEAN :
              LET shown == [Tagged(ask) EXCEPT !.flagged = flagged]
              IN shown.flagged = flagged /\ shown.is = "result" /\ shown # Nothing /\ Sound(ask, shown)
         /\ Result(tags).is = "result" /\ Result(tags) # Nothing /\ ~Result(tags).flagged /\ Result(tags).tags = tags
<1>1. CASE detectEra(ask) = "legacy"
  <2>1. Tagged(ask) = [is |-> "result", tags |-> FALSE, flagged |-> FALSE]
    BY <1>1 DEF Tagged, adaptResponseForLegacyClient, Result
  <2>2. ask.version # "modern"
    BY <1>1 DEF detectEra
  <2> QED
    BY <2>1, <2>2 DEF Sound, Error, Nothing, Result
<1>2. CASE detectEra(ask) # "legacy"
  <2>1. Tagged(ask) = [is |-> "result", tags |-> TRUE, flagged |-> FALSE]
    BY <1>2 DEF Tagged, adaptResponseForLegacyClient, Result
  <2>2. ~(ask.version \in {"absent", "legacy"} /\ LegacySupport)
    BY <1>2 DEF detectEra, isLegacyRequest
  <2> QED
    BY <2>1, <2>2 DEF Sound, Error, Nothing, Result
<1> QED
  BY <1>1, <1>2

LEMMA AtOnce ==
  ASSUME NEW ask, ask.method \notin Deferred
  PROVE  Sound(ask, Immediate(ask)) /\ ~Forwarded(ask)
<1>1. ~Forwarded(ask)
  BY DEF Forwarded, Deferred
<1>2. CASE ask.method \in {"initialize", "ping", "server/discover"}
  BY <1>1, <1>2 DEF Sound
<1>3. CASE ask.method \in {"notifications/initialized", "notifications/cancelled"}
  <2>1. Immediate(ask) = Nothing
    BY <1>3 DEF Immediate
  <2> QED
    BY <1>1, <2>1, Answering
<1>4. CASE ask.method \in {"resources/list", "prompts/list", "resources/templates/list", "subscriptions/listen"}
  <2>1. Immediate(ask) = Tagged(ask)
    BY <1>4 DEF Immediate
  <2> QED
    BY <1>1, <2>1, Answering
<1>5. CASE ask.method \notin {"initialize", "ping", "server/discover", "notifications/initialized",
                              "notifications/cancelled", "resources/list", "prompts/list",
                              "resources/templates/list", "subscriptions/listen"}
  <2>1. Immediate(ask) = Error
    BY <1>5, Zenon DEF Immediate
  <2> QED
    BY <1>1, <2>1, Answering
<1> QED
  BY <1>2, <1>3, <1>4, <1>5, <1>1

-----------------------------------------------------------------------------
(* A step of one request.                                                  *)
LEMMA OneRequest ==
  ASSUME DispatchInv, NEW r \in RequestIds, NEW q, NEW s, RequestInv(q, s),
         request' = [request EXCEPT ![r] = q], stream' = [stream EXCEPT ![r] = s]
  PROVE  DispatchInv'
<1>1. /\ request' = [p \in RequestIds |-> request'[p]] /\ stream' = [p \in RequestIds |-> stream'[p]]
      /\ request'[r] = q /\ stream'[r] = s
      /\ \A p \in RequestIds : p # r => request'[p] = request[p] /\ stream'[p] = stream[p]
  BY DEF DispatchInv
<1>2. \A p \in RequestIds : RequestInv(request'[p], stream'[p])
  BY <1>1 DEF DispatchInv
<1> QED
  BY <1>1, <1>2 DEF DispatchInv

LEMMA OnlyRequest ==
  ASSUME DispatchInv, NEW r \in RequestIds, NEW q, RequestInv(q, stream[r]),
         request' = [request EXCEPT ![r] = q], UNCHANGED stream
  PROVE  DispatchInv'
<1>1. stream' = [stream EXCEPT ![r] = stream[r]]
  BY DEF DispatchInv
<1> QED
  BY <1>1, OneRequest

(* A request that is answered, or waits for something that is not a peer.  *)
LEMMA Replying ==
  ASSUME DispatchInv, NEW r \in RequestIds, NEW ask, NEW answer, NEW phase, ~stream[r].broken,
         \/ phase = "done" /\ Sound(ask, answer) /\ (Forwarded(ask) => Bound(answer, stream[r]))
         \/ phase \in {"listing", "unknown", "handler", "local"} /\ ~Forwarded(ask) /\ answer = Nothing
         \/ phase = "intent" /\ Forwarded(ask) /\ answer = Nothing,
         request' = [request EXCEPT ![r] = [phase |-> phase, ask |-> ask, answer |-> answer]], UNCHANGED stream
  PROVE  DispatchInv'
<1> DEFINE q == [phase |-> phase, ask |-> ask, answer |-> answer]
<1>1. q.phase = phase /\ q.ask = ask /\ q.answer = answer /\ q = [phase |-> q.phase, ask |-> q.ask, answer |-> q.answer]
  OBVIOUS
<1> HIDE DEF q
<1>2. Sound(ask, answer)
  BY Answering
<1>3. RequestInv(request[r], stream[r])
  BY DEF DispatchInv
<1>4. RequestInv(q, stream[r])
  BY <1>1, <1>2, <1>3 DEF RequestInv
<1> QED
  BY <1>4, OnlyRequest DEF q

-----------------------------------------------------------------------------
LEMMA DispatchStep ==
  ASSUME DispatchInv, NEW r \in RequestIds, NEW ask, Dispatch(r, ask)
  PROVE  DispatchInv'
<1>0. RequestInv(request[r], stream[r]) /\ New(r) /\ UNCHANGED stream /\ ~stream[r].broken
  BY DEF DispatchInv, RequestInv, Dispatch, Denied, AnswerAtOnce, ListTools, Fetch, CallTool, New, Rest
<1>1. ASSUME NEW answer, Replies(r, ask, answer), Sound(ask, answer), Forwarded(ask) => answer.is = "error"
      PROVE  DispatchInv'
  <2>1. Forwarded(ask) => Bound(answer, stream[r])
    BY <1>1 DEF Bound
  <2> QED
    BY <1>0, <1>1, <2>1, Replying DEF Replies
<1>2. CASE Denied(r, ask)
  BY <1>1, <1>2, Answering DEF Denied
<1>3. CASE AnswerAtOnce(r, ask)
  BY <1>1, <1>3, AtOnce DEF AnswerAtOnce
<1>4. CASE ListTools(r, ask)
  BY <1>0, <1>4, Replying DEF ListTools, Waits, Forwarded
<1>5. CASE Fetch(r, ask)
  <2>1. ~Forwarded(ask)
    BY <1>5 DEF Fetch, Forwarded
  <2>2. CASE ask.arg = "missing"
    BY <1>1, <1>5, <2>1, <2>2, Answering DEF Fetch
  <2>3. CASE ask.arg # "missing"
    <3>1. PICK phase \in {"unknown", "handler"} : Waits(r, ask, phase)
      BY <1>5, <2>3 DEF Fetch
    <3> QED
      BY <1>0, <2>1, <3>1, Replying DEF Waits
  <2> QED
    BY <2>2, <2>3
<1>6. CASE CallTool(r, ask)
  <2>1. CASE ask.arg = "LiopMeshStatus"
    BY <1>1, <1>6, <2>1, Answering DEF CallTool, Forwarded
  <2>2. CASE ask.arg = "local"
    BY <1>0, <1>6, <2>2, Replying DEF CallTool, Waits, Forwarded
  <2>3. CASE ask.arg = "remote"
    BY <1>0, <1>6, <2>3, Replying DEF CallTool, Waits, Forwarded
  <2>4. CASE ask.arg = "missing"
    <3>1. Replies(r, ask, Thrown)
      BY <1>6, <2>4 DEF CallTool
    <3>2. Sound(ask, Thrown) /\ ~Forwarded(ask)
      BY <2>4 DEF Sound, Forwarded, Thrown
    <3> QED
      BY <1>1, <3>1, <3>2
  <2>5. CASE ask.arg \notin {"LiopMeshStatus", "local", "remote", "missing"}
    <3>1. Replies(r, ask, Error)
      BY <1>6, <2>5, Zenon DEF CallTool
    <3> QED
      BY <1>1, <3>1, Answering
  <2> QED
    BY <2>1, <2>2, <2>3, <2>4, <2>5
<1> QED
  BY <1>2, <1>3, <1>4, <1>5, <1>6 DEF Dispatch

(* A request that waits gets its answer, or waits for something else.      *)
LEMMA Moving ==
  ASSUME NEW q, NEW s, RequestInv(q, s), q.phase # "none", NEW phase, NEW answer,
         \/ phase = "done" /\ Sound(q.ask, answer) /\ (Forwarded(q.ask) => Bound(answer, s))
         \/ phase \in {"stream", "crashed"} /\ q.phase = "intent" /\ answer = q.answer
         \/ phase = "ended" /\ q.phase = "stream" /\ answer = q.answer
  PROVE  RequestInv([phase |-> phase, ask |-> q.ask, answer |-> answer], s)
<1> DEFINE p == [phase |-> phase, ask |-> q.ask, answer |-> answer]
<1>1. p.phase = phase /\ p.ask = q.ask /\ p.answer = answer /\ p = [phase |-> p.phase, ask |-> p.ask, answer |-> p.answer]
  OBVIOUS
<1> HIDE DEF p
<1>2. RequestInv(p, s)
  BY <1>1 DEF RequestInv
<1> QED
  BY <1>2 DEF p

LEMMA OwnStep ==
  ASSUME DispatchInv, NEW r \in RequestIds, Own(r)
  PROVE  DispatchInv'
<1> DEFINE q == request[r]
           s == stream[r]
<1>0. RequestInv(q, s)
  BY DEF DispatchInv
<1>1. ASSUME NEW answer, Completes(r, answer), Sound(q.ask, answer), ~Forwarded(q.ask), q.phase # "none", UNCHANGED stream
      PROVE  DispatchInv'
  <2>1. RequestInv([phase |-> "done", ask |-> q.ask, answer |-> answer], s)
    BY <1>0, <1>1, Moving
  <2> QED
    BY <1>1, <2>1, OnlyRequest DEF Completes, Moves
<1>2. CASE ToolsListed(r)
  BY <1>0, <1>1, <1>2, Answering DEF ToolsListed, RequestInv, Rest
<1>3. CASE LocalReturns(r)
  <2>1. PICK answer \in {Shown(r, TRUE), Shown(r, FALSE), Error} : Completes(r, answer)
    BY <1>3 DEF LocalReturns
  <2>2. Sound(q.ask, answer)
    BY <2>1, Answering DEF Shown
  <2> QED
    BY <1>0, <1>1, <1>3, <2>1, <2>2 DEF LocalReturns, RequestInv, Rest
<1>4. ASSUME NEW good \in BOOLEAN, HandlerReturns(r, good)
      PROVE  DispatchInv'
  <2>1. PICK answer \in {Tagged(q.ask), Error} : Completes(r, answer)
    BY <1>4 DEF HandlerReturns
  <2>2. Sound(q.ask, answer)
    BY <2>1, Answering
  <2> QED
    BY <1>0, <1>1, <1>4, <2>1, <2>2 DEF HandlerReturns, RequestInv, Rest
<1>5. ASSUME NEW verdict, Audit(r, verdict)
      PROVE  DispatchInv'
  <2> DEFINE t == [s EXCEPT !.audit = verdict]
             last == s.messages[Len(s.messages)]
  <2>1. /\ q.phase = "ended" /\ Forwarded(q.ask) /\ stream' = [stream EXCEPT ![r] = t]
        /\ s.messages \in Seq(Messages) /\ s.broken \in BOOLEAN
        /\ q = [phase |-> q.phase, ask |-> q.ask, answer |-> q.answer] /\ Sound(q.ask, q.answer)
    BY <1>0, <1>5 DEF Audit, RequestInv, Streams
  <2>2. /\ t.messages = s.messages /\ t.broken = s.broken /\ t.audit = verdict
        /\ t = [messages |-> t.messages, broken |-> t.broken, audit |-> t.audit]
    BY <1>0 DEF RequestInv
  <2>3. PICK answer \in IF verdict = "invalid" THEN {Shown(r, TRUE)} ELSE {Shown(r, TRUE), Shown(r, FALSE), Result(FALSE)} :
          Completes(r, IF q.answer # Nothing THEN q.answer ELSE answer)
    BY <1>5 DEF Audit
  <2> DEFINE given == IF q.answer # Nothing THEN q.answer ELSE answer
  <2>4. Sound(q.ask, given)
    <3>1. Sound(q.ask, Result(FALSE))
      BY <2>1, Answering DEF Sound, Forwarded
    <3> QED
      BY <2>1, <2>3, <3>1, Answering DEF Shown
  <2>5. verdict = "invalid" => answer.flagged
    BY <2>3, Answering DEF Shown
  <2>6. Bound(given, t)
    <3>1. CASE q.answer # Nothing
      BY <1>0, <2>1, <3>1 DEF RequestInv, Bound
    <3>2. CASE q.answer = Nothing
      <4>1. ~s.broken
        BY <1>0, <2>1, <3>2 DEF RequestInv
      <4>2. ASSUME s.messages # <<>>, verdict # "invalid", verdict # "thrown"
            PROVE  last.bound \/ last.declared
        BY <1>5, <4>2 DEF Audit
      <4> QED
        BY <2>2, <2>5, <3>2, <4>1, <4>2 DEF Bound
    <3> QED
      BY <3>1, <3>2
  <2> HIDE DEF t, given
  <2>7. RequestInv([phase |-> "done", ask |-> q.ask, answer |-> given], t)
    <3> DEFINE p == [phase |-> "done", ask |-> q.ask, answer |-> given]
    <3>1. p.phase = "done" /\ p.ask = q.ask /\ p.answer = given /\ p = [phase |-> p.phase, ask |-> p.ask, answer |-> p.answer]
      OBVIOUS
    <3> HIDE DEF p
    <3>2. RequestInv(p, t)
      BY <2>1, <2>2, <2>4, <2>6, <3>1 DEF RequestInv
    <3> QED
      BY <3>2 DEF p
  <2> QED
    BY <2>1, <2>3, <2>7, OneRequest DEF Completes, Moves, given
<1> QED
  BY <1>2, <1>3, <1>4, <1>5 DEF Own

LEMMA Changing ==
  ASSUME NEW s, s = [messages |-> s.messages, broken |-> s.broken, audit |-> s.audit], NEW x
  PROVE  /\ [s EXCEPT !.messages = x] = [messages |-> x, broken |-> s.broken, audit |-> s.audit]
         /\ [s EXCEPT !.broken = x] = [messages |-> s.messages, broken |-> x, audit |-> s.audit]
<1>1. /\ [[messages |-> s.messages, broken |-> s.broken, audit |-> s.audit] EXCEPT !.messages = x]
           = [messages |-> x, broken |-> s.broken, audit |-> s.audit]
      /\ [[messages |-> s.messages, broken |-> s.broken, audit |-> s.audit] EXCEPT !.broken = x]
           = [messages |-> s.messages, broken |-> x, audit |-> s.audit]
  OBVIOUS
<1> QED
  BY <1>1, Zenon

LEMMA PeerStep ==
  ASSUME DispatchInv, NEW r \in RequestIds, Peer(r)
  PROVE  DispatchInv'
<1> DEFINE q == request[r]
           s == stream[r]
<1>0. RequestInv(q, s)
  BY DEF DispatchInv
<1>1. CASE HandshakeFails(r)
  <2>1. Sound(q.ask, Shown(r, TRUE)) /\ Shown(r, TRUE).flagged
    BY Answering DEF Shown
  <2>2. Bound(Shown(r, TRUE), s)
    BY <2>1 DEF Bound
  <2>3. RequestInv([phase |-> "done", ask |-> q.ask, answer |-> Shown(r, TRUE)], s)
    BY <1>0, <1>1, <2>1, <2>2, Moving DEF HandshakeFails
  <2> QED
    BY <1>1, <2>3, OnlyRequest DEF HandshakeFails, Completes, Moves, Rest
<1>2. ASSUME NEW good \in BOOLEAN, HandshakeSucceeds(r, good)
      PROVE  DispatchInv'
  <2>1. PICK phase \in {"stream", "crashed"} : Phase(r, phase)
    BY <1>2 DEF HandshakeSucceeds
  <2>2. RequestInv([phase |-> phase, ask |-> q.ask, answer |-> q.answer], s)
    BY <1>0, <1>2, <2>1, Moving DEF HandshakeSucceeds
  <2> QED
    BY <1>2, <2>1, <2>2, OnlyRequest DEF HandshakeSucceeds, Phase, Moves, Rest
<1>3. CASE StreamEnds(r)
  <2>1. RequestInv([phase |-> "ended", ask |-> q.ask, answer |-> q.answer], s)
    BY <1>0, <1>3, Moving DEF StreamEnds
  <2> QED
    BY <1>3, <2>1, OnlyRequest DEF StreamEnds, Phase, Moves, Rest
<1>4. CASE StreamBreaks(r)
  <2> DEFINE t == [s EXCEPT !.broken = TRUE]
             p == [phase |-> "ended", ask |-> q.ask, answer |-> Shown(r, TRUE)]
  <2>1. /\ t.messages = s.messages /\ t.broken = TRUE
        /\ t = [messages |-> t.messages, broken |-> t.broken, audit |-> t.audit]
    <3>1. t = [messages |-> s.messages, broken |-> TRUE, audit |-> s.audit]
      BY <1>0, Changing DEF RequestInv
    <3> QED
      BY <3>1
  <2>2. Sound(q.ask, Shown(r, TRUE)) /\ Shown(r, TRUE).flagged /\ Shown(r, TRUE).is = "result" /\ Shown(r, TRUE) # Nothing
    BY Answering DEF Shown
  <2>3. /\ p.phase = "ended" /\ p.ask = q.ask /\ p.answer = Shown(r, TRUE)
        /\ p = [phase |-> p.phase, ask |-> p.ask, answer |-> p.answer]
    OBVIOUS
  <2>4. stream' = [stream EXCEPT ![r] = t] /\ request' = [request EXCEPT ![r] = p] /\ q.phase = "stream"
    BY <1>4 DEF StreamBreaks, Streams, Moves
  <2> HIDE DEF t, p
  <2>5. RequestInv(p, t)
    BY <1>0, <2>1, <2>2, <2>3, <2>4 DEF RequestInv
  <2> QED
    BY <2>4, <2>5, OneRequest
<1>5. ASSUME NEW m \in Messages, Receive(r, m)
      PROVE  DispatchInv'
  <2> DEFINE t == [s EXCEPT !.messages = Append(s.messages, m)]
  <2>1. s.messages \in Seq(Messages) /\ Append(s.messages, m) \in Seq(Messages)
    BY <1>0 DEF RequestInv
  <2>2. /\ t.messages = Append(s.messages, m) /\ t.broken = s.broken
        /\ t = [messages |-> t.messages, broken |-> t.broken, audit |-> t.audit]
    <3>1. t = [messages |-> Append(s.messages, m), broken |-> s.broken, audit |-> s.audit]
      BY <1>0, Changing DEF RequestInv
    <3> QED
      BY <3>1
  <2>3. stream' = [stream EXCEPT ![r] = t] /\ request' = [request EXCEPT ![r] = q] /\ q.phase = "stream"
    BY <1>5 DEF Receive, Streams, DispatchInv
  <2> HIDE DEF t
  <2>4. RequestInv(q, t)
    BY <1>0, <2>1, <2>2, <2>3 DEF RequestInv
  <2> QED
    BY <2>3, <2>4, OneRequest
<1> QED
  BY <1>1, <1>2, <1>3, <1>4, <1>5 DEF Peer

(* An answer never shows a client the fields of the other era, and a       *)
(* remote result that is not flagged was verified or declared by its peer  *)
(* (dispatch and performTranscoding of gateway/router.ts), for any number  *)
(* of requests, whatever they ask and whatever peers send.                 *)
THEOREM AnswersSound == DispatchSpec => []AnswersAreSound
<1>1. DispatchInit => DispatchInv
  <2>1. /\ Silence.messages = <<>> /\ ~Silence.broken /\ Silence.broken \in BOOLEAN /\ <<>> \in Seq(Messages)
        /\ Silence = [messages |-> Silence.messages, broken |-> Silence.broken, audit |-> Silence.audit]
    BY DEF Silence
  <2>2. RequestInv([phase |-> "none"], Silence)
    BY <2>1 DEF RequestInv
  <2> QED
    BY <2>2 DEF DispatchInit, DispatchInv
<1>2. DispatchInv /\ [DispatchNext]_dispatchVars => DispatchInv'
  <2>1. ASSUME DispatchInv, DispatchNext
        PROVE  DispatchInv'
    <3>1. ASSUME UNCHANGED <<request, stream>>
          PROVE  DispatchInv'
      BY <2>1, <3>1 DEF DispatchInv
    <3>2. (\E r \in RequestIds, ask \in Asks : Dispatch(r, ask)) => DispatchInv'
      BY <2>1, DispatchStep
    <3>3. (\E r \in RequestIds : Own(r) \/ Peer(r)) => DispatchInv'
      BY <2>1, OwnStep, PeerStep
    <3> QED
      BY <2>1, <3>1, <3>2, <3>3 DEF DispatchNext, RegisterResource, OfferResources
  <2>2. ASSUME DispatchInv, UNCHANGED dispatchVars
        PROVE  DispatchInv'
    BY <2>2 DEF DispatchInv, dispatchVars
  <2> QED
    BY <2>1, <2>2
<1>3. DispatchInv => AnswersAreSound
  <2>1. DispatchInv => EraIsRespected
    BY DEF DispatchInv, RequestInv, EraIsRespected, Answers, Untyped, Sound
  <2>2. DispatchInv => PassedIsBound
    BY DEF DispatchInv, RequestInv, PassedIsBound, Answers, Bound, Forwarded
  <2> QED
    BY <2>1, <2>2 DEF AnswersAreSound
<1> QED
  BY <1>1, <1>2, <1>3, PTL DEF DispatchSpec

(***************************************************************************)
(* The router.                                                             *)
(***************************************************************************)
(* A set that holds 0 and the successor of what it holds has every number. *)
LEMMA Reaches ==
  ASSUME NEW S, 0 \in S, \A n \in Nat : n \in S => n + 1 \in S
  PROVE  Nat \subseteq S
<1> SUFFICES ASSUME NEW k \in Nat, k \notin S PROVE FALSE
  OBVIOUS
<1> DEFINE D == Nat \ S
           R == {ij \in Nat \X Nat : ij[1] < ij[2]}
<1>1. D \subseteq Nat /\ D # {}
  OBVIOUS
<1>2. IsWellFoundedOn(R, Nat)
  BY NatLessThanWellFounded DEF OpToRel, IsWellFoundedOn
<1>3. PICK d \in D : \A e \in D : <<e, d>> \notin R
  BY <1>1, <1>2, WFMin
<1>4. d - 1 \in Nat /\ d - 1 \in S
  <2>1. d \in Nat /\ d # 0
    BY <1>3
  <2>2. d - 1 \in Nat /\ d - 1 < d
    BY <2>1
  <2>3. <<d - 1, d>> \in R
    BY <2>1, <2>2
  <2> QED
    BY <1>3, <2>2, <2>3
<1>5. (d - 1) + 1 = d
  OBVIOUS
<1> QED
  BY <1>3, <1>4, <1>5

Doubles(f) == f = [n \in 0..FailureCap |-> IF n = 0 THEN 1 ELSE 2 * f[n - 1]]

LEMMA DoubledIsPositive == \A n \in 0..FailureCap : Doubled[n] \in Nat
<1> DEFINE Good(f, k) == f \in [0..k -> Nat] /\ \A n \in 0..k : f[n] = IF n = 0 THEN 1 ELSE 2 * f[n - 1]
           S == {k \in Nat : \E f : Good(f, k)}
<1>1. 0 \in S
  <2>1. Good([n \in 0..0 |-> 1], 0)
    OBVIOUS
  <2> QED
    BY <2>1
<1>2. ASSUME NEW k \in Nat, k \in S
      PROVE  k + 1 \in S
  <2>1. PICK f : Good(f, k)
    BY <1>2
  <2> DEFINE g == [n \in 0..(k + 1) |-> IF n = k + 1 THEN 2 * f[k] ELSE f[n]]
  <2>2. g \in [0..(k+1) -> Nat]
    BY <2>1
  <2>3. ASSUME NEW n \in 0..(k + 1) PROVE g[n] = IF n = 0 THEN 1 ELSE 2 * g[n - 1]
    <3>1. n = k + 1 \/ n \in 0..k
      OBVIOUS
    <3> QED
      BY <2>1, <3>1
  <2>4. Good(g, k + 1)
    BY <2>2, <2>3
  <2> HIDE DEF g, Good
  <2> QED
    BY <2>4
<1>3. FailureCap \in Nat /\ Nat \subseteq S
  <2> HIDE DEF S
  <2>1. Nat \subseteq S
    BY <1>1, <1>2, Reaches
  <2> QED
    BY <2>1, TimesAssumption
<1>4. PICK f : Good(f, FailureCap)
  BY <1>3
<1>5. Doubles(f)
  BY <1>4 DEF Doubles
<1>6. Doubles(Doubled)
  <2>1. Doubled = CHOOSE h : Doubles(h)
    BY DEF Doubled, Doubles
  <2> QED
    BY <1>5, <2>1
<1>7. \A n \in 0..FailureCap : Doubled[n] = IF n = 0 THEN 1 ELSE 2 * Doubled[n - 1]
  BY <1>6 DEF Doubles
<1> DEFINE T == {k \in Nat : k \in 0..FailureCap => Doubled[k] \in Nat}
<1>8. 0 \in T
  BY <1>7
<1>9. ASSUME NEW k \in Nat, k \in T PROVE k + 1 \in T
  <2> SUFFICES ASSUME k + 1 \in 0..FailureCap PROVE Doubled[k + 1] \in Nat
    OBVIOUS
  <2>1. k \in 0..FailureCap /\ (k + 1) - 1 = k /\ k + 1 # 0
    BY <1>3
  <2>2. Doubled[k + 1] = 2 * Doubled[k]
    BY <1>7, <2>1
  <2> QED
    BY <1>9, <2>1, <2>2
<1>10. Nat \subseteq T
  <2> HIDE DEF T
  <2> QED
    BY <1>8, <1>9, Reaches
<1> QED
  BY <1>3, <1>10

Bases == {BaseCooldown, DialBaseCooldown}
Maxima == {MaxCooldown, DialMaxCooldown}

LEMMA FailedIsState ==
  ASSUME NEW base \in Bases, NEW max \in Maxima, NEW f \in FailureStates(max)
  PROVE  Failed(f, base, max) \in FailureStates(max)
<1>1. /\ base \in Nat /\ max \in Nat /\ FailureCap \in Nat
      /\ f.failures \in 0..FailureCap /\ f.cooldown \in 0..max
  BY TimesAssumption DEF Bases, Maxima, FailureStates
<1> DEFINE d == Doubled[f.failures]
           b == base * d
<1>2. d \in Nat
  BY <1>1, DoubledIsPositive
<1> HIDE DEF d
<1>3. b \in Nat
  BY <1>1, <1>2
<1> HIDE DEF b
<1>4. Least(b, max) \in 0..max /\ Least(f.failures + 1, FailureCap) \in 0..FailureCap
  BY <1>1, <1>3 DEF Least
<1>5. Failed(f, base, max) = [failures |-> Least(f.failures + 1, FailureCap), cooldown |-> Least(b, max)]
  BY DEF Failed, b, d
<1> QED
  BY <1>4, <1>5 DEF FailureStates

(***************************************************************************)
(* The state of the router: what each record holds, that queries belong to *)
(* whoever waits for them, and how long a list has waited.                 *)
(***************************************************************************)
Entries == [peer : Peers, manifest : Manifests, age : 0..CacheTTL]
Discoveries == {None} \cup [phase : {"connect", "search", "query"}, tries : Nat]
Queries ==
    {None} \cup [phase : {"dial"}, attempt : 1..MaxAttempts, manifest : Manifests \cup {Down}]
           \cup [phase : {"read"}, attempt : 1..MaxAttempts, manifest : Manifests]
Lists ==
    {None} \cup [phase : {"race", "pause"}, timer : Nat, left : Nat, elapsed : Nat,
                 stable : Nat, last : Nat]
Calls ==
    {None} \cup [phase : {"refresh", "refreshed", "providers"}, name : CallNames, token : BOOLEAN]
           \cup [phase : {"auth", "manifest", "token"}, peer : Peers, token : BOOLEAN]
           \cup [phase : {"sent"}, token : BOOLEAN]

CacheOK(c) == c \in Seq(Entries) /\ \A i, j \in DOMAIN c : c[i].peer = c[j].peer => i = j

DiscoveryOwns(d, q) == d.phase = "query" <=> \E p \in Peers : q[<<"discovery", p>>] # None
CallOwns(c, q) == \A p \in Peers : q[<<"call", p>>] # None => c.phase = "manifest" /\ c.peer = p

WaitsWithin(l) ==
    l # None =>
        /\ l.left = 0 \/ l.elapsed + l.left = ListTimeout
        /\ l.phase = "race" => l.elapsed + l.timer < ListTimeout + RaceWait
        /\ l.phase = "pause" => l.elapsed + l.timer < ListTimeout + RaceWait + Pause

StateOK ==
    /\ world \in [Peers -> [serves : Manifests \cup {Down}, linked : BOOLEAN]]
    /\ CacheOK(cache)
    /\ failure \in [Peers -> FailureStates(MaxCooldown)]
    /\ dial \in [Peers -> FailureStates(DialMaxCooldown)]
    /\ discovery \in Discoveries
    /\ query \in [Askers \X Peers -> Queries]
    /\ listing \in Lists
    /\ call \in Calls

RouterInv ==
    /\ StateOK
    /\ DiscoveryOwns(discovery, query)
    /\ CallOwns(call, query)
    /\ WaitsWithin(listing)

LEMMA QueryIs ==
  ASSUME NEW q \in Queries
  PROVE  /\ q.phase \in {"none", "dial", "read"}
         /\ q.phase = "none" <=> q = None
         /\ q.phase = "dial" => q \in [phase : {"dial"}, attempt : 1..MaxAttempts, manifest : Manifests \cup {Down}]
         /\ q.phase = "read" => q \in [phase : {"read"}, attempt : 1..MaxAttempts, manifest : Manifests]
BY DEF Queries, None

LEMMA DiscoveryIs ==
  ASSUME NEW d \in Discoveries
  PROVE  /\ d.phase \in {"none", "connect", "search", "query"}
         /\ d.phase = "none" <=> d = None
         /\ d # None => d \in [phase : {"connect", "search", "query"}, tries : Nat]
BY DEF Discoveries, None

LEMMA ListIs ==
  ASSUME NEW l \in Lists
  PROVE  /\ l.phase \in {"none", "race", "pause"}
         /\ l.phase = "none" <=> l = None
         /\ l # None => l \in [phase : {"race", "pause"}, timer : Nat, left : Nat, elapsed : Nat,
                               stable : Nat, last : Nat]
BY DEF Lists, None

LEMMA CallIs ==
  ASSUME NEW c \in Calls
  PROVE  /\ c.phase \in {"none", "refresh", "refreshed", "providers", "auth", "manifest", "token", "sent"}
         /\ c.phase = "none" <=> c = None
         /\ c.phase \in {"refresh", "refreshed", "providers"} =>
              c \in [phase : {"refresh", "refreshed", "providers"}, name : CallNames, token : BOOLEAN]
         /\ c.phase \in {"auth", "manifest", "token"} =>
              c \in [phase : {"auth", "manifest", "token"}, peer : Peers, token : BOOLEAN]
         /\ c.phase = "sent" => c \in [phase : {"sent"}, token : BOOLEAN]
BY DEF Calls, None

LEMMA RouterStarts ==
  ASSUME RouterInit
  PROVE  RouterInv
<1>1. StateOK
  <2>1. world \in [Peers -> [serves : Manifests \cup {Down}, linked : BOOLEAN]]
    BY PeersAssumption DEF RouterInit, Manifests
  <2>2. CacheOK(cache)
    BY DEF RouterInit, CacheOK
  <2>3. NoFailure \in FailureStates(MaxCooldown) /\ NoFailure \in FailureStates(DialMaxCooldown)
    BY TimesAssumption DEF NoFailure, FailureStates
  <2>4. None \in Discoveries /\ None \in Queries /\ None \in Lists /\ None \in Calls
    BY DEF Discoveries, Queries, Lists, Calls
  <2> QED
    BY <2>1, <2>2, <2>3, <2>4 DEF RouterInit, StateOK
<1>2. DiscoveryOwns(discovery, query)
  <2>1. discovery.phase # "query"
    BY DEF RouterInit, None
  <2>2. \A p \in Peers : query[<<"discovery", p>>] = None
    BY DEF RouterInit, Askers
  <2> QED
    BY <2>1, <2>2 DEF DiscoveryOwns
<1>3. CallOwns(call, query)
  BY DEF RouterInit, CallOwns, Askers
<1>4. WaitsWithin(listing)
  BY DEF RouterInit, WaitsWithin
<1> QED
  BY <1>1, <1>2, <1>3, <1>4 DEF RouterInv

LEMMA BegunIs == Begun \in Discoveries /\ Begun.phase \in {"connect", "search"}
<1>1. 0 \in Nat /\ ColdAttempts \in Nat /\ 1 \in Nat
  BY TimesAssumption
<1>2. ASSUME NEW phase \in {"connect", "search"}, NEW tries \in Nat
      PROVE  Running(phase, tries) \in Discoveries /\ Running(phase, tries).phase \in {"connect", "search"}
  BY DEF Running, Discoveries
<1> QED
  BY <1>1, <1>2 DEF Begun

LEMMA RefreshKeeps ==
  ASSUME RouterInv, NEW silent
  PROVE  /\ AfterRefresh(silent) \in Discoveries
         /\ DiscoveryOwns(AfterRefresh(silent), query)
<1>1. discovery \in Discoveries /\ DiscoveryOwns(discovery, query)
  BY DEF RouterInv, StateOK
<1>2. CASE AfterRefresh(silent) = discovery
  BY <1>1, <1>2
<1>3. CASE discovery = None /\ AfterRefresh(silent) = Begun
  <2>1. discovery.phase # "query"
    BY <1>3 DEF None
  <2>2. Begun.phase # "query"
    BY BegunIs
  <2> QED
    BY <1>1, <1>3, <2>1, <2>2, BegunIs DEF DiscoveryOwns
<1> QED
  BY <1>2, <1>3 DEF AfterRefresh

LEMMA BackgroundRefreshKeeps ==
  ASSUME RouterInv, BackgroundRefresh
  PROVE  RouterInv'
<1>1. discovery' \in Discoveries /\ DiscoveryOwns(discovery', query)
  BY RefreshKeeps DEF BackgroundRefresh
<1> QED
  BY <1>1 DEF BackgroundRefresh, RouterInv, StateOK

LEMMA EndedKeeps ==
  ASSUME RouterInv, Ended
  PROVE  /\ discovery' = None /\ None \in Discoveries
         /\ listing' \in Lists /\ WaitsWithin(listing')
         /\ call' \in Calls /\ \A q : CallOwns(call, q) => CallOwns(call', q)
<1>1. discovery' = None /\ None \in Discoveries
  BY DEF Ended, Discoveries
<1>2. listing' \in Lists /\ WaitsWithin(listing')
  <2>1. CASE listing.phase # "race"
    BY <2>1 DEF Ended, RouterInv, StateOK
  <2>2. CASE listing.phase = "race"
    <3>1. listing \in [phase : {"race", "pause"}, timer : Nat, left : Nat, elapsed : Nat,
                       stable : Nat, last : Nat] /\ listing # None
      BY <2>2, ListIs DEF RouterInv, StateOK
    <3>2. listing' = [listing EXCEPT !.timer = 0]
      BY <2>2 DEF Ended
    <3>3. /\ listing' \in [phase : {"race", "pause"}, timer : Nat, left : Nat, elapsed : Nat,
                           stable : Nat, last : Nat]
          /\ listing'.phase = "race" /\ listing'.timer = 0
          /\ listing'.left = listing.left /\ listing'.elapsed = listing.elapsed
      BY <2>2, <3>1, <3>2
    <3>4. ListTimeout \in Nat /\ RaceWait \in Nat
      BY TimesAssumption
    <3>5. WaitsWithin(listing')
      BY <2>2, <3>1, <3>3, <3>4 DEF RouterInv, WaitsWithin
    <3> QED
      BY <3>3, <3>5 DEF Lists
  <2> QED
    BY <2>1, <2>2
<1>3. call' \in Calls /\ \A q : CallOwns(call, q) => CallOwns(call', q)
  <2>1. CASE call.phase # "refresh"
    BY <2>1 DEF Ended, RouterInv, StateOK
  <2>2. CASE call.phase = "refresh"
    <3>1. call \in [phase : {"refresh", "refreshed", "providers"}, name : CallNames, token : BOOLEAN]
      BY <2>2, CallIs DEF RouterInv, StateOK
    <3>2. call' = [call EXCEPT !.phase = "refreshed"]
      BY <2>2 DEF Ended
    <3>3. call' \in [phase : {"refresh", "refreshed", "providers"}, name : CallNames, token : BOOLEAN]
      BY <3>1, <3>2
    <3>4. \A q : CallOwns(call, q) => CallOwns(call', q)
      BY <2>2 DEF CallOwns
    <3> QED
      BY <3>3, <3>4 DEF Calls
  <2> QED
    BY <2>1, <2>2
<1> QED
  BY <1>1, <1>2, <1>3

LEMMA ConnectPhaseEndsKeeps ==
  ASSUME RouterInv, ConnectPhaseEnds
  PROVE  RouterInv'
<1>1. discovery' \in Discoveries /\ discovery'.phase = "search"
  <2>1. ColdAttempts \in Nat /\ 1 \in Nat
    BY TimesAssumption
  <2>2. PICK tries \in Nat : discovery' = Running("search", tries)
    BY <2>1 DEF ConnectPhaseEnds
  <2> QED
    BY <2>2 DEF Running, Discoveries
<1>2. DiscoveryOwns(discovery', query)
  BY <1>1 DEF ConnectPhaseEnds, RouterInv, DiscoveryOwns
<1> QED
  BY <1>1, <1>2 DEF ConnectPhaseEnds, RouterInv, StateOK

LEMMA AskedIs == Asked \in Queries /\ Asked # None
<1>1. 1 \in 1..MaxAttempts
  BY TimesAssumption
<1> QED
  BY <1>1 DEF Asked, Queries, None

LEMMA StartQueriesKeeps ==
  ASSUME RouterInv, discovery.phase = "search", NEW ids \in SUBSET Peers, StartQueries(ids),
         UNCHANGED <<world, cache, dial>>
  PROVE  RouterInv'
<1> DEFINE ask == {p \in Eligible(ids) : dial[p].cooldown = 0}
           skipped == Eligible(ids) \ ask
<1>1. ask \subseteq Peers /\ skipped \subseteq Peers
  BY DEF Eligible
<1>2. query' = [q \in DOMAIN query |-> IF q[1] = "discovery" /\ q[2] \in ask THEN Asked ELSE query[q]]
  BY DEF StartQueries
<1>3. failure' = [p \in Peers |-> IF p \in skipped THEN Failed(failure[p], BaseCooldown, MaxCooldown)
                                 ELSE failure[p]]
  BY DEF StartQueries
<1>4. \/ ask = {} /\ Ended
      \/ ask # {} /\ discovery' = Running("query", 0) /\ UNCHANGED <<listing, call>>
  BY DEF StartQueries
<1> HIDE DEF ask, skipped
<1>5. query \in [Askers \X Peers -> Queries] /\ DiscoveryOwns(discovery, query) /\ CallOwns(call, query)
      /\ failure \in [Peers -> FailureStates(MaxCooldown)]
  BY DEF RouterInv, StateOK
<1>6. /\ query' \in [Askers \X Peers -> Queries]
      /\ \A p \in Peers : query'[<<"call", p>>] = query[<<"call", p>>]
      /\ \A p \in Peers : query'[<<"discovery", p>>] = IF p \in ask THEN Asked ELSE query[<<"discovery", p>>]
  <2>1. query' \in [Askers \X Peers -> Queries]
    BY <1>2, <1>5, AskedIs
  <2>2. ASSUME NEW p \in Peers
        PROVE  /\ query'[<<"call", p>>] = query[<<"call", p>>]
               /\ query'[<<"discovery", p>>] = IF p \in ask THEN Asked ELSE query[<<"discovery", p>>]
    <3>1. <<"call", p>> \in DOMAIN query /\ <<"discovery", p>> \in DOMAIN query
      BY <1>5 DEF Askers
    <3> QED
      BY <1>2, <3>1
  <2> QED
    BY <2>1, <2>2
<1>7. failure' \in [Peers -> FailureStates(MaxCooldown)]
  <2>1. \A p \in Peers : Failed(failure[p], BaseCooldown, MaxCooldown) \in FailureStates(MaxCooldown)
    BY <1>5, FailedIsState DEF Bases, Maxima
  <2> QED
    BY <1>3, <1>5, <2>1
<1>8. CallOwns(call, query')
  BY <1>5, <1>6 DEF CallOwns
<1>9. \A p \in Peers : query[<<"discovery", p>>] = None
  BY <1>5 DEF DiscoveryOwns
<1>10. CASE ask = {} /\ Ended
  <2>1. \A p \in Peers : query'[<<"discovery", p>>] = None
    BY <1>6, <1>9, <1>10
  <2>2. DiscoveryOwns(None, query')
    BY <2>1 DEF DiscoveryOwns, None
  <2>3. /\ discovery' = None /\ None \in Discoveries
        /\ listing' \in Lists /\ WaitsWithin(listing')
        /\ call' \in Calls /\ \A q : CallOwns(call, q) => CallOwns(call', q)
    BY <1>10, EndedKeeps
  <2>4. CallOwns(call', query')
    BY <1>8, <2>3
  <2> QED
    BY <1>6, <1>7, <2>2, <2>3, <2>4 DEF RouterInv, StateOK
<1>11. CASE ask # {} /\ discovery' = Running("query", 0) /\ UNCHANGED <<listing, call>>
  <2>1. discovery' \in Discoveries /\ discovery'.phase = "query"
    BY <1>11 DEF Running, Discoveries
  <2>2. DiscoveryOwns(discovery', query')
    BY <1>1, <1>6, <1>11, <2>1, AskedIs DEF DiscoveryOwns
  <2> QED
    BY <1>6, <1>7, <1>8, <1>11, <2>1, <2>2 DEF RouterInv, StateOK
<1> QED
  BY <1>4, <1>10, <1>11

LEMMA SearchKeeps ==
  ASSUME RouterInv, NEW found \in SUBSET Peers, Search(found)
  PROVE  RouterInv'
<1>1. discovery \in [phase : {"connect", "search", "query"}, tries : Nat] /\ discovery.phase = "search"
  BY DiscoveryIs DEF Search, RouterInv, StateOK, None
<1>2. CASE discovery.tries > 1 /\ discovery' = [discovery EXCEPT !.tries = @ - 1]
           /\ UNCHANGED <<query, failure, listing, call>>
  <2>1. discovery' \in [phase : {"connect", "search", "query"}, tries : Nat] /\ discovery'.phase = "search"
    BY <1>1, <1>2
  <2>2. DiscoveryOwns(discovery', query)
    BY <1>1, <2>1 DEF RouterInv, DiscoveryOwns
  <2> QED
    BY <1>2, <2>1, <2>2 DEF RouterInv, StateOK, Search, Discoveries
<1>3. CASE Ended /\ UNCHANGED <<query, failure>>
  <2>1. DiscoveryOwns(None, query)
    BY <1>1 DEF RouterInv, DiscoveryOwns, None
  <2>2. /\ discovery' = None /\ None \in Discoveries
        /\ listing' \in Lists /\ WaitsWithin(listing')
        /\ call' \in Calls /\ CallOwns(call', query)
    BY <1>3, EndedKeeps DEF RouterInv
  <2> QED
    BY <1>3, <2>1, <2>2 DEF RouterInv, StateOK, Search
<1>4. CASE StartQueries(found \cup Connected)
  <2>1. found \cup Connected \in SUBSET Peers
    BY DEF Connected
  <2> QED
    BY <1>1, <1>4, <2>1, StartQueriesKeeps DEF Search
<1> QED
  BY <1>2, <1>3, <1>4 DEF Search

(***************************************************************************)
(* Queries.                                                                *)
(***************************************************************************)
LEMMA Written ==
  ASSUME RouterInv, NEW w \in Askers, NEW p \in Peers, NEW v \in Queries,
         query' = [query EXCEPT ![<<w, p>>] = v]
  PROVE  /\ query' \in [Askers \X Peers -> Queries]
         /\ query'[<<w, p>>] = v
         /\ \A u \in Askers, r \in Peers : u # w \/ r # p => query'[<<u, r>>] = query[<<u, r>>]
<1>1. query \in [Askers \X Peers -> Queries]
  BY DEF RouterInv, StateOK
<1> QED
  BY <1>1

LEMMA StillAsked ==
  ASSUME RouterInv, NEW w \in Askers, NEW p \in Peers, NEW v \in Queries, v # None,
         query[<<w, p>>] # None, query' = [query EXCEPT ![<<w, p>>] = v]
  PROVE  /\ query' \in [Askers \X Peers -> Queries]
         /\ DiscoveryOwns(discovery, query') /\ CallOwns(call, query')
<1>1. \A u \in Askers, r \in Peers : query'[<<u, r>>] # None <=> query[<<u, r>>] # None
  BY Written
<1>2. DiscoveryOwns(discovery, query) /\ CallOwns(call, query) /\ {"call", "discovery"} = Askers
  BY DEF RouterInv, Askers
<1>3. DiscoveryOwns(discovery, query')
  BY <1>1, <1>2 DEF DiscoveryOwns
<1>4. CallOwns(call, query')
  BY <1>1, <1>2 DEF CallOwns
<1> QED
  BY <1>3, <1>4, Written

LEMMA SettledKeeps ==
  ASSUME RouterInv, NEW w \in Askers, NEW p \in Peers, query[<<w, p>>] # None,
         query' = [query EXCEPT ![<<w, p>>] = None], Settled(w, p)
  PROVE  /\ query' \in [Askers \X Peers -> Queries]
         /\ discovery' \in Discoveries /\ DiscoveryOwns(discovery', query')
         /\ listing' \in Lists /\ WaitsWithin(listing')
         /\ call' \in Calls /\ CallOwns(call', query')
<1>1. None \in Queries
  BY DEF Queries
<1>2. /\ query' \in [Askers \X Peers -> Queries]
      /\ query'[<<w, p>>] = None
      /\ \A u \in Askers, r \in Peers : u # w \/ r # p => query'[<<u, r>>] = query[<<u, r>>]
  BY <1>1, Written
<1>3. /\ DiscoveryOwns(discovery, query) /\ CallOwns(call, query) /\ "call" \in Askers /\ "discovery" \in Askers
      /\ discovery \in Discoveries /\ listing \in Lists /\ WaitsWithin(listing) /\ call \in Calls
  BY DEF RouterInv, StateOK, Askers
<1>4. CASE w = "call"
  <2>1. call' = [call EXCEPT !.phase = "token"] /\ UNCHANGED <<discovery, listing>>
    BY <1>4, Zenon DEF Settled
  <2>2. call.phase = "manifest" /\ call.peer = p
    BY <1>3, <1>4 DEF CallOwns
  <2>3. call \in [phase : {"auth", "manifest", "token"}, peer : Peers, token : BOOLEAN]
    BY <1>3, <2>2, CallIs
  <2>4. call' \in [phase : {"auth", "manifest", "token"}, peer : Peers, token : BOOLEAN]
    BY <2>1, <2>3
  <2>5. \A r \in Peers : query'[<<"call", r>>] = None
    BY <1>2, <1>3, <1>4, <2>2 DEF CallOwns
  <2>6. DiscoveryOwns(discovery, query')
    BY <1>2, <1>3, <1>4 DEF DiscoveryOwns
  <2> QED
    BY <1>2, <1>3, <2>1, <2>4, <2>5, <2>6 DEF Calls, CallOwns
<1>5. CASE w = "discovery"
  <2>1. CallOwns(call, query')
    BY <1>2, <1>3, <1>5 DEF CallOwns
  <2>2. CASE Others(p)
    <3>1. UNCHANGED <<call, discovery, listing>>
      BY <1>5, <2>2, Zenon DEF Settled
    <3>2. DiscoveryOwns(discovery, query')
      BY <1>2, <1>3, <1>5, <2>2 DEF DiscoveryOwns, Others
    <3> QED
      BY <1>2, <1>3, <2>1, <3>1, <3>2
  <2>3. CASE ~Others(p)
    <3>1. w # "call"
      BY <1>5
    <3>2. Ended
      BY <3>1, <2>3, Zenon DEF Settled
    <3>3. \A r \in Peers : query'[<<"discovery", r>>] = None
      BY <1>2, <1>3, <1>5, <2>3 DEF Others
    <3>4. DiscoveryOwns(None, query')
      BY <3>3 DEF DiscoveryOwns, None
    <3>5. /\ discovery' = None /\ None \in Discoveries
          /\ listing' \in Lists /\ WaitsWithin(listing')
          /\ call' \in Calls /\ \A q : CallOwns(call, q) => CallOwns(call', q)
      BY <3>2, EndedKeeps
    <3> QED
      BY <1>2, <2>1, <3>4, <3>5
  <2> QED
    BY <2>2, <2>3
<1> QED
  BY <1>4, <1>5 DEF Askers

LEMMA FailureRecorded ==
  ASSUME RouterInv, NEW p \in Peers
  PROVE  /\ recordManifestQueryFailure(p) => failure' \in [Peers -> FailureStates(MaxCooldown)]
         /\ recordManifestDialFailure(p) => dial' \in [Peers -> FailureStates(DialMaxCooldown)]
<1>1. /\ failure \in [Peers -> FailureStates(MaxCooldown)]
      /\ dial \in [Peers -> FailureStates(DialMaxCooldown)]
  BY DEF RouterInv, StateOK
<1>2. /\ Failed(failure[p], BaseCooldown, MaxCooldown) \in FailureStates(MaxCooldown)
      /\ Failed(dial[p], DialBaseCooldown, DialMaxCooldown) \in FailureStates(DialMaxCooldown)
  BY <1>1, FailedIsState DEF Bases, Maxima
<1> QED
  BY <1>1, <1>2 DEF recordManifestQueryFailure, recordManifestDialFailure

LEMMA DialSucceedsKeeps ==
  ASSUME RouterInv, NEW w \in Askers, NEW p \in Peers, DialSucceeds(w, p)
  PROVE  RouterInv'
<1>1. /\ world \in [Peers -> [serves : Manifests \cup {Down}, linked : BOOLEAN]]
      /\ query \in [Askers \X Peers -> Queries] /\ query[<<w, p>>].phase = "dial"
  BY DEF RouterInv, StateOK, DialSucceeds
<1> DEFINE v == [query[<<w, p>>] EXCEPT !.phase = "read", !.manifest = world[p].serves]
<1>2. v \in [phase : {"read"}, attempt : 1..MaxAttempts, manifest : Manifests]
  <2>1. query[<<w, p>>] \in [phase : {"dial"}, attempt : 1..MaxAttempts, manifest : Manifests \cup {Down}]
    BY <1>1, QueryIs
  <2>2. world[p].serves \in Manifests
    BY <1>1 DEF DialSucceeds
  <2> QED
    BY <2>1, <2>2
<1>3. v \in Queries /\ v # None
  BY <1>2 DEF Queries, None
<1>4. query' = [query EXCEPT ![<<w, p>>] = v]
  BY <1>1 DEF DialSucceeds
<1>5. query[<<w, p>>] # None
  BY <1>1 DEF None
<1> HIDE DEF v
<1>6. query' \in [Askers \X Peers -> Queries] /\ DiscoveryOwns(discovery, query') /\ CallOwns(call, query')
  BY <1>3, <1>4, <1>5, StillAsked
<1>7. world' \in [Peers -> [serves : Manifests \cup {Down}, linked : BOOLEAN]]
  BY <1>1 DEF DialSucceeds
<1> QED
  BY <1>6, <1>7 DEF DialSucceeds, RouterInv, StateOK

\* What a failed dial or read does to everything but the record of the mesh node.
FailsOnce(w, p) ==
    /\ query[<<w, p>>].phase \in {"dial", "read"}
    /\ Retry(w, p) \/ Unanswered(w, p)
    /\ UNCHANGED world

LEMMA FailureKeeps ==
  ASSUME RouterInv, NEW w \in Askers, NEW p \in Peers, FailsOnce(w, p),
         dial' \in [Peers -> FailureStates(DialMaxCooldown)]
  PROVE  RouterInv'
<1> DEFINE q == query[<<w, p>>]
<1>1. query \in [Askers \X Peers -> Queries] /\ q \in Queries /\ q.phase # "none" /\ q # None
  BY DEF RouterInv, StateOK, FailsOnce, None
<1>2. CASE Retry(w, p)
  <2> DEFINE v == [phase |-> "dial", attempt |-> q.attempt + 1, manifest |-> Down]
  <2>1. q.attempt \in 1..MaxAttempts /\ q.attempt < MaxAttempts /\ MaxAttempts \in Nat
    BY <1>1, <1>2, QueryIs, TimesAssumption DEF Retry
  <2>2. v \in Queries /\ v # None
    <3>1. q.attempt + 1 \in 1..MaxAttempts
      BY <2>1
    <3> QED
      BY <3>1 DEF Queries, None
  <2>3. query' = [query EXCEPT ![<<w, p>>] = v]
    BY <1>1, <1>2 DEF Retry
  <2> HIDE DEF v
  <2>4. query' \in [Askers \X Peers -> Queries] /\ DiscoveryOwns(discovery, query') /\ CallOwns(call, query')
    BY <1>1, <2>2, <2>3, StillAsked
  <2> QED
    BY <1>2, <2>4 DEF Retry, FailsOnce, RouterInv, StateOK
<1>3. CASE Unanswered(w, p)
  <2>1. query' = [query EXCEPT ![<<w, p>>] = None] /\ Settled(w, p) /\ UNCHANGED cache
    BY <1>3 DEF Unanswered
  <2>2. failure' \in [Peers -> FailureStates(MaxCooldown)]
    <3>1. failure' = failure \/ recordManifestQueryFailure(p)
      BY <1>3 DEF Unanswered
    <3>2. failure \in [Peers -> FailureStates(MaxCooldown)]
      BY DEF RouterInv, StateOK
    <3> QED
      BY <3>1, <3>2, FailureRecorded
  <2>3. /\ query' \in [Askers \X Peers -> Queries]
        /\ discovery' \in Discoveries /\ DiscoveryOwns(discovery', query')
        /\ listing' \in Lists /\ WaitsWithin(listing')
        /\ call' \in Calls /\ CallOwns(call', query')
    BY <1>1, <2>1, SettledKeeps
  <2> QED
    BY <2>1, <2>2, <2>3 DEF FailsOnce, RouterInv, StateOK
<1> QED
  BY <1>2, <1>3 DEF FailsOnce

LEMMA DialFailsKeeps ==
  ASSUME RouterInv, NEW w \in Askers, NEW p \in Peers, DialFails(w, p)
  PROVE  RouterInv'
<1>1. FailsOnce(w, p)
  BY DEF DialFails, FailsOnce
<1>2. dial' \in [Peers -> FailureStates(DialMaxCooldown)]
  BY DEF DialFails, RouterInv, StateOK
<1> QED
  BY <1>1, <1>2, FailureKeeps

LEMMA ReadFailsKeeps ==
  ASSUME RouterInv, NEW w \in Askers, NEW p \in Peers, ReadFails(w, p)
  PROVE  RouterInv'
<1>1. FailsOnce(w, p)
  BY DEF ReadFails, FailsOnce
<1>2. dial' = dial \/ recordManifestDialFailure(p)
  BY DEF ReadFails
<1>3. dial' \in [Peers -> FailureStates(DialMaxCooldown)]
  BY <1>2, FailureRecorded DEF RouterInv, StateOK
<1> QED
  BY <1>1, <1>3, FailureKeeps

LEMMA StoredIsCache ==
  ASSUME NEW c, CacheOK(c), NEW p \in Peers, NEW m \in Manifests
  PROVE  CacheOK(Stored(c, p, m))
<1> DEFINE e == [peer |-> p, manifest |-> m, age |-> 0]
<1>1. e \in Entries /\ e.peer = p
  BY TimesAssumption DEF Entries
<1>2. c \in Seq(Entries) /\ DOMAIN c = 1..Len(c) /\ Len(c) \in Nat
  BY DEF CacheOK
<1>3. \A i \in DOMAIN c : c[i] \in Entries
  BY <1>2
<1>4. Stored(c, p, m) = IF IsCached(c, p) THEN [i \in DOMAIN c |-> IF c[i].peer = p THEN e ELSE c[i]]
                        ELSE Append(c, e)
  BY DEF Stored
<1> HIDE DEF e
<1>5. CASE IsCached(c, p)
  <2> DEFINE d == [i \in 1..Len(c) |-> IF c[i].peer = p THEN e ELSE c[i]]
  <2>1. d \in [1..Len(c) -> Entries]
    BY <1>1, <1>2, <1>3
  <2>2. d \in Seq(Entries) /\ DOMAIN d = 1..Len(c)
    BY <1>2, <2>1
  <2>3. \A i \in 1..Len(c) : d[i].peer = c[i].peer
    BY <1>1
  <2> HIDE DEF d
  <2>4. CacheOK(d)
    BY <1>2, <2>2, <2>3 DEF CacheOK
  <2> QED
    BY <1>2, <1>4, <1>5, <2>4 DEF d
<1>6. CASE ~IsCached(c, p)
  <2> DEFINE d == Append(c, e)
  <2>1. d \in Seq(Entries) /\ DOMAIN d = 1..(Len(c) + 1) /\ d[Len(c) + 1] = e
        /\ \A i \in 1..Len(c) : d[i] = c[i]
    BY <1>1, <1>2
  <2>2. \A i \in 1..Len(c) : c[i].peer # p
    BY <1>2, <1>6 DEF IsCached, Positions
  <2> HIDE DEF d
  <2>3. ASSUME NEW i \in DOMAIN d, NEW j \in DOMAIN d, d[i].peer = d[j].peer
        PROVE  i = j
    <3>1. (i \in 1..Len(c) \/ i = Len(c) + 1) /\ (j \in 1..Len(c) \/ j = Len(c) + 1)
      BY <1>2, <2>1
    <3> QED
      BY <1>1, <1>2, <2>1, <2>2, <2>3, <3>1 DEF CacheOK
  <2> QED
    BY <1>4, <1>6, <2>1, <2>3 DEF CacheOK, d
<1> QED
  BY <1>5, <1>6

LEMMA ReadSucceedsKeeps ==
  ASSUME RouterInv, NEW w \in Askers, NEW p \in Peers, ReadSucceeds(w, p)
  PROVE  RouterInv'
<1> DEFINE m == query[<<w, p>>].manifest
<1>1. query[<<w, p>>] \in Queries /\ query[<<w, p>>].phase = "read"
  BY DEF RouterInv, StateOK, ReadSucceeds
<1>2. m \in Manifests /\ query[<<w, p>>] # None
  BY <1>1, QueryIs DEF None
<1>3. /\ dial' = [dial EXCEPT ![p] = NoFailure]
      /\ query' = [query EXCEPT ![<<w, p>>] = None]
      /\ Settled(w, p)
      /\ UNCHANGED world
  BY DEF ReadSucceeds
<1>4. \/ /\ cache' = Stored(cache, p, m)
         /\ failure' = [failure EXCEPT ![p] = NoFailure] \/ failure' = failure
      \/ recordManifestQueryFailure(p) /\ cache' = cache
  BY DEF ReadSucceeds
<1> HIDE DEF m
<1>5. NoFailure \in FailureStates(MaxCooldown) /\ NoFailure \in FailureStates(DialMaxCooldown)
  BY TimesAssumption DEF NoFailure, FailureStates
<1>6. /\ CacheOK(cache) /\ failure \in [Peers -> FailureStates(MaxCooldown)]
      /\ dial \in [Peers -> FailureStates(DialMaxCooldown)]
  BY DEF RouterInv, StateOK
<1>7. CacheOK(cache')
  BY <1>2, <1>4, <1>6, StoredIsCache
<1>8. failure' \in [Peers -> FailureStates(MaxCooldown)]
  BY <1>4, <1>5, <1>6, FailureRecorded
<1>9. dial' \in [Peers -> FailureStates(DialMaxCooldown)]
  BY <1>3, <1>5, <1>6
<1>10. /\ query' \in [Askers \X Peers -> Queries]
       /\ discovery' \in Discoveries /\ DiscoveryOwns(discovery', query')
       /\ listing' \in Lists /\ WaitsWithin(listing')
       /\ call' \in Calls /\ CallOwns(call', query')
  BY <1>2, <1>3, SettledKeeps
<1> QED
  BY <1>3, <1>7, <1>8, <1>9, <1>10 DEF RouterInv, StateOK

(***************************************************************************)
(* What names mean.                                                        *)
(***************************************************************************)
LEMMA LeastIs ==
  ASSUME NEW I, I \subseteq Nat, I # {}
  PROVE  Min(I) \in I /\ \A i \in I : Min(I) <= i
<1> DEFINE R == {ij \in Nat \X Nat : ij[1] < ij[2]}
<1>1. IsWellFoundedOn(R, Nat)
  BY NatLessThanWellFounded DEF OpToRel, IsWellFoundedOn
<1>2. PICK d \in I : \A e \in I : <<e, d>> \notin R
  BY <1>1, WFMin
<1>3. ASSUME NEW e \in I PROVE d <= e
  <2>1. e \in Nat /\ d \in Nat /\ <<e, d>> \notin R
    BY <1>2
  <2>2. ~(e < d)
    BY <2>1
  <2> QED
    BY <2>1, <2>2
<1> HIDE DEF R
<1> QED
  BY <1>2, <1>3 DEF Min

FirstOf(I) == IF I # {} THEN Min(I) ELSE 0
Meaning(m, n) == {j \in 1..Len(m.tools) : m.tools[j] = n \/ m.tools[j] = Canonical(n)}
Offering(c, n) == {i \in 1..Len(c) : Meaning(c[i].manifest, n) # {}}
Ending(c, n) == {i \in 1..Len(c) : Last(n) \in EndsIn[c[i].peer] /\ Meaning(c[i].manifest, Front(n)) # {}}

LEMMA ToolNamedIs ==
  ASSUME NEW m, NEW n
  PROVE  /\ ToolNamed(m, n) = FirstOf(Meaning(m, n))
         /\ Len(m.tools) \in Nat => (ToolNamed(m, n) > 0 <=> Meaning(m, n) # {})
         /\ Meaning(m, n) # {} => ToolNamed(m, n) \in Meaning(m, n)
<1>1. ToolNamed(m, n) = FirstOf(Meaning(m, n))
  BY DEF ToolNamed, SelectInSeq, FirstOf, Meaning
<1>2. CASE Meaning(m, n) = {}
  BY <1>1, <1>2 DEF FirstOf
<1>3. CASE Meaning(m, n) # {}
  <2>1. Meaning(m, n) \subseteq Nat /\ \A j \in Meaning(m, n) : j > 0
    BY DEF Meaning
  <2>2. ToolNamed(m, n) \in Meaning(m, n)
    BY <1>1, <1>3, <2>1, LeastIs DEF FirstOf
  <2> QED
    BY <1>1, <1>3, <2>1, <2>2
<1> QED
  BY <1>1, <1>2, <1>3

LEMMA ResolvedIs ==
  ASSUME NEW c, CacheOK(c), NEW n
  PROVE  /\ Offering(c, n) # {} =>
               Resolved(c, n) = Target(c[Min(Offering(c, n))], n)
         /\ Offering(c, n) = {} /\ Len(n) > 1 /\ Ending(c, n) # {} =>
               Resolved(c, n) = Target(c[Min(Ending(c, n))], Front(n))
         /\ Offering(c, n) = {} /\ ~(Len(n) > 1 /\ Ending(c, n) # {}) =>
               Resolved(c, n) = NoTarget
<1> DEFINE exact == SelectInSeq(c, LAMBDA e : ToolNamed(e.manifest, n) > 0)
           suffixed == IF Len(n) > 1
                       THEN SelectInSeq(c, LAMBDA e : /\ Last(n) \in EndsIn[e.peer]
                                                      /\ ToolNamed(e.manifest, Front(n)) > 0)
                       ELSE 0
<1>1. \A i \in 1..Len(c) : c[i] \in Entries
  BY DEF CacheOK
<1>2. \A i \in 1..Len(c) : Len(c[i].manifest.tools) \in Nat
  <2>1. \A m \in Manifests : m.tools \in Seq(Seq(STRING) \ {<<>>})
    BY PeersAssumption DEF Manifests
  <2> QED
    BY <1>1, <2>1 DEF Entries
<1>3. exact = FirstOf(Offering(c, n))
  <2>1. Offering(c, n) = {i \in 1..Len(c) : ToolNamed(c[i].manifest, n) > 0}
    BY <1>2, ToolNamedIs DEF Offering
  <2> QED
    BY <2>1 DEF SelectInSeq, FirstOf
<1>4. suffixed = IF Len(n) > 1 THEN FirstOf(Ending(c, n)) ELSE 0
  <2>1. Ending(c, n) = {i \in 1..Len(c) : /\ Last(n) \in EndsIn[c[i].peer]
                                          /\ ToolNamed(c[i].manifest, Front(n)) > 0}
    BY <1>2, ToolNamedIs DEF Ending
  <2> QED
    BY <2>1 DEF SelectInSeq, FirstOf
<1>5. Resolved(c, n) = CASE exact > 0 -> Target(c[exact], n)
                         [] exact = 0 /\ suffixed > 0 -> Target(c[suffixed], Front(n))
                         [] OTHER -> NoTarget
  BY DEF Resolved
<1> HIDE DEF exact, suffixed
<1>6. ASSUME NEW I \in SUBSET (1..Len(c))
      PROVE  /\ I # {} => FirstOf(I) > 0 /\ FirstOf(I) # 0 /\ FirstOf(I) = Min(I)
             /\ I = {} => FirstOf(I) = 0
  <2>1. I \subseteq Nat /\ \A i \in I : i > 0
    OBVIOUS
  <2>2. CASE I # {}
    <3>1. Min(I) \in I
      BY <2>1, <2>2, LeastIs
    <3>2. Min(I) > 0 /\ Min(I) # 0
      <4>1. \A k \in I : k > 0 /\ k # 0
        BY <2>1
      <4> QED
        BY <3>1, <4>1
    <3> QED
      BY <2>2, <3>2 DEF FirstOf
  <2>3. CASE I = {}
    BY <2>3 DEF FirstOf
  <2> QED
    BY <2>2, <2>3
<1>7. Offering(c, n) \in SUBSET (1..Len(c)) /\ Ending(c, n) \in SUBSET (1..Len(c))
  BY DEF Offering, Ending
<1>8. ~(0 > 0)
  OBVIOUS
<1>9. CASE Offering(c, n) # {}
  <2>1. exact > 0 /\ exact # 0 /\ exact = Min(Offering(c, n))
    BY <1>3, <1>6, <1>7, <1>9
  <2> QED
    BY <1>5, <1>9, <2>1, Zenon
<1>10. CASE Offering(c, n) = {} /\ Len(n) > 1 /\ Ending(c, n) # {}
  <2>1. exact = 0 /\ suffixed > 0 /\ suffixed = Min(Ending(c, n))
    BY <1>3, <1>4, <1>6, <1>7, <1>10
  <2> QED
    BY <1>5, <1>8, <1>10, <2>1, Zenon
<1>11. CASE Offering(c, n) = {} /\ ~(Len(n) > 1 /\ Ending(c, n) # {})
  <2>1. exact = 0 /\ suffixed = 0
    BY <1>3, <1>4, <1>6, <1>7, <1>11
  <2> QED
    BY <1>5, <1>8, <1>11, <2>1, Zenon
<1> QED
  BY <1>9, <1>10, <1>11

LEMMA TargetIsPeer ==
  ASSUME NEW c, CacheOK(c), NEW n, Resolved(c, n) # NoTarget
  PROVE  Resolved(c, n).peer \in Peers
<1>1. ASSUME NEW I \in SUBSET (1..Len(c)), I # {}
      PROVE  c[Min(I)].peer \in Peers
  <2>1. I \subseteq Nat
    OBVIOUS
  <2>2. Min(I) \in 1..Len(c)
    BY <1>1, <2>1, LeastIs
  <2>3. c \in Seq(Entries)
    BY DEF CacheOK
  <2>4. c[Min(I)] \in Entries
    BY <2>2, <2>3
  <2> QED
    BY <2>4 DEF Entries
<1>2. Offering(c, n) \in SUBSET (1..Len(c)) /\ Ending(c, n) \in SUBSET (1..Len(c))
  BY DEF Offering, Ending
<1>3. CASE Offering(c, n) # {}
  <2>1. Resolved(c, n) = Target(c[Min(Offering(c, n))], n)
    BY <1>3, ResolvedIs
  <2> QED
    BY <1>1, <1>2, <1>3, <2>1 DEF Target
<1>4. CASE Offering(c, n) = {}
  <2>1. Ending(c, n) # {} /\ Resolved(c, n) = Target(c[Min(Ending(c, n))], Front(n))
    BY <1>4, ResolvedIs
  <2> QED
    BY <1>1, <1>2, <2>1 DEF Target
<1> QED
  BY <1>3, <1>4

(***************************************************************************)
(* Calls.                                                                  *)
(***************************************************************************)
LEMMA WaitingIs ==
  ASSUME NEW n \in CallNames, NEW token \in BOOLEAN, NEW phase \in {"refresh", "refreshed", "providers"}
  PROVE  Waiting(phase, n, token) \in Calls /\ Waiting(phase, n, token).phase # "manifest"
BY DEF Waiting, Calls

LEMMA RoutedIs ==
  ASSUME NEW p \in Peers, NEW token \in BOOLEAN, NEW phase \in {"auth", "manifest", "token"}
  PROVE  /\ Routed(phase, p, token) \in Calls
         /\ Routed(phase, p, token).phase = phase /\ Routed(phase, p, token).peer = p
BY DEF Routed, Calls

LEMMA RouteKeeps ==
  ASSUME RouterInv, call.phase # "manifest", NEW p \in Peers, NEW token \in BOOLEAN,
         RouteToRemoteProvider(p, token)
  PROVE  /\ call' \in Calls /\ query' \in [Askers \X Peers -> Queries]
         /\ CallOwns(call', query')
         /\ \A d : DiscoveryOwns(d, query) => DiscoveryOwns(d, query')
<1>1. /\ query \in [Askers \X Peers -> Queries]
      /\ \A r \in Peers : query[<<"call", r>>] = None
  BY DEF RouterInv, StateOK, CallOwns
<1>2. CASE call' = Routed("token", p, token) /\ UNCHANGED query
  <2>1. CallOwns(call', query)
    BY <1>1 DEF CallOwns
  <2> QED
    BY <1>1, <1>2, <2>1, RoutedIs
<1>3. CASE call' = Routed("manifest", p, token) /\ query' = [query EXCEPT ![<<"call", p>>] = Asked]
  <2>1. "call" \in Askers /\ "discovery" \in Askers /\ "call" # "discovery"
    BY DEF Askers
  <2>2. /\ query' \in [Askers \X Peers -> Queries]
        /\ query'[<<"call", p>>] = Asked
        /\ \A u \in Askers, r \in Peers : u # "call" \/ r # p => query'[<<u, r>>] = query[<<u, r>>]
    BY <1>3, <2>1, AskedIs, Written
  <2>3. call' \in Calls /\ call'.phase = "manifest" /\ call'.peer = p
    BY <1>3, RoutedIs
  <2>4. CallOwns(call', query')
    BY <1>1, <2>1, <2>2, <2>3 DEF CallOwns
  <2>5. ASSUME NEW d, DiscoveryOwns(d, query) PROVE DiscoveryOwns(d, query')
    <3>1. \A r \in Peers : query'[<<"discovery", r>>] = query[<<"discovery", r>>]
      BY <2>1, <2>2
    <3> QED
      BY <2>5, <3>1 DEF DiscoveryOwns
  <2> QED
    BY <2>2, <2>3, <2>4, <2>5
<1> QED
  BY <1>2, <1>3 DEF RouteToRemoteProvider

LEMMA ToTargetKeeps ==
  ASSUME RouterInv, call.phase # "manifest", NEW p \in Peers, NEW token \in BOOLEAN,
         ToTarget(p, token)
  PROVE  /\ call' \in Calls /\ query' \in [Askers \X Peers -> Queries]
         /\ CallOwns(call', query')
         /\ \A d : DiscoveryOwns(d, query) => DiscoveryOwns(d, query')
<1>1. CASE RouteToRemoteProvider(p, token)
  BY <1>1, RouteKeeps
<1>2. CASE call' = Routed("auth", p, token) /\ UNCHANGED query
  <2>1. /\ query \in [Askers \X Peers -> Queries]
        /\ \A r \in Peers : query[<<"call", r>>] = None
    BY DEF RouterInv, StateOK, CallOwns
  <2>2. CallOwns(call', query)
    BY <2>1 DEF CallOwns
  <2> QED
    BY <1>2, <2>1, <2>2, RoutedIs
<1> QED
  BY <1>1, <1>2 DEF ToTarget

LEMMA StartCallKeeps ==
  ASSUME RouterInv, NEW n \in CallNames, NEW token \in BOOLEAN, StartCall(n, token)
  PROVE  RouterInv'
<1>1. call = None /\ call.phase # "manifest"
  BY DEF StartCall, None
<1>2. CacheOK(cache)
  BY DEF RouterInv, StateOK
<1>3. CASE Resolved(cache, n) # NoTarget
  <2>1. ToTarget(Resolved(cache, n).peer, token) /\ UNCHANGED discovery
    BY <1>3 DEF StartCall
  <2>2. Resolved(cache, n).peer \in Peers
    BY <1>2, <1>3, TargetIsPeer
  <2>3. /\ call' \in Calls /\ query' \in [Askers \X Peers -> Queries]
        /\ CallOwns(call', query')
        /\ \A d : DiscoveryOwns(d, query) => DiscoveryOwns(d, query')
    BY <1>1, <2>1, <2>2, ToTargetKeeps
  <2> QED
    BY <2>1, <2>3 DEF StartCall, RouterInv, StateOK
<1>4. CASE Resolved(cache, n) = NoTarget
  <2>1. /\ discovery' = AfterRefresh(FALSE)
        /\ call' = Waiting(IF discovery' = None THEN "providers" ELSE "refresh", n, token)
        /\ UNCHANGED query
    BY <1>4 DEF StartCall
  <2>2. discovery' \in Discoveries /\ DiscoveryOwns(discovery', query)
    BY <2>1, RefreshKeeps
  <2>3. call' \in Calls
    BY <2>1, WaitingIs
  <2>4. CallOwns(call', query)
    BY <1>1 DEF RouterInv, CallOwns
  <2> QED
    BY <2>1, <2>2, <2>3, <2>4 DEF StartCall, RouterInv, StateOK
<1> QED
  BY <1>3, <1>4

LEMMA CallRefreshedKeeps ==
  ASSUME RouterInv, CallRefreshed
  PROVE  RouterInv'
<1>1. call \in [phase : {"refresh", "refreshed", "providers"}, name : CallNames, token : BOOLEAN]
      /\ call.phase = "refreshed"
  BY CallIs DEF CallRefreshed, RouterInv, StateOK
<1>2. CacheOK(cache)
  BY DEF RouterInv, StateOK
<1>3. CASE Resolved(cache, call.name) # NoTarget
  <2>1. ToTarget(Resolved(cache, call.name).peer, call.token)
    BY <1>3 DEF CallRefreshed
  <2>2. Resolved(cache, call.name).peer \in Peers
    BY <1>2, <1>3, TargetIsPeer
  <2>3. /\ call' \in Calls /\ query' \in [Askers \X Peers -> Queries]
        /\ CallOwns(call', query')
        /\ \A d : DiscoveryOwns(d, query) => DiscoveryOwns(d, query')
    BY <1>1, <2>1, <2>2, ToTargetKeeps
  <2> QED
    BY <2>3 DEF CallRefreshed, RouterInv, StateOK
<1>4. CASE call' = [call EXCEPT !.phase = "providers"] /\ UNCHANGED query
  <2>1. call' \in [phase : {"refresh", "refreshed", "providers"}, name : CallNames, token : BOOLEAN]
    BY <1>1, <1>4
  <2>2. CallOwns(call', query)
    BY <1>1 DEF RouterInv, CallOwns
  <2> QED
    BY <1>4, <2>1, <2>2 DEF CallRefreshed, RouterInv, StateOK, Calls
<1> QED
  BY <1>3, <1>4 DEF CallRefreshed

LEMMA ProviderFoundKeeps ==
  ASSUME RouterInv, NEW p \in Peers, ProviderFound(p)
  PROVE  RouterInv'
<1>1. call \in [phase : {"refresh", "refreshed", "providers"}, name : CallNames, token : BOOLEAN]
      /\ call.phase = "providers"
  BY CallIs DEF ProviderFound, RouterInv, StateOK
<1>2. /\ call' \in Calls /\ query' \in [Askers \X Peers -> Queries]
      /\ CallOwns(call', query')
      /\ \A d : DiscoveryOwns(d, query) => DiscoveryOwns(d, query')
  BY <1>1, RouteKeeps DEF ProviderFound
<1> QED
  BY <1>2 DEF ProviderFound, RouterInv, StateOK

LEMMA CallReturnsKeeps ==
  ASSUME RouterInv, call.phase # "manifest", CallReturns
  PROVE  RouterInv'
<1>1. call' \in Calls
  BY DEF CallReturns, Calls
<1>2. CallOwns(call', query)
  BY DEF RouterInv, CallOwns
<1> QED
  BY <1>1, <1>2 DEF CallReturns, RouterInv, StateOK

LEMMA AuthTokenResolvedKeeps ==
  ASSUME RouterInv, NEW got \in BOOLEAN, AuthTokenResolved(got)
  PROVE  RouterInv'
<1>1. call \in [phase : {"auth", "manifest", "token"}, peer : Peers, token : BOOLEAN]
      /\ call.phase = "auth"
  BY CallIs DEF AuthTokenResolved, RouterInv, StateOK
<1>2. CASE CallReturns
  BY <1>1, <1>2, CallReturnsKeeps
<1>3. CASE /\ RouteToRemoteProvider(call.peer, TRUE)
           /\ UNCHANGED <<world, cache, failure, dial, discovery, listing, budget>>
  <2>1. /\ call' \in Calls /\ query' \in [Askers \X Peers -> Queries]
        /\ CallOwns(call', query')
        /\ \A d : DiscoveryOwns(d, query) => DiscoveryOwns(d, query')
    BY <1>1, <1>3, RouteKeeps
  <2> QED
    BY <1>3, <2>1 DEF RouterInv, StateOK
<1> QED
  BY <1>2, <1>3 DEF AuthTokenResolved

LEMMA SendIntentKeeps ==
  ASSUME RouterInv, NEW got \in BOOLEAN, SendIntent(got)
  PROVE  RouterInv'
<1>1. call.phase = "token"
  BY DEF SendIntent
<1>2. CASE CallReturns
  BY <1>1, <1>2, CallReturnsKeeps
<1>3. CASE /\ call' = [phase |-> "sent", token |-> got]
           /\ UNCHANGED <<world, cache, failure, dial, discovery, query, listing, budget>>
  <2>1. call' \in Calls
    BY <1>3 DEF Calls
  <2>2. CallOwns(call', query)
    BY <1>1 DEF RouterInv, CallOwns
  <2> QED
    BY <1>3, <2>1, <2>2 DEF RouterInv, StateOK
<1> QED
  BY <1>2, <1>3 DEF SendIntent

(***************************************************************************)
(* tools/list, the peers and time.                                         *)
(***************************************************************************)
ListStates ==
    [phase : {"race", "pause"}, timer : Nat, left : Nat, elapsed : Nat, stable : Nat, last : Nat]

\* A list may begin a round when time is left.
MayRace(l) == l \in ListStates /\ l.timer = 0 /\ l.left > 0 /\ l.elapsed + l.left = ListTimeout

LEMMA RaceKeeps ==
  ASSUME RouterInv, NEW l, MayRace(l), Race(l)
  PROVE  /\ discovery' \in Discoveries /\ DiscoveryOwns(discovery', query)
         /\ listing' \in Lists /\ WaitsWithin(listing')
<1>1. ListTimeout \in Nat /\ RaceWait \in Nat
  BY TimesAssumption
<1>2. listing' = [l EXCEPT !.phase = "race", !.timer = RaceWait] /\ discovery' = AfterRefresh(TRUE)
  BY DEF Race
<1>3. /\ listing' \in ListStates /\ listing'.phase = "race" /\ listing'.timer = RaceWait
      /\ listing'.left = l.left /\ listing'.elapsed = l.elapsed
  BY <1>1, <1>2 DEF MayRace, ListStates
<1>4. l.elapsed \in Nat /\ l.left \in Nat /\ l.left > 0 /\ l.elapsed + l.left = ListTimeout
  BY DEF MayRace, ListStates
<1>5. WaitsWithin(listing')
  <2>1. listing'.elapsed + listing'.left = ListTimeout
    BY <1>3, <1>4
  <2>2. listing'.elapsed + listing'.timer < ListTimeout + RaceWait
    BY <1>1, <1>3, <1>4
  <2> QED
    BY <1>3, <2>1, <2>2 DEF WaitsWithin
<1>6. listing' \in Lists
  BY <1>3 DEF Lists, ListStates
<1> QED
  BY <1>2, <1>5, <1>6, RefreshKeeps

LEMMA ListAnsweredKeeps ==
  ASSUME RouterInv, ListAnswered
  PROVE  /\ discovery' \in Discoveries /\ DiscoveryOwns(discovery', query)
         /\ listing' \in Lists /\ WaitsWithin(listing')
<1>1. listing' \in Lists /\ WaitsWithin(listing')
  BY DEF ListAnswered, Lists, WaitsWithin
<1>2. discovery' = discovery \/ discovery' = AfterRefresh(TRUE)
  BY DEF ListAnswered
<1>3. discovery \in Discoveries /\ DiscoveryOwns(discovery, query)
  BY DEF RouterInv, StateOK
<1> QED
  BY <1>1, <1>2, <1>3, RefreshKeeps

LEMMA StartListKeeps ==
  ASSUME RouterInv, StartList
  PROVE  RouterInv'
<1> DEFINE l == [phase |-> "race", timer |-> 0, left |-> ListTimeout, elapsed |-> 0,
                 stable |-> 0, last |-> Cardinality(Peers) + 1]
<1>1. Cardinality(Peers) + 1 \in Nat
  BY PeersAssumption, FS_CardinalityType
<1>2. ListTimeout \in Nat /\ ListTimeout > 0
  BY TimesAssumption
<1>3. MayRace(l)
  BY <1>1, <1>2 DEF MayRace, ListStates
<1>4. Race(l)
  BY DEF StartList
<1> HIDE DEF l
<1>5. /\ discovery' \in Discoveries /\ DiscoveryOwns(discovery', query)
      /\ listing' \in Lists /\ WaitsWithin(listing')
  BY <1>3, <1>4, RaceKeeps
<1> QED
  BY <1>5 DEF StartList, RouterInv, StateOK

LEMMA RaceEndsKeeps ==
  ASSUME RouterInv, RaceEnds
  PROVE  RouterInv'
<1> DEFINE same == Len(cache) = listing.last
           stable == IF same THEN listing.stable + 1 ELSE 0
<1>1. listing \in ListStates /\ listing # None /\ listing.phase = "race" /\ listing.timer = 0
  BY ListIs DEF RaceEnds, RouterInv, StateOK, ListStates
<1>2. ListTimeout \in Nat /\ RaceWait \in Nat /\ Pause = 1
  BY TimesAssumption DEF Pause
<1>3. Len(cache) \in Nat
  BY DEF RouterInv, StateOK, CacheOK
<1>4. stable \in Nat
  BY <1>1 DEF ListStates
<1>5. ListAnswered \/ /\ listing' = [listing EXCEPT !.phase = "pause", !.timer = Pause, !.stable = stable,
                                                     !.last = Len(cache)]
                       /\ UNCHANGED discovery
  BY DEF RaceEnds
<1> HIDE DEF stable
<1>6. CASE /\ listing' = [listing EXCEPT !.phase = "pause", !.timer = Pause, !.stable = stable,
                                         !.last = Len(cache)]
           /\ UNCHANGED discovery
  <2>1. /\ listing' \in ListStates /\ listing'.phase = "pause" /\ listing'.timer = 1
        /\ listing'.left = listing.left /\ listing'.elapsed = listing.elapsed
    BY <1>1, <1>2, <1>3, <1>4, <1>6 DEF ListStates
  <2>2. listing.left = 0 \/ listing.elapsed + listing.left = ListTimeout
    BY <1>1 DEF RouterInv, WaitsWithin
  <2>3. listing.elapsed + 0 < ListTimeout + RaceWait /\ listing.elapsed \in Nat
    BY <1>1 DEF RouterInv, WaitsWithin, ListStates
  <2>4. listing'.elapsed + listing'.timer < ListTimeout + RaceWait + Pause
    BY <1>2, <2>1, <2>3
  <2>5. WaitsWithin(listing')
    BY <2>1, <2>2, <2>4 DEF WaitsWithin
  <2> QED
    BY <1>6, <2>1, <2>5 DEF RaceEnds, RouterInv, StateOK, Lists, ListStates
<1>7. CASE ListAnswered
  BY <1>7, ListAnsweredKeeps DEF RaceEnds, RouterInv, StateOK
<1> QED
  BY <1>5, <1>6, <1>7

LEMMA PauseEndsKeeps ==
  ASSUME RouterInv, PauseEnds
  PROVE  RouterInv'
<1>1. listing \in ListStates /\ listing # None /\ listing.phase = "pause" /\ listing.timer = 0
  BY ListIs DEF PauseEnds, RouterInv, StateOK, ListStates
<1>2. CASE ListAnswered
  BY <1>2, ListAnsweredKeeps DEF PauseEnds, RouterInv, StateOK
<1>3. CASE Race(listing) /\ listing.left # 0
  <2>1. listing.elapsed + listing.left = ListTimeout
    BY <1>1, <1>3 DEF RouterInv, WaitsWithin
  <2>2. listing.left \in Nat /\ listing.left > 0
    BY <1>1, <1>3 DEF ListStates
  <2>3. MayRace(listing)
    BY <1>1, <2>1, <2>2 DEF MayRace
  <2> QED
    BY <1>3, <2>3, RaceKeeps DEF PauseEnds, RouterInv, StateOK
<1> QED
  BY <1>2, <1>3 DEF PauseEnds

LEMMA PeerChangesKeeps ==
  ASSUME RouterInv, NEW p \in Peers, NEW m \in Offers[p] \cup {Down}, NEW linked \in BOOLEAN,
         PeerChanges(p, m, linked)
  PROVE  RouterInv'
<1>1. m \in Manifests \cup {Down}
  BY DEF Manifests
<1>2. world' \in [Peers -> [serves : Manifests \cup {Down}, linked : BOOLEAN]]
  BY <1>1 DEF PeerChanges, RouterInv, StateOK
<1> QED
  BY <1>2 DEF PeerChanges, RouterInv, StateOK

LEMMA CoolerIs ==
  ASSUME NEW max \in Maxima, NEW f \in [Peers -> FailureStates(max)]
  PROVE  Cooler(f) \in [Peers -> FailureStates(max)]
<1>1. max \in Nat
  BY TimesAssumption DEF Maxima
<1>2. ASSUME NEW p \in Peers
      PROVE  [f[p] EXCEPT !.cooldown = Less(@)] \in FailureStates(max)
  <2>1. f[p] \in FailureStates(max)
    OBVIOUS
  <2>2. Less(f[p].cooldown) \in 0..max
    BY <1>1, <2>1 DEF FailureStates, Less
  <2> QED
    BY <2>1, <2>2 DEF FailureStates
<1> QED
  BY <1>2 DEF Cooler

LEMMA ClockTickKeeps ==
  ASSUME RouterInv, ClockTick
  PROVE  RouterInv'
<1>1. failure' \in [Peers -> FailureStates(MaxCooldown)] /\ dial' \in [Peers -> FailureStates(DialMaxCooldown)]
  BY CoolerIs DEF ClockTick, RouterInv, StateOK, Maxima
<1>2. CacheOK(cache')
  <2>1. cache \in Seq(Entries) /\ Len(cache) \in Nat /\ DOMAIN cache = 1..Len(cache) /\ CacheOK(cache)
    BY DEF RouterInv, StateOK, CacheOK
  <2> DEFINE d == [i \in 1..Len(cache) |-> [cache[i] EXCEPT !.age = Least(@ + 1, CacheTTL)]]
  <2>2. cache' = d
    BY <2>1 DEF ClockTick
  <2>3. ASSUME NEW i \in 1..Len(cache)
        PROVE  d[i] \in Entries /\ d[i].peer = cache[i].peer
    <3>1. cache[i] \in Entries
      BY <2>1
    <3>2. Least(cache[i].age + 1, CacheTTL) \in 0..CacheTTL
      <4>1. cache[i].age \in 0..CacheTTL /\ CacheTTL \in Nat
        BY <3>1, TimesAssumption DEF Entries
      <4> QED
        BY <4>1 DEF Least
    <3> QED
      BY <3>1, <3>2 DEF Entries
  <2>4. d \in [1..Len(cache) -> Entries]
    BY <2>3
  <2>5. d \in Seq(Entries) /\ DOMAIN d = 1..Len(cache)
    BY <2>1, <2>4
  <2> HIDE DEF d
  <2> QED
    BY <2>1, <2>2, <2>3, <2>5 DEF CacheOK
<1>3. listing' \in Lists /\ WaitsWithin(listing')
  <2>1. CASE listing = None
    BY <2>1 DEF ClockTick, Lists, WaitsWithin
  <2>2. CASE listing # None
    <3>1. listing \in ListStates /\ listing.timer > 0
      BY <2>2, ListIs DEF ClockTick, RouterInv, StateOK, ListStates
    <3>2. listing' = [listing EXCEPT !.timer = @ - 1, !.left = Less(@), !.elapsed = @ + 1]
      BY <2>2 DEF ClockTick
    <3>3. /\ listing'.phase = listing.phase /\ listing'.timer = listing.timer - 1
          /\ listing'.left = Less(listing.left) /\ listing'.elapsed = listing.elapsed + 1
          /\ listing' \in ListStates
      <4>1. /\ listing.timer - 1 \in Nat /\ Less(listing.left) \in Nat /\ listing.elapsed + 1 \in Nat
        BY <3>1 DEF ListStates, Less
      <4> QED
        BY <3>1, <3>2, <4>1 DEF ListStates
    <3>4. ListTimeout \in Nat /\ RaceWait \in Nat /\ listing.elapsed \in Nat /\ listing.timer \in Nat
          /\ listing.left \in Nat
      BY <3>1, TimesAssumption DEF ListStates
    <3>5. listing'.elapsed + listing'.timer = listing.elapsed + listing.timer
      BY <3>3, <3>4
    <3>6. \/ listing'.left = 0
          \/ listing'.elapsed + listing'.left = listing.elapsed + listing.left /\ listing.left # 0
      BY <3>3, <3>4 DEF Less
    <3>7. WaitsWithin(listing')
      BY <2>2, <3>3, <3>5, <3>6 DEF RouterInv, WaitsWithin
    <3> QED
      BY <3>3, <3>7 DEF Lists, ListStates
  <2> QED
    BY <2>1, <2>2
<1> QED
  BY <1>1, <1>2, <1>3 DEF ClockTick, RouterInv, StateOK

LEMMA RouterInvKept ==
  ASSUME RouterInv, [RouterNext]_routerVars
  PROVE  RouterInv'
<1>1. CASE UNCHANGED routerVars
  BY <1>1 DEF routerVars, RouterInv, StateOK
<1>2. CASE BackgroundRefresh
  BY <1>2, BackgroundRefreshKeeps
<1>3. CASE DiscoveryStep
  BY <1>3, ConnectPhaseEndsKeeps, SearchKeeps DEF DiscoveryStep
<1>4. CASE \E w \in Askers, p \in Peers : QueryStep(w, p)
  BY <1>4, DialSucceedsKeeps, DialFailsKeeps, ReadFailsKeeps, ReadSucceedsKeeps DEF QueryStep
<1>5. CASE \E n \in CallNames, token \in BOOLEAN : StartCall(n, token)
  BY <1>5, StartCallKeeps
<1>6. CASE CallStep
  <2>1. CASE NoProviderFound
    BY <2>1, CallReturnsKeeps DEF NoProviderFound
  <2> QED
    BY <1>6, <2>1, CallRefreshedKeeps, ProviderFoundKeeps, AuthTokenResolvedKeeps, SendIntentKeeps DEF CallStep
<1>7. CASE RemoteAnswers
  BY <1>7, CallReturnsKeeps DEF RemoteAnswers
<1>8. CASE StartList \/ ListStep
  BY <1>8, StartListKeeps, RaceEndsKeeps, PauseEndsKeeps DEF ListStep
<1>9. CASE \E p \in Peers : \E m \in Offers[p] \cup {Down}, linked \in BOOLEAN : PeerChanges(p, m, linked)
  BY <1>9, PeerChangesKeeps
<1>10. CASE ClockTick
  BY <1>10, ClockTickKeeps
<1> QED
  BY <1>1, <1>2, <1>3, <1>4, <1>5, <1>6, <1>7, <1>8, <1>9, <1>10 DEF RouterNext

(* No step of the router, of a peer or of time breaks the invariant.       *)
LEMMA RouterInvHolds == RouterSpec => []RouterInv
<1>1. RouterInit => RouterInv
  BY RouterStarts
<1>2. RouterInv /\ [RouterNext]_routerVars => RouterInv'
  BY RouterInvKept
<1> QED
  BY <1>1, <1>2, PTL DEF RouterSpec

(* No step sends a call without a token to a peer that is known to be      *)
(* restricted: performTranscoding looks at the manifest again before       *)
(* negotiateIntent, and no other step sends.                               *)
LEMMA StepIsEntitled ==
  ASSUME RouterInv, RouterNext, call.phase # "sent", call'.phase = "sent", ~call'.token
  PROVE  ~Restricted(call.peer)
<1>1. call \in Calls
  BY DEF RouterInv, StateOK
<1>2. ASSUME call' = call PROVE FALSE
  BY <1>2
<1>3. ASSUME Ended PROVE FALSE
  <2>1. CASE call.phase = "refresh"
    <3>1. call \in [phase : {"refresh", "refreshed", "providers"}, name : CallNames, token : BOOLEAN]
      BY <1>1, <2>1, CallIs
    <3>2. call' = [call EXCEPT !.phase = "refreshed"]
      BY <1>3, <2>1 DEF Ended
    <3> QED
      BY <3>1, <3>2
  <2>2. CASE call.phase # "refresh"
    BY <1>3, <2>2 DEF Ended
  <2> QED
    BY <2>1, <2>2
<1>4. ASSUME NEW w \in Askers, NEW p \in Peers, Settled(w, p), query[<<w, p>>] # None PROVE FALSE
  <2>1. CASE w = "call"
    <3>1. call' = [call EXCEPT !.phase = "token"]
      BY <1>4, <2>1, Zenon DEF Settled
    <3>2. call.phase = "manifest"
      BY <1>4, <2>1 DEF RouterInv, CallOwns
    <3>3. call \in [phase : {"auth", "manifest", "token"}, peer : Peers, token : BOOLEAN]
      BY <1>1, <3>2, CallIs
    <3> QED
      BY <3>1, <3>3
  <2>2. CASE w = "discovery" /\ Others(p)
    BY <1>2, <1>4, <2>2, Zenon DEF Settled
  <2>3. CASE w = "discovery" /\ ~Others(p)
    <3>1. w # "call"
      BY <2>3
    <3>2. Ended
      BY <1>4, <2>3, <3>1, Zenon DEF Settled
    <3> QED
      BY <1>3, <3>2
  <2> QED
    BY <2>1, <2>2, <2>3 DEF Askers
<1>5. ASSUME NEW p, NEW token, RouteToRemoteProvider(p, token) PROVE FALSE
  BY <1>5 DEF RouteToRemoteProvider, Routed
<1>6. ASSUME NEW p, NEW token, ToTarget(p, token) PROVE FALSE
  BY <1>5, <1>6 DEF ToTarget, Routed
<1>7. ASSUME CallReturns PROVE FALSE
  BY <1>7 DEF CallReturns, None
<1>8. CASE BackgroundRefresh
  BY <1>2, <1>8 DEF BackgroundRefresh
<1>9. CASE DiscoveryStep
  <2>1. CASE ConnectPhaseEnds
    BY <1>2, <2>1 DEF ConnectPhaseEnds
  <2>2. ASSUME NEW found \in SUBSET Peers, Search(found) PROVE FALSE
    BY <1>2, <1>3, <2>2 DEF Search, StartQueries
  <2> QED
    BY <1>9, <2>1, <2>2 DEF DiscoveryStep
<1>10. ASSUME NEW w \in Askers, NEW p \in Peers, QueryStep(w, p) PROVE FALSE
  <2>1. query[<<w, p>>].phase \in {"dial", "read"}
    BY <1>10 DEF QueryStep, DialSucceeds, DialFails, ReadFails, ReadSucceeds
  <2>2. query[<<w, p>>] # None
    BY <2>1 DEF None
  <2>3. call' = call \/ Settled(w, p)
    BY <1>10 DEF QueryStep, DialSucceeds, DialFails, ReadFails, ReadSucceeds, Retry, Unanswered
  <2> QED
    BY <1>2, <1>4, <2>2, <2>3
<1>11. ASSUME NEW n \in CallNames, NEW token \in BOOLEAN, StartCall(n, token) PROVE FALSE
  <2>1. CASE ToTarget(Resolved(cache, n).peer, token)
    BY <1>6, <2>1
  <2>2. CASE call' = Waiting(IF discovery' = None THEN "providers" ELSE "refresh", n, token)
    BY <2>2 DEF Waiting
  <2> QED
    BY <1>11, <2>1, <2>2 DEF StartCall
<1>12. CASE CallRefreshed
  <2>1. CASE ToTarget(Resolved(cache, call.name).peer, call.token)
    BY <1>6, <2>1
  <2>2. CASE call' = [call EXCEPT !.phase = "providers"]
    <3>1. call \in [phase : {"refresh", "refreshed", "providers"}, name : CallNames, token : BOOLEAN]
      BY <1>1, <1>12, CallIs DEF CallRefreshed
    <3> QED
      BY <2>2, <3>1
  <2> QED
    BY <1>12, <2>1, <2>2 DEF CallRefreshed
<1>13. CASE NoProviderFound \/ RemoteAnswers
  BY <1>7, <1>13 DEF NoProviderFound, RemoteAnswers
<1>14. ASSUME NEW p \in Peers, ProviderFound(p) PROVE FALSE
  BY <1>5, <1>14 DEF ProviderFound
<1>15. ASSUME NEW got \in BOOLEAN, AuthTokenResolved(got) PROVE FALSE
  BY <1>5, <1>7, <1>15 DEF AuthTokenResolved
<1>16. ASSUME NEW got \in BOOLEAN, SendIntent(got) PROVE ~Restricted(call.peer)
  <2>1. CASE Restricted(call.peer) /\ ~got
    BY <1>7, <1>16, <2>1 DEF SendIntent
  <2>2. CASE ~(Restricted(call.peer) /\ ~got)
    <3>1. call' = [phase |-> "sent", token |-> got]
      BY <1>16, <2>2 DEF SendIntent
    <3>2. ~got
      BY <3>1
    <3> QED
      BY <2>2, <3>2
  <2> QED
    BY <2>1, <2>2
<1>17. CASE StartList \/ ListStep
  BY <1>2, <1>17 DEF StartList, ListStep, RaceEnds, PauseEnds
<1>18. ASSUME NEW p \in Peers, NEW m \in Offers[p] \cup {Down}, NEW linked \in BOOLEAN,
              PeerChanges(p, m, linked)
       PROVE  FALSE
  BY <1>2, <1>18 DEF PeerChanges
<1>19. CASE ClockTick
  BY <1>2, <1>19 DEF ClockTick
<1> QED
  BY <1>8, <1>9, <1>10, <1>11, <1>12, <1>13, <1>14, <1>15, <1>16, <1>17, <1>18, <1>19 DEF RouterNext, CallStep

(* A call leaves for a restricted peer only with a token, whatever manifest*)
(* a discovery, another call or the call itself stored while it waited.    *)
THEOREM NoTokenlessCallHolds == RouterSpec => NoTokenlessCall
<1>1. RouterInv /\ [RouterNext]_routerVars
        => [(call.phase # "sent" /\ call'.phase = "sent" /\ ~call'.token) => ~Restricted(call.peer)]_routerVars
  BY StepIsEntitled
<1> QED
  BY <1>1, RouterInvHolds, PTL DEF RouterSpec, NoTokenlessCall

LEMMA InvImpliesTypes == RouterInv => RouterTypeOK /\ ListIsBounded
<1> SUFFICES ASSUME RouterInv PROVE RouterTypeOK /\ ListIsBounded
  OBVIOUS
<1>1. StateOK /\ DiscoveryOwns(discovery, query) /\ WaitsWithin(listing) /\ CacheOK(cache)
  BY DEF RouterInv, StateOK
<1>2. \A i \in DOMAIN cache : cache[i] \in Entries
  BY <1>1 DEF CacheOK
<1>3. \A q \in Askers \X Peers : query[q].phase \in {"none", "dial", "read"}
  <2>1. \A q \in Askers \X Peers : query[q] \in Queries
    BY <1>1 DEF StateOK
  <2> QED
    BY <2>1, QueryIs
<1>4. /\ discovery.phase \in {"none", "connect", "search", "query"}
      /\ listing.phase \in {"none", "race", "pause"}
      /\ call.phase \in {"none", "refresh", "refreshed", "providers", "auth", "manifest", "token", "sent"}
  BY <1>1, DiscoveryIs, ListIs, CallIs DEF StateOK
<1>5. RouterTypeOK
  BY <1>1, <1>2, <1>3, <1>4 DEF StateOK, RouterTypeOK, CacheOK, Entries, DiscoveryOwns
<1>6. ListIsBounded
  <2> SUFFICES ASSUME listing # None PROVE listing.elapsed < ListTimeout + RaceWait + Pause
    BY DEF ListIsBounded
  <2>1. /\ listing.phase \in {"race", "pause"} /\ listing.elapsed \in Nat /\ listing.timer \in Nat
        /\ ListTimeout \in Nat /\ RaceWait \in Nat /\ Pause = 1
    BY <1>1, ListIs, TimesAssumption DEF StateOK, Pause
  <2>2. \/ listing.elapsed + listing.timer < ListTimeout + RaceWait
        \/ listing.elapsed + listing.timer < ListTimeout + RaceWait + Pause
    BY <1>1, <2>1 DEF WaitsWithin
  <2> QED
    BY <2>1, <2>2
<1> QED
  BY <1>5, <1>6

(***************************************************************************)
(* The order of the list: tools of earlier peers come before those of      *)
(* later ones.                                                             *)
(***************************************************************************)
Names == Seq(STRING) \ {<<>>}
Items == [peer : Peers, tool : Names]

LEMMA ToolsAre ==
  ASSUME NEW c, CacheOK(c), NEW i \in 1..Len(c)
  PROVE  /\ c[i] \in Entries /\ c[i].peer \in Peers /\ c[i].manifest \in Manifests
         /\ c[i].manifest.tools \in Seq(Names)
         /\ DOMAIN c[i].manifest.tools = 1..Len(c[i].manifest.tools) /\ Len(c[i].manifest.tools) \in Nat
         /\ \A j \in DOMAIN c[i].manifest.tools : c[i].manifest.tools[j] \in Names
<1>1. c[i] \in Entries
  BY DEF CacheOK
<1>2. \A m \in Manifests : m.tools \in Seq(Names)
  BY PeersAssumption DEF Manifests, Names
<1>3. c[i].manifest.tools \in Seq(Names)
  BY <1>1, <1>2 DEF Entries
<1>4. DOMAIN c[i].manifest.tools = 1..Len(c[i].manifest.tools) /\ Len(c[i].manifest.tools) \in Nat
      /\ \A j \in DOMAIN c[i].manifest.tools : c[i].manifest.tools[j] \in Names
  BY <1>3
<1> QED
  BY <1>1, <1>3, <1>4 DEF Entries

Item(c, i, j) == [peer |-> c[i].peer, tool |-> c[i].manifest.tools[j]]
Block(c, i) == [j \in DOMAIN c[i].manifest.tools |-> Item(c, i, j)]

LEMMA BlockIs ==
  ASSUME NEW c, CacheOK(c), NEW i \in 1..Len(c)
  PROVE  /\ Block(c, i) \in Seq(Items) /\ Len(Block(c, i)) = Len(c[i].manifest.tools)
         /\ \A j \in 1..Len(Block(c, i)) : Block(c, i)[j] = Item(c, i, j)
<1>1. \A j \in DOMAIN c[i].manifest.tools : Item(c, i, j) \in Items
  BY ToolsAre DEF Item, Items
<1>2. DOMAIN c[i].manifest.tools = 1..Len(c[i].manifest.tools) /\ Len(c[i].manifest.tools) \in Nat
  BY ToolsAre
<1>3. Block(c, i) \in [1..Len(c[i].manifest.tools) -> Items]
  BY <1>1, <1>2 DEF Block
<1>4. Block(c, i) \in Seq(Items)
  BY <1>2, <1>3
<1>5. Len(Block(c, i)) = Len(c[i].manifest.tools)
  BY <1>2, <1>3, <1>4
<1> QED
  BY <1>2, <1>4, <1>5 DEF Block

\* Beginnings of the concatenation of n blocks.
Joins(f, c, n) == \A i \in 1..n : f[i] = IF i = 1 THEN Block(c, i) ELSE f[i - 1] \o Block(c, i)

LEMMA JoinsExist ==
  ASSUME NEW c, NEW n \in Nat
  PROVE  \E f : Joins(f, c, n)
<1> DEFINE S == {k \in Nat : \E f : Joins(f, c, k)}
<1>1. 0 \in S
  <2>1. Joins(<<>>, c, 0)
    BY DEF Joins
  <2> QED
    BY <2>1
<1>2. ASSUME NEW k \in Nat, k \in S
      PROVE  k + 1 \in S
  <2>1. PICK f : Joins(f, c, k)
    BY <1>2
  <2> DEFINE g == [i \in 1..(k + 1) |->
                     IF i = k + 1 THEN IF i = 1 THEN Block(c, i) ELSE f[k] \o Block(c, i) ELSE f[i]]
  <2>2. ASSUME NEW i \in 1..(k + 1)
        PROVE  g[i] = IF i = 1 THEN Block(c, i) ELSE g[i - 1] \o Block(c, i)
    <3>1. CASE i = k + 1
      BY <3>1
    <3>2. CASE i # k + 1
      <4>1. i \in 1..k /\ (i # 1 => i - 1 \in 1..k /\ i - 1 # k + 1)
        BY <3>2
      <4> QED
        BY <2>1, <4>1 DEF Joins
    <3> QED
      BY <3>1, <3>2
  <2> HIDE DEF g
  <2>3. Joins(g, c, k + 1)
    BY <2>2 DEF Joins
  <2> QED
    BY <2>3
<1>3. Nat \subseteq S
  <2> HIDE DEF S
  <2> QED
    BY <1>1, <1>2, Reaches
<1> QED
  BY <1>3

LEMMA RemoteToolsAre ==
  ASSUME NEW c, CacheOK(c)
  PROVE  \E F : /\ F[0] = <<>>
                /\ \A i \in 1..Len(c) : F[i] = F[i - 1] \o Block(c, i)
                /\ RemoteTools(c) = F[Len(c)]
<1> DEFINE n == Len(c)
           seqs == [i \in 1..n |-> Block(c, i)]
<1>1. n \in Nat /\ DOMAIN c = 1..n
  BY DEF CacheOK
<1>2. RemoteTools(c) = FlattenSeq(seqs)
  BY <1>1 DEF RemoteTools, Block, Item
<1>3. Len(seqs) = n /\ \A i \in 1..n : seqs[i] = Block(c, i)
  BY <1>1
<1> HIDE DEF seqs
<1>4. CASE n = 0
  <2>1. RemoteTools(c) = seqs
    BY <1>2, <1>3, <1>4 DEF FlattenSeq
  <2>2. seqs = <<>>
    BY <1>4 DEF seqs
  <2> DEFINE F == [i \in {0} |-> <<>>]
  <2>3. F[0] = <<>> /\ RemoteTools(c) = F[n]
    BY <1>4, <2>1, <2>2
  <2>4. 1..n = {}
    BY <1>4
  <2> HIDE DEF F
  <2> QED
    BY <2>3, <2>4
<1>5. CASE n # 0
  <2> DEFINE Flattens(f) == f = [i \in 1..n |-> IF i = 1 THEN seqs[i] ELSE f[i - 1] \o seqs[i]]
             flatten == CHOOSE f : Flattens(f)
  <2>1. RemoteTools(c) = flatten[n]
    BY <1>2, <1>3, <1>5 DEF FlattenSeq
  <2>2. \E f : Flattens(f)
    <3>1. PICK f : Joins(f, c, n)
      BY <1>1, JoinsExist
    <3> DEFINE h == [i \in 1..n |-> f[i]]
    <3>2. ASSUME NEW i \in 1..n
          PROVE  h[i] = IF i = 1 THEN seqs[i] ELSE h[i - 1] \o seqs[i]
      <4>1. i # 1 => i - 1 \in 1..n
        BY <1>1
      <4> QED
        BY <1>3, <3>1, <4>1 DEF Joins
    <3>3. DOMAIN h = 1..n
      OBVIOUS
    <3>4. h = [i \in DOMAIN h |-> h[i]]
      OBVIOUS
    <3> HIDE DEF h
    <3>5. Flattens(h)
      BY <3>2, <3>3, <3>4
    <3> QED
      BY <3>5
  <2>3. Flattens(flatten)
    BY <2>2
  <2> HIDE DEF flatten
  <2>4. \A i \in 1..n : flatten[i] = IF i = 1 THEN Block(c, i) ELSE flatten[i - 1] \o Block(c, i)
    BY <1>3, <2>3
  <2> DEFINE F == [i \in 0..n |-> IF i = 0 THEN <<>> ELSE flatten[i]]
  <2>5. F[0] = <<>> /\ F[n] = flatten[n]
    BY <1>1, <1>5
  <2>6. ASSUME NEW i \in 1..n
        PROVE  F[i] = F[i - 1] \o Block(c, i)
    <3>1. CASE i = 1
      <4>1. F[i] = Block(c, i) /\ F[i - 1] = <<>>
        BY <1>1, <2>4, <3>1
      <4>2. <<>> \o Block(c, i) = Block(c, i)
        BY BlockIs
      <4> HIDE DEF F
      <4> QED
        BY <4>1, <4>2
    <3>2. CASE i # 1
      <4>1. i - 1 \in 0..n /\ i - 1 # 0 /\ i \in 0..n /\ i # 0
        BY <1>1, <3>2
      <4> QED
        BY <2>4, <3>2, <4>1
    <3> QED
      BY <3>1, <3>2
  <2> HIDE DEF F
  <2> QED
    BY <2>1, <2>5, <2>6
<1> QED
  BY <1>4, <1>5

\* Every tool of the first n peers is in s, and each after all of the peers before its own.
Complete(s, c, n) ==
    \A a \in 1..n : \A j \in 1..Len(c[a].manifest.tools) : \E k \in 1..Len(s) : s[k] = Item(c, a, j)
Ordered(s, c, n) ==
    \A k \in 1..Len(s) :
        \E a \in 1..n : /\ \E j \in 1..Len(c[a].manifest.tools) : s[k] = Item(c, a, j)
                       /\ \A b \in 1..(a - 1) : \A h \in 1..Len(c[b].manifest.tools) :
                              \E l \in 1..(k - 1) : s[l] = Item(c, b, h)

LEMMA AddBlock ==
  ASSUME NEW c, CacheOK(c), NEW n \in Nat, n + 1 \in 1..Len(c), NEW s \in Seq(Items),
         Complete(s, c, n), Ordered(s, c, n)
  PROVE  LET t == s \o Block(c, n + 1) IN t \in Seq(Items) /\ Complete(t, c, n + 1) /\ Ordered(t, c, n + 1)
<1> DEFINE m == n + 1
           z == Block(c, m)
           t == s \o z
<1>1. /\ z \in Seq(Items) /\ Len(z) = Len(c[m].manifest.tools) /\ Len(z) \in Nat
      /\ \A j \in 1..Len(z) : z[j] = Item(c, m, j)
  BY BlockIs
<1>2. s \in Seq(Items) /\ Len(s) \in Nat /\ m \in Nat
  OBVIOUS
<1> HIDE DEF z
<1>3. /\ t \in Seq(Items) /\ Len(t) = Len(s) + Len(z)
      /\ \A k \in 1..Len(s) : t[k] = s[k]
      /\ \A j \in 1..Len(z) : t[Len(s) + j] = z[j]
  <2>1. t \in Seq(Items) /\ Len(t) = Len(s) + Len(z)
    BY <1>1, <1>2, ConcatProperties
  <2>2. \A i \in 1..(Len(s) + Len(z)) : t[i] = IF i <= Len(s) THEN s[i] ELSE z[i - Len(s)]
    BY <1>1, <1>2
  <2> HIDE DEF t
  <2>3. \A k \in 1..Len(s) : k \in 1..(Len(s) + Len(z)) /\ k <= Len(s)
    BY <1>1, <1>2
  <2>4. \A j \in 1..Len(z) : /\ Len(s) + j \in 1..(Len(s) + Len(z)) /\ ~(Len(s) + j <= Len(s))
                             /\ (Len(s) + j) - Len(s) = j
    BY <1>1, <1>2
  <2> QED
    BY <2>1, <2>2, <2>3, <2>4
<1> HIDE DEF t
<1>4. \A k \in 1..Len(s) : k \in 1..Len(t)
  <2>1. Len(z) \in Nat /\ Len(t) = Len(s) + Len(z)
    BY <1>1, <1>3
  <2> QED
    BY <1>2, <2>1
<1>5. Complete(t, c, m)
  <2> SUFFICES ASSUME NEW a \in 1..m, NEW j \in 1..Len(c[a].manifest.tools)
               PROVE  \E k \in 1..Len(t) : t[k] = Item(c, a, j)
    BY DEF Complete
  <2>1. CASE a = m
    <3>1. Len(s) + j \in 1..Len(t) /\ t[Len(s) + j] = Item(c, a, j)
      BY <1>1, <1>2, <1>3, <2>1
    <3> QED
      BY <3>1
  <2>2. CASE a # m
    <3>1. a \in 1..n
      BY <2>2
    <3>2. PICK k \in 1..Len(s) : s[k] = Item(c, a, j)
      BY <3>1 DEF Complete
    <3>3. t[k] = Item(c, a, j)
      BY <1>3, <3>2
    <3>4. k \in 1..Len(t)
      BY <1>4
    <3> QED
      BY <3>3, <3>4
  <2> QED
    BY <2>1, <2>2
<1>6. Ordered(t, c, m)
  <2> SUFFICES ASSUME NEW k \in 1..Len(t)
               PROVE  \E a \in 1..m : /\ \E j \in 1..Len(c[a].manifest.tools) : t[k] = Item(c, a, j)
                                     /\ \A b \in 1..(a - 1) : \A h \in 1..Len(c[b].manifest.tools) :
                                            \E l \in 1..(k - 1) : t[l] = Item(c, b, h)
    BY DEF Ordered
  <2>1. CASE k \in 1..Len(s)
    <3>1. PICK a \in 1..n : /\ \E j \in 1..Len(c[a].manifest.tools) : s[k] = Item(c, a, j)
                            /\ \A b \in 1..(a - 1) : \A h \in 1..Len(c[b].manifest.tools) :
                                   \E l \in 1..(k - 1) : s[l] = Item(c, b, h)
      BY <2>1 DEF Ordered
    <3>2. \A l \in 1..(k - 1) : t[l] = s[l]
      BY <1>2, <1>3, <2>1
    <3>3. t[k] = s[k] /\ a \in 1..m
      BY <1>3, <2>1
    <3> QED
      BY <3>1, <3>2, <3>3
  <2>2. CASE k \notin 1..Len(s)
    <3>1. PICK j \in 1..Len(z) : k = Len(s) + j
      <4>1. k - Len(s) \in 1..Len(z) /\ k = Len(s) + (k - Len(s))
        BY <1>1, <1>2, <1>3, <2>2
      <4> QED
        BY <4>1
    <3>2. t[k] = Item(c, m, j) /\ j \in 1..Len(c[m].manifest.tools)
      BY <1>1, <1>3, <3>1
    <3>3. ASSUME NEW b \in 1..(m - 1), NEW h \in 1..Len(c[b].manifest.tools)
          PROVE  \E l \in 1..(k - 1) : t[l] = Item(c, b, h)
      <4>1. b \in 1..n
        OBVIOUS
      <4>2. PICK l \in 1..Len(s) : s[l] = Item(c, b, h)
        BY <4>1 DEF Complete
      <4>3. l \in 1..(k - 1) /\ t[l] = s[l]
        BY <1>2, <1>3, <3>1
      <4> QED
        BY <4>2, <4>3
    <3>4. m \in 1..m
      BY <1>2
    <3> QED
      BY <3>2, <3>3, <3>4
  <2> QED
    BY <2>1, <2>2
<1> QED
  BY <1>3, <1>5, <1>6 DEF t, z

LEMMA ToolsInOrder ==
  ASSUME NEW c, CacheOK(c)
  PROVE  RemoteTools(c) \in Seq(Items) /\ Ordered(RemoteTools(c), c, Len(c))
<1>1. PICK F : /\ F[0] = <<>>
               /\ \A i \in 1..Len(c) : F[i] = F[i - 1] \o Block(c, i)
               /\ RemoteTools(c) = F[Len(c)]
  BY RemoteToolsAre
<1>2. Len(c) \in Nat
  BY DEF CacheOK
<1> DEFINE Good(k) == F[k] \in Seq(Items) /\ Complete(F[k], c, k) /\ Ordered(F[k], c, k)
           S == {k \in Nat : k <= Len(c) => Good(k)}
<1>3. 0 \in S
  <2>1. <<>> \in Seq(Items) /\ 1..Len(<<>>) = {} /\ 1..0 = {}
    OBVIOUS
  <2>2. Complete(<<>>, c, 0) /\ Ordered(<<>>, c, 0)
    BY <2>1 DEF Complete, Ordered
  <2>3. Good(0)
    BY <1>1, <2>1, <2>2
  <2> QED
    BY <2>3
<1>4. ASSUME NEW k \in Nat, k \in S PROVE k + 1 \in S
  <2> SUFFICES ASSUME k + 1 <= Len(c) PROVE Good(k + 1)
    OBVIOUS
  <2>1. k + 1 \in 1..Len(c) /\ (k + 1) - 1 = k /\ k <= Len(c)
    BY <1>2
  <2>2. Good(k)
    BY <1>4, <2>1
  <2>3. F[k + 1] = F[k] \o Block(c, k + 1)
    BY <1>1, <2>1
  <2> QED
    BY <2>1, <2>2, <2>3, AddBlock
<1>5. Nat \subseteq S
  <2> HIDE DEF S
  <2> QED
    BY <1>3, <1>4, Reaches
<1>6. Good(Len(c))
  BY <1>2, <1>5
<1> QED
  BY <1>1, <1>6

(***************************************************************************)
(* The names on the list.                                                  *)
(***************************************************************************)
\* The prefixes of the list of n tools.
Beginnings(f, rt, n) ==
    \A s \in SUBSET (1..n) : f[s] = IF s = {} THEN <<>> ELSE Listed(f[s \ {Max(s)}], rt[Max(s)])

LEMMA GreatestIs ==
  ASSUME NEW k \in Nat, NEW s \in SUBSET (1..k), k \in s
  PROVE  Max(s) = k
<1>1. \A y \in s : k >= y
  OBVIOUS
<1>2. ASSUME NEW x \in s, \A y \in s : x >= y
      PROVE  x = k
  <2>1. x \in 1..k /\ x >= k
    BY <1>2
  <2> QED
    BY <2>1
<1> QED
  BY <1>1, <1>2 DEF Max

LEMMA ListsExist ==
  ASSUME NEW rt, NEW n \in Nat
  PROVE  \E f : Beginnings(f, rt, n)
<1> DEFINE S == {k \in Nat : \E f : Beginnings(f, rt, k)}
<1>1. 0 \in S
  <2> DEFINE f == [s \in SUBSET (1..0) |-> <<>>]
  <2>1. \A s \in SUBSET (1..0) : s = {} /\ f[s] = <<>>
    OBVIOUS
  <2> HIDE DEF f
  <2>2. Beginnings(f, rt, 0)
    BY <2>1 DEF Beginnings
  <2> QED
    BY <2>2
<1>2. ASSUME NEW k \in Nat, k \in S
      PROVE  k + 1 \in S
  <2>1. PICK f : Beginnings(f, rt, k)
    BY <1>2
  <2> DEFINE g == [s \in SUBSET (1..(k + 1)) |->
                     IF k + 1 \in s THEN Listed(f[s \ {k + 1}], rt[k + 1]) ELSE f[s]]
  <2>2. \A s \in SUBSET (1..(k + 1)) : g[s] = IF k + 1 \in s THEN Listed(f[s \ {k + 1}], rt[k + 1]) ELSE f[s]
    OBVIOUS
  <2>3. \A s \in SUBSET (1..k) : s \in SUBSET (1..(k + 1)) /\ k + 1 \notin s
    OBVIOUS
  <2> HIDE DEF g
  <2>4. \A s \in SUBSET (1..k) : g[s] = f[s]
    BY <2>2, <2>3
  <2>5. ASSUME NEW s \in SUBSET (1..(k + 1))
        PROVE  g[s] = IF s = {} THEN <<>> ELSE Listed(g[s \ {Max(s)}], rt[Max(s)])
    <3>1. CASE k + 1 \in s
      <4>1. Max(s) = k + 1
        BY <3>1, GreatestIs
      <4>2. s \ {k + 1} \in SUBSET (1..k)
        OBVIOUS
      <4>3. g[s] = Listed(f[s \ {k + 1}], rt[k + 1]) /\ g[s \ {k + 1}] = f[s \ {k + 1}]
        BY <2>2, <2>4, <3>1, <4>2
      <4> QED
        BY <3>1, <4>1, <4>3
    <3>2. CASE k + 1 \notin s
      <4>1. s \in SUBSET (1..k)
        BY <3>2
      <4>2. s \ {Max(s)} \in SUBSET (1..k)
        BY <4>1
      <4>3. g[s] = f[s] /\ g[s \ {Max(s)}] = f[s \ {Max(s)}]
        BY <2>4, <4>1, <4>2
      <4>4. f[s] = IF s = {} THEN <<>> ELSE Listed(f[s \ {Max(s)}], rt[Max(s)])
        BY <2>1, <4>1 DEF Beginnings
      <4> QED
        BY <4>3, <4>4
    <3> QED
      BY <3>1, <3>2
  <2>6. Beginnings(g, rt, k + 1)
    BY <2>5 DEF Beginnings
  <2> QED
    BY <2>6
<1>3. Nat \subseteq S
  <2> HIDE DEF S
  <2> QED
    BY <1>1, <1>2, Reaches
<1> QED
  BY <1>3

LEMMA ListUnfolds ==
  ASSUME NEW rt \in Seq(Items)
  PROVE  \E L : /\ L[0] = <<>>
                /\ \A k \in 1..Len(rt) : L[k] = Listed(L[k - 1], rt[k])
                /\ FoldLeft(Listed, <<>>, rt) = L[Len(rt)]
<1> DEFINE n == Len(rt)
           Folds(f) == f = [s \in SUBSET (1..n) |->
                              IF s = {} THEN <<>> ELSE Listed(f[s \ {Max(s)}], rt[Max(s)])]
           iter == CHOOSE f : Folds(f)
<1>1. n \in Nat /\ DOMAIN rt = 1..n
  OBVIOUS
<1>2. FoldLeft(Listed, <<>>, rt) = iter[1..n]
  BY <1>1 DEF FoldLeft, MapThenFoldSet
<1>3. \E f : Folds(f)
  <2>1. PICK f : Beginnings(f, rt, n)
    BY <1>1, ListsExist
  <2> DEFINE h == [s \in SUBSET (1..n) |-> f[s]]
  <2>2. \A s \in SUBSET (1..n) : h[s] = f[s] /\ s \ {Max(s)} \in SUBSET (1..n)
    OBVIOUS
  <2>3. h = [s \in SUBSET (1..n) |-> h[s]]
    OBVIOUS
  <2> HIDE DEF h
  <2>4. \A s \in SUBSET (1..n) : h[s] = IF s = {} THEN <<>> ELSE Listed(h[s \ {Max(s)}], rt[Max(s)])
    BY <2>1, <2>2 DEF Beginnings
  <2>5. Folds(h)
    BY <2>3, <2>4
  <2> QED
    BY <2>5
<1>4. Folds(iter)
  BY <1>3
<1> HIDE DEF iter
<1>5. \A s \in SUBSET (1..n) : iter[s] = IF s = {} THEN <<>> ELSE Listed(iter[s \ {Max(s)}], rt[Max(s)])
  BY <1>4
<1> HIDE DEF Folds
<1> DEFINE L == [k \in 0..n |-> iter[1..k]]
<1>6. L[0] = <<>>
  <2>1. 1..0 = {} /\ 1..0 \in SUBSET (1..n) /\ 0 \in 0..n
    BY <1>1
  <2> QED
    BY <1>5, <2>1
<1>7. ASSUME NEW k \in 1..n
      PROVE  L[k] = Listed(L[k - 1], rt[k])
  <2>1. k \in Nat /\ k \in 1..k /\ k \in 0..n /\ k - 1 \in 0..n
    <3>1. k \in Nat /\ n \in Nat /\ 1 <= k /\ k <= n
      BY <1>1
    <3> QED
      BY <3>1
  <2>5. 1..k # {}
    BY <2>1
  <2>3. 1..k \in SUBSET (1..n)
    BY <1>1
  <2>4. (1..k) \ {k} = 1..(k - 1)
    BY <2>1
  <2>2. Max(1..k) = k
    BY <2>1, GreatestIs
  <2> QED
    BY <1>5, <2>1, <2>2, <2>3, <2>4, <2>5
<1>8. L[n] = iter[1..n]
  BY <1>1
<1> HIDE DEF L
<1> QED
  BY <1>2, <1>6, <1>7, <1>8

\* What the list of the first n tools says.
Rows == [name : Seq(STRING), peer : Peers, tool : Names]
OwnName(l, i) ==
    /\ l[i].name = l[i].tool /\ l[i].tool \notin LocalTools
    /\ \A h \in 1..(i - 1) : l[h].name # l[i].tool
SuffixedName(l, i) ==
    /\ l[i].name = Append(l[i].tool, ShortId[l[i].peer])
    /\ l[i].tool \in LocalTools \/ \E h \in 1..(i - 1) : l[h].name = l[i].tool
Naming(l, rt, n) ==
    /\ l \in Seq(Rows) /\ Len(l) = n
    /\ \A i \in 1..n : /\ l[i].peer = rt[i].peer /\ l[i].tool = rt[i].tool
                       /\ OwnName(l, i) \/ SuffixedName(l, i)

LEMMA ListedIs ==
  ASSUME NEW rt \in Seq(Items), NEW n \in Nat, n + 1 \in 1..Len(rt), NEW l, Naming(l, rt, n)
  PROVE  Naming(Listed(l, rt[n + 1]), rt, n + 1)
<1> DEFINE x == rt[n + 1]
           taken == {l[i].name : i \in DOMAIN l} \cup LocalTools
           name == IF x.tool \in taken THEN Append(x.tool, ShortId[x.peer]) ELSE x.tool
           row == [name |-> name, peer |-> x.peer, tool |-> x.tool]
           m == Append(l, row)
<1>1. x \in Items /\ x.tool \in Names /\ x.peer \in Peers
  <2>1. x \in Items
    OBVIOUS
  <2> HIDE DEF x
  <2> QED
    BY <2>1 DEF Items
<1>2. l \in Seq(Rows) /\ Len(l) = n /\ DOMAIN l = 1..n
  BY DEF Naming
<1>3. name \in Seq(STRING)
  <2>1. ShortId[x.peer] \in STRING /\ x.tool \in Seq(STRING)
    BY <1>1, PeersAssumption DEF Names
  <2> HIDE DEF x
  <2>2. Append(x.tool, ShortId[x.peer]) \in Seq(STRING)
    BY <2>1, AppendProperties
  <2> QED
    BY <2>1, <2>2
<1>4. row \in Rows
  BY <1>1, <1>3 DEF Rows
<1>5. Listed(l, x) = m
  BY DEF Listed
<1>6. /\ row.name = name /\ row.peer = x.peer /\ row.tool = x.tool
  OBVIOUS
<1> HIDE DEF row
<1>7. m \in Seq(Rows) /\ Len(m) = n + 1 /\ m[n + 1] = row /\ \A i \in 1..n : m[i] = l[i]
  BY <1>2, <1>4
<1> HIDE DEF m
<1>8. ASSUME NEW i \in 1..(n + 1)
      PROVE  /\ m[i].peer = rt[i].peer /\ m[i].tool = rt[i].tool
             /\ OwnName(m, i) \/ SuffixedName(m, i)
  <2>1. \A h \in 1..(i - 1) : m[h] = l[h] /\ h \in 1..n
    BY <1>7
  <2>2. CASE i \in 1..n
    <3>1. /\ l[i].peer = rt[i].peer /\ l[i].tool = rt[i].tool
          /\ OwnName(l, i) \/ SuffixedName(l, i)
      BY <2>2 DEF Naming
    <3>2. m[i] = l[i]
      BY <1>7, <2>2
    <3>3. OwnName(l, i) => OwnName(m, i)
      BY <2>1, <3>2 DEF OwnName
    <3>4. SuffixedName(l, i) => SuffixedName(m, i)
      BY <2>1, <3>2 DEF SuffixedName
    <3> QED
      BY <3>1, <3>2, <3>3, <3>4
  <2>3. CASE i = n + 1
    <3>1. m[i] = row
      BY <1>7, <2>3
    <3>2. CASE x.tool \in taken
      <4>1. x.tool \in LocalTools \/ \E h \in 1..n : l[h].name = x.tool
        BY <1>2, <3>2
      <4>2. i - 1 = n
        BY <2>3
      <4>3. SuffixedName(m, i)
        BY <1>6, <2>1, <3>1, <3>2, <4>1, <4>2 DEF SuffixedName
      <4> QED
        BY <1>6, <2>3, <3>1, <4>3
    <3>3. CASE x.tool \notin taken
      <4>1. x.tool \notin LocalTools /\ \A h \in 1..n : l[h].name # x.tool
        BY <1>2, <3>3
      <4>2. OwnName(m, i)
        BY <1>6, <2>1, <3>1, <3>3, <4>1 DEF OwnName
      <4> QED
        BY <1>6, <2>3, <3>1, <4>2
    <3> QED
      BY <3>2, <3>3
  <2>4. i \in 1..n \/ i = n + 1
    OBVIOUS
  <2> QED
    BY <2>2, <2>3, <2>4
<1> QED
  BY <1>5, <1>7, <1>8 DEF Naming

LEMMA ListNames ==
  ASSUME NEW rt \in Seq(Items)
  PROVE  Naming(FoldLeft(Listed, <<>>, rt), rt, Len(rt))
<1>1. PICK L : /\ L[0] = <<>>
               /\ \A k \in 1..Len(rt) : L[k] = Listed(L[k - 1], rt[k])
               /\ FoldLeft(Listed, <<>>, rt) = L[Len(rt)]
  BY ListUnfolds
<1>2. Len(rt) \in Nat
  OBVIOUS
<1> DEFINE S == {k \in Nat : k <= Len(rt) => Naming(L[k], rt, k)}
<1>3. 0 \in S
  <2>1. <<>> \in Seq(Rows) /\ Len(<<>>) = 0 /\ 1..0 = {}
    OBVIOUS
  <2>2. Naming(<<>>, rt, 0)
    BY <2>1 DEF Naming
  <2> QED
    BY <1>1, <2>2
<1>4. ASSUME NEW k \in Nat, k \in S PROVE k + 1 \in S
  <2> SUFFICES ASSUME k + 1 <= Len(rt) PROVE Naming(L[k + 1], rt, k + 1)
    OBVIOUS
  <2>1. k + 1 \in 1..Len(rt) /\ (k + 1) - 1 = k /\ k <= Len(rt)
    BY <1>2
  <2>2. Naming(L[k], rt, k)
    BY <1>4, <2>1
  <2>3. L[k + 1] = Listed(L[k], rt[k + 1])
    BY <1>1, <2>1
  <2> QED
    BY <2>1, <2>2, <2>3, ListedIs
<1>5. Nat \subseteq S
  <2> HIDE DEF S
  <2> QED
    BY <1>3, <1>4, Reaches
<1>6. Naming(L[Len(rt)], rt, Len(rt))
  BY <1>2, <1>5
<1> QED
  BY <1>1, <1>6

LEMMA TheOnly ==
  ASSUME NEW I \in SUBSET Nat, NEW a \in I, \A i \in I : a <= i
  PROVE  Min(I) = a
<1>1. Min(I) \in I /\ Min(I) <= a
  BY LeastIs
<1>2. a <= Min(I) /\ a \in Nat /\ Min(I) \in Nat
  BY <1>1
<1> QED
  BY <1>1, <1>2

(* Where the name of a tool, or a name the router made, leads.             *)
LEMMA NamesLeadBack ==
  ASSUME NamesAreApart, CacheOK(cache), NEW a \in 1..Len(cache), NEW j \in 1..Len(cache[a].manifest.tools),
         NEW n
  PROVE  LET p == cache[a].peer  t == cache[a].manifest.tools[j]
         IN /\ /\ n = t
               /\ \A b \in 1..(a - 1) : \A h \in 1..Len(cache[b].manifest.tools) :
                     cache[b].manifest.tools[h] # t
               => Resolved(cache, n) = [peer |-> p, tool |-> t]
            /\ n = Append(t, ShortId[p])
               => n \notin LocalTools /\ Resolved(cache, n) = [peer |-> p, tool |-> t]
<1> DEFINE p == cache[a].peer
           t == cache[a].manifest.tools[j]
           onOffer == UNION {Range(m.tools) : m \in Manifests}
           suffixed == {Append(s, ShortId[q]) : s \in onOffer, q \in Peers}
<1>1. Len(cache) \in Nat /\ \A b, d \in 1..Len(cache) : cache[b].peer = cache[d].peer => b = d
  BY DEF CacheOK
<1>2. ASSUME NEW b \in 1..Len(cache), NEW h \in 1..Len(cache[b].manifest.tools)
      PROVE  /\ cache[b].peer \in Peers /\ cache[b].manifest.tools[h] \in Names
             /\ cache[b].manifest.tools[h] \in onOffer
  <2>1. cache[b].manifest \in Manifests /\ h \in DOMAIN cache[b].manifest.tools
        /\ cache[b].peer \in Peers /\ cache[b].manifest.tools[h] \in Names
    BY ToolsAre
  <2>2. cache[b].manifest.tools[h] \in Range(cache[b].manifest.tools)
    BY <2>1 DEF Range
  <2> QED
    BY <2>1, <2>2
<1>3. /\ DOMAIN Alias \cap onOffer = {}
      /\ suffixed \cap (onOffer \cup LocalTools \cup DOMAIN Alias) = {}
      /\ \A q, r \in Peers : ShortId[q] \in EndsIn[r] <=> q = r
  BY DEF NamesAreApart
<1>4. t \in onOffer /\ t \in Names /\ p \in Peers
  BY <1>2
<1> HIDE DEF onOffer, t, p
<1>5. Append(t, ShortId[p]) \in suffixed
  BY <1>4
<1> HIDE DEF suffixed
<1>6. Canonical(t) = t
  BY <1>3, <1>4 DEF Canonical
<1>7. ASSUME NEW b \in 1..Len(cache)
      PROVE  Meaning(cache[b].manifest, t) = {h \in 1..Len(cache[b].manifest.tools) : cache[b].manifest.tools[h] = t}
  BY <1>6 DEF Meaning
<1>8. j \in Meaning(cache[a].manifest, t)
  BY <1>7 DEF t
<1>9. Target(cache[a], t) = [peer |-> p, tool |-> t]
  <2>1. ToolNamed(cache[a].manifest, t) \in Meaning(cache[a].manifest, t)
    BY <1>8, ToolNamedIs
  <2>2. cache[a].manifest.tools[ToolNamed(cache[a].manifest, t)] = t
    BY <1>7, <2>1
  <2> QED
    BY <2>2 DEF Target, p
<1>10. ASSUME n = t,
              \A b \in 1..(a - 1) : \A h \in 1..Len(cache[b].manifest.tools) : cache[b].manifest.tools[h] # t
       PROVE  Resolved(cache, n) = [peer |-> p, tool |-> t]
  <2>1. a \in Offering(cache, t) /\ Offering(cache, t) \in SUBSET Nat /\ Offering(cache, t) \subseteq 1..Len(cache)
    BY <1>8 DEF Offering
  <2>2. ASSUME NEW b \in Offering(cache, t) PROVE a <= b
    <3>1. b \in 1..Len(cache) /\ Meaning(cache[b].manifest, t) # {}
      BY DEF Offering
    <3>2. b \notin 1..(a - 1)
      BY <1>7, <1>10, <3>1
    <3> QED
      BY <3>1, <3>2
  <2>3. Min(Offering(cache, t)) = a
    BY <2>1, <2>2, TheOnly
  <2>4. Resolved(cache, t) = Target(cache[Min(Offering(cache, t))], t)
    BY <2>1, ResolvedIs
  <2> QED
    BY <1>9, <1>10, <2>3, <2>4
<1>11. ASSUME n = Append(t, ShortId[p])
       PROVE  n \notin LocalTools /\ Resolved(cache, n) = [peer |-> p, tool |-> t]
  <2>1. n \notin onOffer /\ n \notin LocalTools /\ Canonical(n) = n
    BY <1>3, <1>5, <1>11 DEF Canonical
  <2>2. \A b \in 1..Len(cache) : Meaning(cache[b].manifest, n) = {}
    BY <1>2, <2>1 DEF Meaning
  <2>3. Offering(cache, n) = {}
    BY <2>2 DEF Offering
  <2>4. Len(n) > 1 /\ Last(n) = ShortId[p] /\ Front(n) = t
    <3>1. t \in Seq(STRING) /\ t # <<>> /\ ShortId[p] \in STRING
      BY <1>4, PeersAssumption DEF Names
    <3>2. Len(t) \in Nat /\ Len(t) > 0
      <4>1. Len(t) \in Nat /\ Len(t) # 0
        BY <3>1, EmptySeq
      <4> QED
        BY <4>1
    <3>3. /\ n \in Seq(STRING) /\ Len(n) = Len(t) + 1 /\ n[Len(t) + 1] = ShortId[p]
          /\ \A i \in 1..Len(t) : n[i] = t[i]
      BY <1>11, <3>1, AppendProperties
    <3>4. Last(n) = ShortId[p]
      BY <3>3 DEF Last
    <3>5. Front(n) = SubSeq(n, 1, Len(t))
      BY <3>2, <3>3 DEF Front
    <3>6. SubSeq(n, 1, Len(t)) = t
      <4> DEFINE z == SubSeq(n, 1, Len(t))
      <4>1. z \in Seq(STRING) /\ Len(z) = Len(t) /\ \A i \in 1..Len(t) : z[i] = n[i]
        BY <3>2, <3>3
      <4> HIDE DEF z
      <4>2. z = t
        BY <3>1, <3>2, <3>3, <4>1, SeqEqual
      <4> QED
        BY <4>2 DEF z
    <3> QED
      BY <3>2, <3>3, <3>4, <3>5, <3>6
  <2>5. Ending(cache, n) = {a}
    <3>1. ASSUME NEW b \in 1..Len(cache), ShortId[p] \in EndsIn[cache[b].peer]
          PROVE  b = a
      <4>1. cache[b].peer \in Peers
        BY ToolsAre
      <4>2. cache[b].peer = p
        BY <1>3, <1>4, <3>1, <4>1
      <4> QED
        BY <1>1, <4>2 DEF p
    <3>2. ShortId[p] \in EndsIn[cache[a].peer]
      BY <1>3, <1>4 DEF p
    <3> QED
      BY <1>8, <2>4, <3>1, <3>2 DEF Ending
  <2>6. Min(Ending(cache, n)) = a
    <3>1. {a} \in SUBSET Nat /\ a \in {a} /\ \A i \in {a} : a <= i
      OBVIOUS
    <3>2. Min({a}) = a
      BY <3>1, TheOnly
    <3> QED
      BY <2>5, <3>2
  <2>7. Resolved(cache, n) = Target(cache[Min(Ending(cache, n))], Front(n))
    BY <2>3, <2>4, <2>5, ResolvedIs
  <2> QED
    BY <1>9, <2>1, <2>4, <2>6, <2>7
<1> QED
  BY <1>10, <1>11 DEF t, p

LEMMA InvImpliesResolve ==
  ASSUME NamesAreApart, RouterInv
  PROVE  ListedNamesResolve
<1> DEFINE rt == RemoteTools(cache)
           list == RemoteList(cache)
<1>1. CacheOK(cache)
  BY DEF RouterInv, StateOK
<1>2. rt \in Seq(Items) /\ Ordered(rt, cache, Len(cache))
  BY <1>1, ToolsInOrder
<1>3. Naming(list, rt, Len(rt))
  <2>1. list = FoldLeft(Listed, <<>>, rt)
    BY DEF RemoteList
  <2> HIDE DEF rt, list
  <2>2. Naming(FoldLeft(Listed, <<>>, rt), rt, Len(rt))
    BY <1>2, ListNames
  <2> QED
    BY <2>1, <2>2
<1> HIDE DEF rt, list
<1>4. Len(rt) \in Nat /\ DOMAIN list = 1..Len(rt)
  BY <1>2, <1>3 DEF Naming
<1>5. ASSUME NEW i \in 1..Len(rt)
      PROVE  /\ list[i].name \notin LocalTools
             /\ Resolved(cache, list[i].name) = [peer |-> list[i].peer, tool |-> list[i].tool]
  <2>1. PICK a \in 1..Len(cache) :
          /\ \E j \in 1..Len(cache[a].manifest.tools) : rt[i] = Item(cache, a, j)
          /\ \A b \in 1..(a - 1) : \A h \in 1..Len(cache[b].manifest.tools) :
                \E l \in 1..(i - 1) : rt[l] = Item(cache, b, h)
    BY <1>2 DEF Ordered
  <2>2. PICK j \in 1..Len(cache[a].manifest.tools) : rt[i] = Item(cache, a, j)
    BY <2>1
  <2> DEFINE p == cache[a].peer
             t == cache[a].manifest.tools[j]
  <2>3. /\ list[i].peer = p /\ list[i].tool = t
        /\ OwnName(list, i) \/ SuffixedName(list, i)
    BY <1>3, <2>2 DEF Naming, Item
  <2>4. CASE OwnName(list, i)
    <3>1. list[i].name = t /\ t \notin LocalTools /\ \A h \in 1..(i - 1) : list[h].name # t
      BY <2>3, <2>4 DEF OwnName
    <3>2. ASSUME NEW l \in 1..(i - 1), rt[l].tool = t PROVE FALSE
      <4>1. l \in 1..Len(rt) /\ l \in 1..(i - 1) /\ 1..(l - 1) \subseteq 1..(i - 1)
        BY <1>4
      <4>2. list[l].tool = t /\ (OwnName(list, l) \/ SuffixedName(list, l))
        BY <1>3, <3>2, <4>1 DEF Naming
      <4> QED
        BY <3>1, <4>1, <4>2 DEF OwnName, SuffixedName
    <3>3. ASSUME NEW b \in 1..(a - 1), NEW h \in 1..Len(cache[b].manifest.tools)
          PROVE  cache[b].manifest.tools[h] # t
      <4>1. PICK l \in 1..(i - 1) : rt[l] = Item(cache, b, h)
        BY <2>1
      <4> QED
        BY <3>2, <4>1 DEF Item
    <3>4. Resolved(cache, list[i].name) = [peer |-> p, tool |-> t]
      BY <1>1, <3>1, <3>3, NamesLeadBack
    <3> QED
      BY <2>3, <3>1, <3>4
  <2>5. CASE SuffixedName(list, i)
    <3>1. list[i].name = Append(t, ShortId[p])
      <4>1. list[i].name = Append(list[i].tool, ShortId[list[i].peer])
        BY <2>5 DEF SuffixedName
      <4>2. list[i].tool = t /\ list[i].peer = p
        BY <2>3
      <4> HIDE DEF t, p
      <4> QED
        BY <4>1, <4>2
    <3>2. list[i].name \notin LocalTools /\ Resolved(cache, list[i].name) = [peer |-> p, tool |-> t]
      BY <1>1, <3>1, NamesLeadBack
    <3> QED
      BY <2>3, <3>2
  <2> QED
    BY <2>3, <2>4, <2>5
<1> QED
  BY <1>4, <1>5 DEF ListedNamesResolve, list

(* The state of the router is well formed - nobody is cached twice, delays *)
(* stay within their maxima, a discovery is in its query phase while it has*)
(* queries under way - and tools/list never waits longer than it may,      *)
(* however long the discoveries it races take.                             *)
THEOREM WaitsAreBounded == RouterSpec => [](RouterTypeOK /\ ListIsBounded)
BY RouterInvHolds, InvImpliesTypes, PTL

(* The tool list is sound: besides, every name on it is free of clashes    *)
(* with local tools and leads resolveManifestTarget to the tool it was     *)
(* listed for, in whatever order the peers were cached, if names of tools  *)
(* can be told from names the router makes.                                *)
THEOREM ListsAreSoundHolds == NamesAreApart => (RouterSpec => []ListsAreSound)
<1> SUFFICES ASSUME NamesAreApart PROVE RouterSpec => []ListsAreSound
  OBVIOUS
<1>1. RouterInv => ListsAreSound
  BY InvImpliesTypes, InvImpliesResolve DEF ListsAreSound
<1> QED
  BY <1>1, RouterInvHolds, PTL
=============================================================================
