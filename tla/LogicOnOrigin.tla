--------------------------- MODULE LogicOnOrigin ---------------------------
(***************************************************************************)
(* The gRPC service of LiopServer: negotiateIntent creates a session for   *)
(* an access token, executeLogic runs injected logic in it.  Both handlers *)
(* run on one event loop and are interrupted at every await: token         *)
(* validation, key generation, key decapsulation, the worker pool, a       *)
(* proxied tool call and the PII scan.  A handler's code between two       *)
(* awaits is one action.                                                   *)
(***************************************************************************)
EXTENDS Naturals, Sequences, FiniteSets

CONSTANTS
    Tokens, NoToken,      \* access tokens; a call without an authorization header
    Intents, Calls,       \* negotiateIntent and executeLogic calls
    LogicOf,              \* the kind of logic each executeLogic call sends: "js" or "wasm"
    Presents,             \* the tokens that each intent may present
    Requests,             \* what each call may send: a token, the intent of its session, a proof mode
    AuthModes,            \* configurations: "none", "static" (localTestToken), "jwt"
    StaticToken,          \* config.auth.localTestToken
    ZkMode,               \* the tool policy's zkMode: "none", "optimistic" or "required"
    ProverInstalled,      \* whether the native Groth16 prover can be loaded
    MaxThreads, MaxQueue, \* workerPool.maxThreads and maxQueue
    TTL,                  \* MAX_SESSION_KEY_LIFETIME_MS
    MaxClock,             \* bound on the clock
    MaxAuditFaults        \* bound on failed appends to the audit file

ASSUME ServiceAssumption ==
    /\ NoToken \notin Tokens
    /\ LogicOf \in [Calls -> {"js", "wasm"}]
    /\ Presents \in [Intents -> SUBSET (Tokens \cup {NoToken})]
    /\ Requests \in [Calls -> SUBSET [token : Tokens \cup {NoToken}, session : Intents,
                                      mode : {"legacy", "optimistic", "blocking"}]]
    /\ AuthModes \subseteq {"none", "static", "jwt"}
    /\ StaticToken \in Tokens
    /\ ZkMode \in {"none", "optimistic", "required"}
    /\ ProverInstalled \in BOOLEAN
    /\ MaxThreads \in Nat \ {0} /\ MaxQueue \in Nat /\ TTL \in Nat /\ MaxClock \in Nat /\ MaxAuditFaults \in Nat

VARIABLES
    auth,         \* which kind of authentication the server was configured with
    clock,
    revoked,      \* revokedTokenHashes
    sessions,     \* sessions[i]: the session that intent i created, or NoSession
    negotiation,  \* negotiation[i]: "idle", an await, or the answer
    intentToken,  \* the token intent i presented
    pc,           \* pc[c]: the await at which executeLogic call c is, or "answered"
    call,         \* call[c]: what the handler of c has in its local variables
    queue,        \* the task queue of the worker pool
    answer,       \* answer[c]: what was written to the stream of c
    audit,        \* audit[c]: the statuses recorded for c in the audit chain
    auditFaults,
    deniedAtStart \* deniedAtStart[c]: the tokens already revoked when c arrived

vars == << auth, clock, revoked, sessions, negotiation, intentToken, pc, call,
           queue, answer, audit, auditFaults, deniedAtStart >>

NoSession == [token |-> NoToken, createdAt |-> 0, live |-> FALSE]

NoCall == [token |-> NoToken, session |-> "none", createdAt |-> 0, mode |-> "legacy", proof |-> "none"]

Modes == {"legacy", "optimistic", "blocking"}

Init ==
    /\ auth \in AuthModes
    /\ clock = 0
    /\ revoked = {}
    /\ sessions = [i \in Intents |-> NoSession]
    /\ negotiation = [i \in Intents |-> "idle"]
    /\ intentToken = [i \in Intents |-> NoToken]
    /\ pc = [c \in Calls |-> "idle"]
    /\ call = [c \in Calls |-> NoCall]
    /\ queue = << >>
    /\ answer = [c \in Calls |-> "none"]
    /\ audit = [c \in Calls |-> << >>]
    /\ auditFaults = 0
    /\ deniedAtStart = [c \in Calls |-> {}]

-----------------------------------------------------------------------------
(* What both handlers do with the authorization header before the first    *)
(* await: refuse, go on to validate a JWT, or accept.                      *)
Admission(t) ==
    IF auth = "none" THEN "accepted"
    ELSE IF t = NoToken \/ t \in revoked THEN "refused"
    ELSE IF auth = "static" THEN (IF t = StaticToken THEN "accepted" ELSE "refused")
    ELSE "validate"

Negotiate(i, t) ==
    /\ negotiation[i] = "idle"
    /\ intentToken' = [intentToken EXCEPT ![i] = t]
    /\ negotiation' = [negotiation EXCEPT ![i] =
                         IF Admission(t) = "accepted" THEN "keygen" ELSE Admission(t)]
    /\ UNCHANGED << auth, queue, clock, revoked, sessions, pc, call, answer, audit, auditFaults, deniedAtStart >>

(* jwtValidator.validate resolves and authorizeRequest allows the call, or *)
(* one of them refuses.                                                    *)
ValidateIntent(i) ==
    /\ negotiation[i] = "validate"
    /\ \E r \in {"keygen", "refused"} : negotiation' = [negotiation EXCEPT ![i] = r]
    /\ UNCHANGED << auth, queue, clock, revoked, sessions, intentToken, pc, call, answer, audit,
                    auditFaults, deniedAtStart >>

(* The key pair is ready: the session is stored, with the hash of the      *)
(* token that was presented (no hash when authentication is off).          *)
CreateSession(i) ==
    /\ negotiation[i] = "keygen"
    /\ sessions' = [sessions EXCEPT ![i] =
                      [token |-> IF auth = "none" THEN NoToken ELSE intentToken[i],
                       createdAt |-> clock, live |-> TRUE]]
    /\ negotiation' = [negotiation EXCEPT ![i] = "accepted"]
    /\ UNCHANGED << auth, queue, clock, revoked, intentToken, pc, call, answer, audit, auditFaults, deniedAtStart >>

(* Loading or running the key generator rejects.  Nobody handles it, which *)
(* ends the process (Lives).                                               *)
KeygenFails(i) ==
    /\ negotiation[i] = "keygen"
    /\ negotiation' = [negotiation EXCEPT ![i] = "lost"]
    /\ UNCHANGED << auth, queue, clock, revoked, sessions, intentToken, pc, call, answer, audit,
                    auditFaults, deniedAtStart >>

-----------------------------------------------------------------------------
Expired(createdAt) == clock - createdAt > TTL

Respond(c, a) ==
    /\ pc' = [pc EXCEPT ![c] = "answered"]
    /\ answer' = [answer EXCEPT ![c] = a]

(* The handler ends before any logic is looked at.                         *)
Refuse(c) ==
    /\ Respond(c, "error")
    /\ call' = [call EXCEPT ![c] = NoCall]

(* requestedProofMode: what the client asked for, or the tool's policy when *)
(* it asked for nothing or for the legacy proof.                           *)
EffectiveMode(m) ==
    IF m # "legacy" THEN m
    ELSE IF ZkMode = "required" THEN "blocking"
    ELSE IF ZkMode = "optimistic" THEN "optimistic" ELSE "legacy"

(* Mutant: the session's own token is not looked up in the revocation list. *)
ProceedTrusting(c, k) ==
    LET s == sessions[k.session] IN
    /\ IF ~s.live THEN Refuse(c) /\ UNCHANGED sessions
       ELSE IF Expired(s.createdAt)
            THEN /\ sessions' = [sessions EXCEPT ![k.session] = NoSession]
                 /\ Refuse(c)
       ELSE /\ call' = [call EXCEPT ![c] = [k EXCEPT !.createdAt = s.createdAt]]
            /\ pc' = [pc EXCEPT ![c] = "decapsulate"]
            /\ UNCHANGED << sessions, answer >>

(* proceed, up to its first await: the session must exist, be at most an   *)
(* hour old (it is deleted otherwise) and its token not revoked since.     *)
Proceed(c, k) ==
    LET s == sessions[k.session] IN
    /\ \/ /\ ~s.live
          /\ Refuse(c) /\ UNCHANGED sessions
       \/ /\ s.live /\ Expired(s.createdAt)
          /\ sessions' = [sessions EXCEPT ![k.session] = NoSession]
          /\ Refuse(c)
       \/ /\ s.live /\ ~Expired(s.createdAt) /\ s.token \in revoked
          /\ Refuse(c) /\ UNCHANGED sessions
       \/ /\ s.live /\ ~Expired(s.createdAt) /\ s.token \notin revoked
          /\ call' = [call EXCEPT ![c] = [k EXCEPT !.createdAt = s.createdAt]]
          /\ pc' = [pc EXCEPT ![c] = "decapsulate"]
          /\ UNCHANGED << sessions, answer >>

(* executeLogic is called for the session of intent i; the token presented *)
(* need not be the one the session was negotiated with.                    *)
ReceiveCall(c, t, i, m) ==
    LET k == [NoCall EXCEPT !.token = t, !.session = i, !.mode = m] IN
    /\ pc[c] = "idle"
    /\ deniedAtStart' = [deniedAtStart EXCEPT ![c] = revoked]
    /\ \/ /\ Admission(t) = "refused"
          /\ Refuse(c) /\ UNCHANGED sessions
       \/ /\ Admission(t) = "validate"
          /\ pc' = [pc EXCEPT ![c] = "validate"]
          /\ call' = [call EXCEPT ![c] = k] /\ UNCHANGED << sessions, answer >>
       \/ /\ Admission(t) = "accepted"
          /\ Proceed(c, k)
    /\ UNCHANGED << auth, queue, clock, revoked, negotiation, intentToken, audit, auditFaults >>

ValidateCall(c) ==
    /\ pc[c] = "validate"
    /\ \/ Proceed(c, call[c])
       \/ Refuse(c) /\ UNCHANGED sessions
    /\ UNCHANGED << auth, queue, clock, revoked, negotiation, intentToken, audit, auditFaults, deniedAtStart >>

(* Mutant: nobody catches an exception that leaves proceed.                *)
CatchErrorUnguarded(c, a, f) ==
    /\ audit' = [audit EXCEPT ![c] = Append(a, "ERROR")]
    /\ \/ auditFaults' = f /\ Respond(c, "error")
       \/ /\ f < MaxAuditFaults /\ auditFaults' = f + 1
          /\ pc' = [pc EXCEPT ![c] = "lost"] /\ UNCHANGED answer

(* The outer catch of proceed, entered with the entries a of the chain and *)
(* f failed appends: record the error, then answer.  If recording throws   *)
(* as well, the exception leaves proceed; only the JWT path catches it.    *)
(* Elsewhere it is a rejection that nobody handles, which ends the process.*)
CatchError(c, a, f) ==
    /\ audit' = [audit EXCEPT ![c] = Append(a, "ERROR")]
    /\ \/ /\ auditFaults' = f
          /\ Respond(c, "error")
       \/ /\ f < MaxAuditFaults
          /\ auditFaults' = f + 1
          /\ IF auth = "jwt" THEN Respond(c, "error")
             ELSE /\ pc' = [pc EXCEPT ![c] = "lost"]
                  /\ UNCHANGED answer

Fail(c) == CatchError(c, audit[c], auditFaults)

Running == {c \in Calls : pc[c] = "running"}

(* The payload is decrypted and the preflight policy run on it; the worker *)
(* task is queued, or refused when the pool's queue is full.  Neither a    *)
(* failed decryption nor a preflight rejection is recorded in the audit    *)
(* chain.                                                                  *)
Decapsulate(c) ==
    /\ pc[c] = "decapsulate"
    /\ \/ \E a \in {"error", "rejected"} : Respond(c, a) /\ UNCHANGED << call, queue, audit, auditFaults >>
       \/ /\ call' = [call EXCEPT ![c].mode = EffectiveMode(@)]
          /\ \/ /\ Len(queue) + Cardinality(Running) >= MaxThreads + MaxQueue
                /\ Fail(c) /\ UNCHANGED queue
             \/ /\ Len(queue) + Cardinality(Running) < MaxThreads + MaxQueue
                /\ queue' = Append(queue, c)
                /\ pc' = [pc EXCEPT ![c] = "queued"]
                /\ UNCHANGED << answer, audit, auditFaults >>
    /\ UNCHANGED << auth, clock, revoked, sessions, negotiation, intentToken, deniedAtStart >>

(* A worker thread takes the oldest task; it checks the age of the session again. *)
WorkerStart(c) ==
    /\ queue # << >> /\ c = Head(queue)
    /\ Cardinality(Running) < MaxThreads
    /\ queue' = Tail(queue)
    /\ \/ /\ Expired(call[c].createdAt)
          /\ Fail(c)
       \/ /\ ~Expired(call[c].createdAt)
          /\ pc' = [pc EXCEPT ![c] = "running"]
          /\ UNCHANGED << answer, audit, auditFaults >>
    /\ UNCHANGED << auth, clock, revoked, sessions, negotiation, intentToken, call, deniedAtStart >>

(* Mutant: a missing prover yields the placeholder proof in every mode.    *)
ProofsLenient(m) ==
    IF m = "legacy" THEN {"hmac"}
    ELSE (IF ProverInstalled THEN {"native"} ELSE {}) \cup {"placeholder"}

(* The proofs a run in mode m can end with: the native prover's, or, in    *)
(* optimistic mode when it is missing or fails, 128 bytes of 0x42.         *)
Proofs(m) ==
    IF m = "legacy" THEN {"hmac"}
    ELSE (IF ProverInstalled THEN {"native"} ELSE {})
         \cup (IF m = "optimistic" THEN {"placeholder"} ELSE {})

(* proof_type of a worker response: a placeholder is labelled GROTH16 too. *)
IsGroth16(proof) == proof \in {"native", "placeholder"}

(* What follows the worker or the proxied tool, up to the PII scan.        *)
OutputPolicy(c) ==
    \/ Respond(c, "rejected")
    \/ pc' = [pc EXCEPT ![c] = "scan"] /\ UNCHANGED answer

(* The worker fails, or ends with a proof: then the proof mode is enforced *)
(* and the output is either a proxied tool call to make or is checked      *)
(* against the output policy.                                              *)
WorkerFinish(c) ==
    /\ pc[c] = "running"
    /\ \/ Fail(c) /\ UNCHANGED call
       \/ \E proof \in Proofs(call[c].mode) :
            /\ call' = [call EXCEPT ![c].proof = proof]
            /\ IF call[c].mode = "blocking" /\ ~IsGroth16(proof)
               THEN Respond(c, "rejected")
               ELSE \/ pc' = [pc EXCEPT ![c] = "proxy"] /\ UNCHANGED answer
                    \/ OutputPolicy(c)
            /\ UNCHANGED << audit, auditFaults >>
    /\ UNCHANGED << auth, queue, clock, revoked, sessions, negotiation, intentToken, deniedAtStart >>

(* The proxied tool answers with an error, which ends the call; or it      *)
(* answers or throws, and the output policy is checked.                    *)
ProxyReturns(c) ==
    /\ pc[c] = "proxy"
    /\ Respond(c, "error") \/ OutputPolicy(c)
    /\ UNCHANGED << auth, queue, clock, revoked, sessions, negotiation, intentToken, call, audit,
                    auditFaults, deniedAtStart >>

(* Mutant: the response is written before the outcome is recorded.         *)
ScanAnswersFirst(c) ==
    /\ pc[c] = "scan"
    /\ \E blocked \in BOOLEAN :
         /\ Respond(c, IF blocked THEN "blocked" ELSE "success")
         /\ \/ /\ audit' = [audit EXCEPT ![c] = Append(@, IF blocked THEN "BLOCKED_EGRESS" ELSE "SUCCESS")]
               /\ UNCHANGED auditFaults
            \/ /\ auditFaults < MaxAuditFaults /\ auditFaults' = auditFaults + 1
               /\ audit' = [audit EXCEPT ![c] = Append(@, "ERROR")]
    /\ UNCHANGED << auth, queue, clock, revoked, sessions, negotiation, intentToken, call, deniedAtStart >>

(* The PII scan ends: the result is released or blocked, after the outcome *)
(* was recorded.  A record that throws leads to the catch.                 *)
Scan(c) ==
    /\ pc[c] = "scan"
    /\ \/ \E blocked \in BOOLEAN :
            LET status == IF blocked THEN "BLOCKED_EGRESS" ELSE "SUCCESS" IN
            \/ /\ audit' = [audit EXCEPT ![c] = Append(@, status)]
               /\ UNCHANGED auditFaults
               /\ Respond(c, IF blocked THEN "blocked" ELSE "success")
            \/ /\ auditFaults < MaxAuditFaults
               /\ CatchError(c, Append(audit[c], status), auditFaults + 1)
       \/ Fail(c)
    /\ UNCHANGED << auth, queue, clock, revoked, sessions, negotiation, intentToken, call, deniedAtStart >>

(* revokeToken, through this process; RevocationList models the file.      *)
RevokeToken(t) ==
    /\ t \notin revoked
    /\ revoked' = revoked \cup {t}
    /\ UNCHANGED << auth, queue, clock, sessions, negotiation, intentToken, pc, call, answer, audit,
                    auditFaults, deniedAtStart >>

Tick ==
    /\ clock < MaxClock
    /\ clock' = clock + 1
    /\ UNCHANGED << auth, queue, revoked, sessions, negotiation, intentToken, pc, call, answer, audit,
                    auditFaults, deniedAtStart >>

-----------------------------------------------------------------------------
Resume(c) ==
    ValidateCall(c) \/ Decapsulate(c) \/ WorkerStart(c) \/ WorkerFinish(c)
    \/ ProxyReturns(c) \/ Scan(c)

(* Node.js ends a process in which a promise is rejected and nobody        *)
(* handles it: whatever is under way then is never answered.               *)
Lives == /\ \A i \in Intents : negotiation[i] # "lost"
         /\ \A c \in Calls : pc[c] # "lost"

Step ==
    \/ \E i \in Intents : \/ \E t \in Presents[i] : Negotiate(i, t)
                          \/ ValidateIntent(i) \/ CreateSession(i) \/ KeygenFails(i)
    \/ \E c \in Calls : \/ \E r \in Requests[c] : ReceiveCall(c, r.token, r.session, r.mode)
                        \/ Resume(c)
    \/ \E t \in Tokens : RevokeToken(t)
    \/ Tick

Next == Lives /\ Step

(* The awaited operations end: validation, key generation, decapsulation,  *)
(* a tool's handler and the scan are finite.  JavaScript runs under a      *)
(* limit of five seconds; nothing limits a WebAssembly module, so its run  *)
(* need not end.                                                           *)
Fairness ==
    /\ \A i \in Intents : WF_vars(Lives /\ (ValidateIntent(i) \/ CreateSession(i) \/ KeygenFails(i)))
    /\ \A c \in Calls :
        /\ WF_vars(Lives /\ (ValidateCall(c) \/ Decapsulate(c) \/ ProxyReturns(c) \/ Scan(c)))
        /\ WF_vars(Lives /\ WorkerStart(c))
        /\ WF_vars(Lives /\ LogicOf[c] = "js" /\ WorkerFinish(c))

Spec == Init /\ [][Next]_vars /\ Fairness
-----------------------------------------------------------------------------
(* Types of the two handlers' state: every intent and every call is at an  *)
(* await of the code or has ended.                                         *)
TypeOK ==
    /\ clock \in 0 .. MaxClock /\ auditFaults \in 0 .. MaxAuditFaults
    /\ revoked \subseteq Tokens
    /\ sessions \in [Intents -> [token : Tokens \cup {NoToken}, createdAt : Nat, live : BOOLEAN]]
    /\ negotiation \in [Intents -> {"idle", "validate", "keygen", "accepted", "refused", "lost"}]
    /\ intentToken \in [Intents -> Tokens \cup {NoToken}]
    /\ pc \in [Calls -> {"idle", "validate", "decapsulate", "queued", "running", "proxy",
                         "scan", "answered", "lost"}]
    /\ call \in [Calls -> [token : Tokens \cup {NoToken}, session : Intents \cup {"none"},
                           createdAt : Nat, mode : Modes,
                           proof : {"none", "hmac", "native", "placeholder"}]]
    /\ queue \in Seq(Calls)
    /\ answer \in [Calls -> {"none", "error", "rejected", "blocked", "success"}]
    /\ audit \in [Calls -> Seq({"SUCCESS", "BLOCKED_EGRESS", "ERROR"})]
    /\ deniedAtStart \in [Calls -> SUBSET Tokens]

(* The one-hour limit holds when logic starts to run, however long the     *)
(* call waited for its token, its key or a worker thread.                  *)
RunsOnlyFresh ==
    [][\A c \in Calls : (pc[c] # "running" /\ pc'[c] = "running")
                          => clock - call[c].createdAt <= TTL]_vars

(* No logic runs in a session negotiated with a token that was revoked     *)
(* before the call came in, even if the call itself presents another token *)
(* and even if the revocation came while the session was being created.    *)
RevocationIsHonoured ==
    \A c \in Calls : pc[c] \in {"queued", "running", "proxy", "scan"} =>
        /\ intentToken[call[c].session] \in deniedAtStart[c] => auth = "none"
        /\ call[c].token \in deniedAtStart[c] => auth = "none"

(* Injected logic runs only where it is entitled to: no session of a token *)
(* revoked before the call came in, and none past its hour.                *)
OnlyEntitledLogicRuns == [](TypeOK /\ RevocationIsHonoured) /\ RunsOnlyFresh

(* A released or blocked result has exactly its own entry in the audit     *)
(* chain; a call with a SUCCESS entry was not answered otherwise unless an *)
(* append to the audit file failed.                                        *)
ReleasedIsRecorded ==
    \A c \in Calls :
        /\ answer[c] = "success" => audit[c] = << "SUCCESS" >>
        /\ answer[c] = "blocked" => audit[c] = << "BLOCKED_EGRESS" >>
        /\ (auditFaults = 0 /\ audit[c] # << >>) =>
             /\ Len(audit[c]) = 1
             /\ audit[c] = << "SUCCESS" >> <=> answer[c] = "success"

(* In blocking mode nothing is released without a proof of the native      *)
(* prover: the proof type alone would not tell it from a placeholder.      *)
BlockingHasProof ==
    \A c \in Calls : (answer[c] = "success" /\ call[c].mode = "blocking")
                       => call[c].proof = "native"

(* A tool whose policy says zkMode "required" releases nothing without a   *)
(* proof of the native prover, whatever proof mode the client asked for.   *)
RequiredIsEnforced ==
    \A c \in Calls : (ZkMode = "required" /\ answer[c] = "success")
                       => call[c].proof = "native"

(* While the process lives every executeLogic call is answered, however    *)
(* many of its awaits fail and whatever the queue holds, unless a          *)
(* WebAssembly module that never returns, for which the sandbox has no     *)
(* time limit, holds a worker thread; and so is every negotiation.  No     *)
(* failure of a call ends the process and takes the others with it, except *)
(* that recording a failure in the catch block fails too where nothing     *)
(* above it catches; the one other way is a key generation that rejects.   *)
EveryCallAnswered ==
    /\ \A c \in Calls : pc[c] # "idle" ~>
        pc[c] = "answered" \/ ~Lives \/ \E d \in Running : LogicOf[d] = "wasm"
    /\ \A i \in Intents : negotiation[i] # "idle" ~> negotiation[i] \in {"accepted", "refused"} \/ ~Lives
    /\ [](\A c \in Calls : pc[c] = "lost" => auth # "jwt" /\ auditFaults > 0)
==============================================================================
