----------------------------- MODULE LiopClient -----------------------------
(***************************************************************************)
(* LiopClient (client/index.ts) with its LiopRpcClient connections         *)
(* (rpc/client.ts): concurrent calls of one tool that several providers    *)
(* offer, from the choice of a connection through the negotiation, which   *)
(* may refresh the token, to the events of the answer stream and the       *)
(* verification of the receipt in the worker pool.                         *)
(*                                                                         *)
(* A provider that moves gets a new address; a connection has the address  *)
(* it was made with.  Tokens are numbered; a provider accepts the current  *)
(* one.  The token manager itself is in TokenManager.                      *)
(***************************************************************************)
EXTENDS Naturals, Sequences, FiniteSets, SequencesExt, ReceiptVerifier

CONSTANTS
    Calls,
    Providers,
    Tool,          \* the name of the tool, also a key of rpcClients
    Static,        \* the provider connected to by address, or NoValue
    OwnToken,      \* providers with a token of their own in the environment
    Managed,       \* whether there is a token manager
    LogicOf,       \* the payload of each call
    PolicyOf,      \* options.zkPolicy of each call, or NoValue
    Registered,    \* whether the circuit's verification key is registered
    Answers(_),    \* responses that may be delivered to a call
    MaxData,       \* bound: how many of them, for each call
    MaxFaults      \* bound: moves, expirations and failures

ASSUME LiopClientAssumption ==
    /\ MaxFaults \in Nat /\ MaxData \in [Calls -> Nat] /\ {Managed, Registered} \subseteq BOOLEAN
    /\ OwnToken \subseteq Providers /\ Static \in Providers \cup {NoValue}
    /\ NoValue \notin Calls
    \* The evidence is a string of the response, empty if nothing was sent.
    /\ \A c \in Calls : \A a \in Answers(c) : a.evidence # NoValue

VARIABLES
    where,         \* the address of each provider, as a number
    manifests,     \* the manifest cache, in order of insertion
    rpcClients,    \* connections by key: "static", a provider or the tool
    conns,         \* all connections ever made: peer, address and source of the token
    valid,         \* the token providers accept now
    managed,       \* the token the manager hands out
    call,          \* the calls and their local variables
    faults

vars == <<where, manifests, rpcClients, conns, valid, managed, call, faults>>

Idle == [stage |-> "idle", key |-> NoValue, conn |-> 0, arg |-> <<>>, open |-> FALSE, received |-> 0,
         verifying |-> {}, sent |-> <<>>, refused |-> 0, outcome |-> "none", answer |-> <<>>]
Settled(c) == call[c].stage = "settled"
Fault == faults < MaxFaults /\ faults' = faults + 1

\* Call c and its local variables from now on.
Set(c, rec) == call' = [call EXCEPT ![c] = rec]
\* A call that is done with its connection.
Closed(rec) == [rec EXCEPT !.key = NoValue, !.conn = 0, !.arg = <<>>, !.open = FALSE]
Reject(c, why) == Set(c, [Closed(call[c]) EXCEPT !.stage = "settled", !.outcome = why])

(***************************************************************************)
(* Choosing a connection.                                                  *)
(***************************************************************************)
Connection(p, at, token) == [peer |-> p, at |-> at, token |-> token]
Resolver == <<"resolver", 0>>
Own(p) == <<"own", p>>
Issued(n) == <<"issued", n>>

\* getOrCreateRpcClient.  A connection for a tool takes the token of the first
\* cached manifest that lists it.
Owner(key) == IF key \in Providers THEN key
              ELSE IF manifests = <<>> THEN NoValue ELSE manifests[1].peer

\* The call goes on with connection n, or waits for the mesh.
Connects(c, key, n) ==
    Set(c, [call[c] EXCEPT !.stage = "token", !.key = key, !.conn = n, !.arg = <<>>, !.open = TRUE])
Waits(c, stage, arg) == Set(c, [call[c] EXCEPT !.stage = stage, !.arg = arg, !.open = TRUE])

GetOrCreate(c, key, p, at) ==
    IF key \in DOMAIN rpcClients
    THEN Connects(c, key, rpcClients[key]) /\ UNCHANGED <<rpcClients, conns>>
    ELSE LET n == Len(conns) + 1
         IN /\ conns' = Append(conns, Connection(p, at, IF Owner(key) \in OwnToken THEN Own(Owner(key)) ELSE Resolver))
            /\ rpcClients' = [k \in DOMAIN rpcClients \cup {key} |-> IF k = key THEN n ELSE rpcClients[k]]
            /\ Connects(c, key, n)

\* The scan of the manifest cache from entry i, up to the next await.
Scan(c, i) ==
    /\ IF i > Len(manifests) THEN Waits(c, "find", <<>>)
       ELSE LET p == manifests[i].peer
            IN IF p \in DOMAIN rpcClients THEN Connects(c, p, rpcClients[p])
               ELSE Waits(c, "resolve", <<i, p, manifests[i].at>>)
    /\ UNCHANGED <<rpcClients, conns>>

\* callTool up to its first await.  A connection reused for the tool goes on under
\* the key "static".
CallTool(c) ==
    /\ call[c] = Idle
    /\ LET reused == {"static", Tool} \cap DOMAIN rpcClients
       IN IF reused # {}
          THEN /\ Connects(c, "static", rpcClients[IF "static" \in reused THEN "static" ELSE Tool])
               /\ UNCHANGED <<rpcClients, conns>>
          ELSE Scan(c, 1)
    /\ UNCHANGED <<where, manifests, valid, managed, faults>>

\* resolvePeer of a cached provider found an address, or not.  The manifest is the
\* one the scan came upon, whatever the cache holds by now.
CachedResolved(c) ==
    /\ call[c].stage = "resolve"
    /\ LET arg == call[c].arg
       IN \/ GetOrCreate(c, arg[2], arg[2], arg[3]) /\ UNCHANGED faults
          \/ Scan(c, arg[1] + 1) /\ Fault
    /\ UNCHANGED <<where, manifests, valid, managed>>

Cached(p) == {i \in DOMAIN manifests : manifests[i].peer = p}

Remember(p) ==
    IF Cached(p) = {} THEN Append(manifests, [peer |-> p, at |-> where[p]])
    ELSE [i \in DOMAIN manifests |-> IF i \in Cached(p) THEN [peer |-> p, at |-> where[p]] ELSE manifests[i]]

\* resolveCapability: findProviders, queryManifest of the first one and, in the
\* next step, resolvePeer.  Without a manifest the default port is taken.
Queried(c) ==
    /\ call[c].stage = "find"
    /\ \/ \E p \in Providers :
             \/ /\ manifests' = Remember(p) /\ UNCHANGED faults
                /\ Waits(c, "address", <<p, where[p]>>)
             \/ /\ Fault /\ UNCHANGED manifests
                /\ Waits(c, "address", <<p, 0>>)
       \/ Reject(c, "no provider") /\ Fault /\ UNCHANGED manifests
    /\ UNCHANGED <<where, rpcClients, conns, valid, managed>>

AddressResolved(c) ==
    /\ call[c].stage = "address"
    /\ GetOrCreate(c, Tool, call[c].arg[1], call[c].arg[2])
    /\ UNCHANGED <<where, manifests, valid, managed, faults>>

\* discoverTools: providers are asked for the manifests that are not cached.
DiscoverTools(p, force) ==
    /\ force \/ Cached(p) = {}
    /\ Remember(p) # manifests
    /\ manifests' = Remember(p)
    /\ UNCHANGED <<where, rpcClients, conns, valid, managed, call, faults>>

(***************************************************************************)
(* Negotiation.                                                            *)
(***************************************************************************)
\* resolveToken of the connection, then the request is under way.
ResolveToken(c) ==
    /\ call[c].stage = "token"
    /\ LET t == conns[call[c].conn].token
       IN Set(c, [call[c] EXCEPT !.stage = "intent",
                                 !.sent = Append(call[c].sent, IF t = Resolver THEN Issued(managed) ELSE t)])
    /\ UNCHANGED <<where, manifests, rpcClients, conns, valid, managed, faults>>

Accepts(p, token) == token = Issued(valid) \/ (p \in OwnToken /\ token = Own(p))
Authenticated(c) == Accepts(conns[call[c].conn].peer, Last(call[c].sent))
Reached(c) == conns[call[c].conn].at = where[conns[call[c].conn].peer]

\* The key is encapsulated, the payload sealed and executeLogic called.
IntentAccepted(c) ==
    /\ call[c].stage = "intent" /\ Reached(c) /\ Authenticated(c)
    /\ Set(c, [call[c] EXCEPT !.stage = "stream", !.sent = <<>>, !.refused = 0])
    /\ UNCHANGED <<where, manifests, rpcClients, conns, valid, managed, faults>>

\* The token is refused, by an error or by an answer that says so.  An error is
\* retried once, an answer once, so that an error and then an answer are retried
\* twice.
Refreshes(c, by) ==
    /\ Managed
    /\ call[c].refused = 0 \/ (call[c].refused = 1 /\ by = "answer")

\* The fresh token is fixed in the connection in place of its resolver.
IntentRefused(c, by) ==
    /\ call[c].stage = "intent" /\ Reached(c) /\ ~Authenticated(c)
    /\ IF Refreshes(c, by)
       THEN /\ managed' = valid
            /\ conns' = [conns EXCEPT ![call[c].conn] = [conns[call[c].conn] EXCEPT !.token = Issued(valid)]]
            /\ Set(c, [call[c] EXCEPT !.stage = "token", !.refused = IF by = "answer" THEN 2 ELSE 1])
       ELSE Reject(c, "unauthenticated") /\ UNCHANGED <<managed, conns>>
    /\ UNCHANGED <<where, manifests, rpcClients, valid, faults>>

\* Nobody at the address, the intent is denied for another reason, the manager
\* gets no token or the encapsulation fails: the error is the caller's, and the
\* connection stays in the cache.
NegotiationFails(c) ==
    /\ call[c].stage \in {"token", "intent"}
    /\ (call[c].stage = "intent" /\ ~Reached(c) /\ UNCHANGED faults) \/ Fault
    /\ Reject(c, "failed")
    /\ UNCHANGED <<where, manifests, rpcClients, conns, valid, managed>>

(***************************************************************************)
(* The answer stream.                                                      *)
(***************************************************************************)
\* A promise settles once.
Fulfilled(c) == call[c].outcome \in {"verified", "error"}
SettlesAs(c, outcome, a) ==
    IF Settled(c) THEN call[c]
    ELSE [call[c] EXCEPT !.stage = "settled", !.outcome = outcome, !.answer = a]
OnStream(c) == call[c].stage \in {"stream", "settled"} /\ call[c].open

\* 'data': ignored once a result was delivered; an error needs no receipt.
Data(c, a) ==
    /\ OnStream(c) /\ ~Fulfilled(c)
    /\ call[c].received < MaxData[c]
    /\ LET taken == IF a.isError THEN SettlesAs(c, "error", a)
                    ELSE [call[c] EXCEPT !.verifying = call[c].verifying \cup {a}]
       IN Set(c, [taken EXCEPT !.received = call[c].received + 1])
    /\ UNCHANGED <<where, manifests, rpcClients, conns, valid, managed, faults>>

Options(c, a) ==
    [secret |-> c, output |-> a.evidence, guest |-> NoValue, vkey |-> FALSE,
     policy |-> IF PolicyOf[c] # NoValue THEN PolicyOf[c]
                ELSE IF a.receipt.version = 2 THEN "required" ELSE "none"]

\* The worker pool has verified a receipt.
Verified(c, a) ==
    /\ call[c].stage \in {"stream", "settled"} /\ a \in call[c].verifying
    /\ LET ok == VerifyInPool(a.receipt, LogicOf[c], a.image, Options(c, a), Registered)
           judged == SettlesAs(c, IF ok THEN "verified" ELSE "refused", a)
       IN Set(c, [judged EXCEPT !.verifying = call[c].verifying \ {a}])
    /\ UNCHANGED <<where, manifests, rpcClients, conns, valid, managed, faults>>

Without(f, keys) == [k \in DOMAIN f \ keys |-> f[k]]

\* Keep-alive notices that the provider has gone; anything else is a fault.
Breaks(c) == (~Reached(c) /\ UNCHANGED faults) \/ Fault

(* Mutant: only the entry of the tool is evicted.                          *)
StreamFailsTool(c) ==
    /\ OnStream(c) /\ Breaks(c)
    /\ rpcClients' = Without(rpcClients, {Tool})
    /\ Set(c, Closed(SettlesAs(c, "failed", <<>>)))
    /\ UNCHANGED <<where, manifests, conns, valid, managed>>

\* 'error': the connection is evicted under the key it was chosen by and under the
\* name of the tool; a verification under way no longer counts.
StreamFails(c) ==
    /\ OnStream(c) /\ Breaks(c)
    /\ rpcClients' = Without(rpcClients, {call[c].key, Tool})
    /\ Set(c, Closed(SettlesAs(c, "failed", <<>>)))
    /\ UNCHANGED <<where, manifests, conns, valid, managed>>

(* Mutant: the end of the stream is taken for the end of the call.         *)
StreamEndsQuietly(c) ==
    /\ OnStream(c) /\ Reached(c)
    /\ Set(c, Closed(call[c]))
    /\ UNCHANGED <<where, manifests, rpcClients, conns, valid, managed, faults>>

\* 'end': an answer that is being verified settles the call later.  (An end sent
\* by a provider before it moves is an end before the move.)
StreamEnds(c) ==
    /\ OnStream(c) /\ Reached(c)
    /\ Set(c, Closed(IF call[c].received = 0 THEN SettlesAs(c, "failed", <<>>) ELSE call[c]))
    /\ UNCHANGED <<where, manifests, rpcClients, conns, valid, managed, faults>>

(***************************************************************************)
(* The world.                                                              *)
(***************************************************************************)
Moves(p) ==
    /\ Fault /\ where' = [where EXCEPT ![p] = @ + 1]
    /\ UNCHANGED <<manifests, rpcClients, conns, valid, managed, call>>

Expires ==
    /\ Fault /\ valid' = valid + 1
    /\ UNCHANGED <<where, manifests, rpcClients, conns, managed, call>>

\* connect: the mesh node has started; with an address a connection is there.
Init ==
    /\ where = [p \in Providers |-> 0]
    /\ manifests = <<>>
    /\ conns = IF Static = NoValue THEN <<>> ELSE <<Connection(Static, 0, Resolver)>>
    /\ rpcClients = [k \in IF Static = NoValue THEN {} ELSE {"static"} |-> 1]
    /\ valid = 1 /\ managed = 1
    /\ call = [c \in Calls |-> Idle]
    /\ faults = 0

\* What the call waits for ends by itself: lookups, the token, the verification,
\* and whatever it asks of a provider that is gone.
Continues(c) ==
    \/ CachedResolved(c) \/ Queried(c) \/ AddressResolved(c) \/ ResolveToken(c)
    \/ \E a \in call[c].verifying : Verified(c, a)
    \/ call[c].open /\ call[c].conn # 0 /\ ~Reached(c) /\ (NegotiationFails(c) \/ StreamFails(c))

\* What is up to the provider, or a fault.
Provided(c) ==
    \/ IntentAccepted(c) \/ NegotiationFails(c) \/ StreamEnds(c) \/ StreamFails(c)
    \/ \E by \in {"error", "answer"} : IntentRefused(c, by)
    \/ \E a \in Answers(c) : Data(c, a)

Next ==
    \/ \E c \in Calls : CallTool(c) \/ Continues(c) \/ Provided(c)
    \/ \E p \in Providers, force \in BOOLEAN : DiscoverTools(p, force)
    \/ \E p \in Providers : Moves(p)
    \/ Expires

\* The mesh's lookups and the token manager's fetch have time-outs, the workers
\* verify in finite time, and keep-alive notices a provider that is gone.  A
\* provider that lives owes nothing: neither request has a deadline.
Fairness == \A c \in Calls : WF_vars(Continues(c))

Spec == Init /\ [][Next]_vars /\ Fairness

(***************************************************************************)
(* Properties.                                                             *)
(***************************************************************************)
(* A call that reports a verified result has a receipt for its own logic,  *)
(* for the very evidence it returns (unless the logic is a proxy, which    *)
(* commits to its request), as strong as its policy asks, and, if sealed,  *)
(* sealed in this session, in whatever order data, end, error and the end  *)
(* of the verification came.                                               *)
VerifiedIsBound ==
    \A c \in Calls : (Settled(c) /\ call[c].outcome = "verified") =>
        LET a == call[c].answer
        IN /\ ~a.isError /\ a.receipt.logic = LogicOf[c]
           /\ LogicOf[c].proxy \/ a.receipt.output = <<"result", a.evidence>>
           /\ a.receipt.version = 1 => a.receipt.secret = c
           /\ PolicyOf[c] = "required" => a.receipt.version = 2

(* The connection whose stream failed is out of the cache, whichever of    *)
(* the three ways it was chosen by and whatever other calls did meanwhile. *)
FaultedIsEvicted ==
    [][\A c \in Calls :
          (OnStream(c) /\ ~call'[c].open /\ (faults' > faults \/ ~Reached(c)))
              => \A k \in DOMAIN rpcClients' : rpcClients'[k] # call[c].conn]_vars

(* A call fails for want of authentication only if it was already retried  *)
(* with a token that was fetched after the first refusal.                  *)
RefusedTwice ==
    \A c \in Calls :
        (Settled(c) /\ call[c].outcome = "unauthenticated" /\ Managed) =>
            Len(call[c].sent) >= 2 /\ Head(call[c].sent) # Last(call[c].sent)

\* A provider that lives has the intent, or the logic, and has answered nothing.
Owed(c) ==
    /\ call[c].stage \in {"intent", "stream"} /\ call[c].open /\ Reached(c)
    /\ call[c].received = 0

(* A call that does not settle waits for a provider that lives and has not *)
(* answered: nothing else leaves callTool pending, in whatever order data, *)
(* error and end come while receipts are verified, however the token is    *)
(* refused and retried, and wherever the provider goes meanwhile.          *)
EveryCallSettles == []<>(\A c \in Calls : call[c] = Idle \/ Settled(c) \/ Owed(c))
=============================================================================
