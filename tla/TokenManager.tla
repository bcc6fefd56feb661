---------------------------- MODULE TokenManager ----------------------------
(***************************************************************************)
(* TokenManager caches an OAuth access token for the requests that the     *)
(* agent forwards to a gateway: concurrent callers share one request to    *)
(* the token endpoint, a token is renewed before it expires, and a 401     *)
(* discards it and repeats the request once.                               *)
(***************************************************************************)
EXTENDS Integers, FiniteSets

CONSTANTS
    Callers,         \* calls of forwardToGateway
    HasCredentials,  \* options clientId and clientSecret
    Life,            \* expires_in: longer than a request for a token may take
    Buffer,          \* REFRESH_BUFFER_MS
    Latency,         \* the timeout of a request to the token endpoint
    MaxTokens, MaxRotations, MaxClock \* bounds on tokens issued, key rotations and time

ASSUME TokenAssumption ==
    /\ HasCredentials \in BOOLEAN
    /\ {Life, Buffer, Latency, MaxTokens, MaxRotations, MaxClock} \subseteq Nat
    /\ Latency <= Buffer /\ Latency < Life

None == -1
Static == 0

VARIABLES
    clock,
    static,     \* whether staticToken is set
    cached,     \* cachedToken
    expiresAt,
    pending,    \* pendingPromise: [state, token]
    exp,        \* exp[t]: when token t really expires; DOMAIN exp: tokens issued
    issuedAt,   \* issuedAt[t]: when token t was issued
    rotated,    \* tokens up to this one were signed with a discarded key
    rotations,
    pc, token, attempt, \* per caller: its await, the token it sent, 1 or 2
    sentAt,     \* when the caller sent its latest request
    rejected,   \* rejected[c]: the token with which the first attempt of c was refused
    between     \* callers that read the cache between the two continuations of a fetch

tokenVars == << clock, static, cached, expiresAt, pending, exp, issuedAt, rotated, rotations,
           pc, token, attempt, sentAt, rejected, between >>

NoFetch == [state |-> "none", token |-> None]
Issued == Cardinality(DOMAIN exp)

TokenInit ==
    /\ clock = 0
    /\ static \in BOOLEAN
    /\ cached = None /\ expiresAt = 0
    /\ pending = NoFetch
    /\ exp = << >> /\ issuedAt = << >>
    /\ rotated = -1 /\ rotations = 0
    /\ pc = [c \in Callers |-> "idle"]
    /\ token = [c \in Callers |-> None]
    /\ attempt = [c \in Callers |-> 0]
    /\ sentAt = [c \in Callers |-> 0]
    /\ rejected = [c \in Callers |-> None]
    /\ between = {}

-----------------------------------------------------------------------------
Send(c, t) ==
    /\ pc' = [pc EXCEPT ![c] = "sent"]
    /\ token' = [token EXCEPT ![c] = t]
    /\ sentAt' = [sentAt EXCEPT ![c] = clock]

(* Mutant: a token is returned from the cache until it expires.            *)
UsableToTheEnd(t, e) == t # None /\ clock < e

(* The cached token is not close to its expiry.                            *)
Usable(t, e) == t # None /\ clock < e - Buffer

(* getToken, with static token s, cached token t and expiry e: the static  *)
(* token, the cached one, or the one that the pending request brings; if   *)
(* there is no such request it is sent.                                    *)
GetToken(c, s, t, e) ==
    \/ s /\ Send(c, Static) /\ UNCHANGED pending
    \/ ~s /\ Usable(t, e) /\ Send(c, t) /\ UNCHANGED pending
    \/ /\ ~s /\ ~Usable(t, e)
       /\ pc' = [pc EXCEPT ![c] = "await"]
       /\ pending' = IF pending = NoFetch THEN [state |-> "requested", token |-> None] ELSE pending
       /\ UNCHANGED << token, sentAt >>

Forward(c) ==
    /\ pc[c] = "idle"
    /\ attempt' = [attempt EXCEPT ![c] = 1]
    /\ GetToken(c, static, cached, expiresAt)
    /\ between' = IF pending.state = "received" THEN between \cup {c} ELSE between
    /\ UNCHANGED << clock, static, cached, expiresAt, exp, issuedAt, rotated, rotations, rejected >>

-----------------------------------------------------------------------------
(* The token endpoint issues a token.                                      *)
Issue ==
    /\ pending.state = "requested" /\ Issued < MaxTokens
    /\ LET t == Issued + 1 IN
         /\ exp' = [n \in 1 .. t |-> IF n = t THEN clock + Life ELSE exp[n]]
         /\ issuedAt' = [n \in 1 .. t |-> IF n = t THEN clock ELSE issuedAt[n]]
         /\ pending' = [state |-> "issued", token |-> t]
    /\ UNCHANGED << clock, static, cached, expiresAt, rotated, rotations, pc, token, attempt, sentAt, rejected, between >>

(* fetchNewToken ends: the expiry is set, counted from the arrival.        *)
Receive ==
    /\ pending.state = "issued"
    /\ clock - issuedAt[pending.token] <= Latency
    /\ expiresAt' = clock + Life
    /\ pending' = [pending EXCEPT !.state = "received"]
    /\ UNCHANGED << clock, static, cached, exp, issuedAt, rotated, rotations, pc, token, attempt, sentAt, rejected, between >>

(* The promise of getToken is fulfilled: the token is cached and goes to   *)
(* everyone who awaits it.                                                 *)
Settle ==
    /\ pending.state = "received"
    /\ cached' = pending.token
    /\ pending' = NoFetch
    /\ pc' = [c \in Callers |-> IF pc[c] = "await" THEN "sent" ELSE pc[c]]
    /\ token' = [c \in Callers |-> IF pc[c] = "await" THEN pending.token ELSE token[c]]
    /\ sentAt' = [c \in Callers |-> IF pc[c] = "await" THEN clock ELSE sentAt[c]]
    /\ UNCHANGED << clock, static, expiresAt, exp, issuedAt, rotated, rotations, attempt, rejected, between >>

(* Mutant: the failure is not passed on to those who await the token.      *)
FetchFailsSilently ==
    /\ pending.state \in {"requested", "issued"}
    /\ pending' = NoFetch
    /\ UNCHANGED << clock, static, cached, expiresAt, exp, issuedAt, rotated, rotations, pc, token,
                    attempt, sentAt, rejected, between >>

(* The request fails or times out: the first attempt goes on without a     *)
(* token, the repetition is given up.                                      *)
FetchFails ==
    /\ pending.state \in {"requested", "issued"}
    /\ pending' = NoFetch
    /\ pc' = [c \in Callers |-> IF pc[c] # "await" THEN pc[c]
                                ELSE IF attempt[c] = 1 THEN "sent" ELSE "refused"]
    /\ token' = [c \in Callers |-> IF pc[c] = "await" THEN None ELSE token[c]]
    /\ sentAt' = [c \in Callers |-> IF pc[c] = "await" THEN clock ELSE sentAt[c]]
    /\ UNCHANGED << clock, static, cached, expiresAt, exp, issuedAt, rotated, rotations, attempt, rejected, between >>

-----------------------------------------------------------------------------
(* The gateway accepts a token that has not expired and whose key is in use. *)
Accepts(t) == t > rotated /\ (t > 0 => clock < exp[t])

Answered(c) ==
    /\ pc[c] = "sent" /\ Accepts(token[c])
    /\ pc' = [pc EXCEPT ![c] = "ok"]
    /\ UNCHANGED << clock, static, cached, expiresAt, pending, exp, issuedAt, rotated, rotations,
                    token, attempt, sentAt, rejected, between >>

(* 401: the first time, and if a token was sent, invalidate and ask for    *)
(* another one.                                                            *)
Unauthorized(c) ==
    /\ pc[c] = "sent" /\ ~Accepts(token[c])
    /\ \/ /\ attempt[c] = 1 /\ token[c] # None
          /\ attempt' = [attempt EXCEPT ![c] = 2]
          /\ cached' = None /\ expiresAt' = 0
          /\ static' = (static /\ ~HasCredentials)
          /\ rejected' = [rejected EXCEPT ![c] = token[c]]
          /\ GetToken(c, static', None, 0)
       \/ /\ attempt[c] = 2 \/ token[c] = None
          /\ pc' = [pc EXCEPT ![c] = "refused"]
          /\ UNCHANGED << attempt, cached, expiresAt, static, token, sentAt, rejected, pending >>
    /\ UNCHANGED << clock, exp, issuedAt, rotated, rotations, between >>

(* The request is lost or times out.                                       *)
SendFails(c) ==
    /\ pc[c] = "sent"
    /\ pc' = [pc EXCEPT ![c] = "failed"]
    /\ UNCHANGED << clock, static, cached, expiresAt, pending, exp, issuedAt, rotated, rotations,
                    token, attempt, sentAt, rejected, between >>

(* The identity provider discards the keys of all tokens issued so far.    *)
Rotate ==
    /\ rotations < MaxRotations
    /\ rotations' = rotations + 1
    /\ rotated' = Issued
    /\ UNCHANGED << clock, static, cached, expiresAt, pending, exp, issuedAt, pc, token, attempt, sentAt, rejected, between >>

(* Continuations of a fetch that are ready run before time passes.         *)
Tick ==
    /\ clock < MaxClock /\ pending.state # "received"
    /\ clock' = clock + 1
    /\ UNCHANGED << static, cached, expiresAt, pending, exp, issuedAt, rotated, rotations,
                    pc, token, attempt, sentAt, rejected, between >>

Fetch == Issue \/ Receive \/ Settle \/ FetchFails
Reply(c) == Answered(c) \/ Unauthorized(c) \/ SendFails(c)

TokenNext == Fetch \/ Rotate \/ Tick \/ \E c \in Callers : Forward(c) \/ Reply(c)

(* Both requests have a timeout.                                           *)
TokenFairness == WF_tokenVars(Fetch) /\ \A c \in Callers : WF_tokenVars(Reply(c))

TokenSpec == TokenInit /\ [][TokenNext]_tokenVars /\ TokenFairness
-----------------------------------------------------------------------------
(* Types: what the cache, the pending request and the callers hold is a    *)
(* token that the endpoint really issued.                                  *)
TokenTypeOK ==
    /\ clock \in 0 .. MaxClock /\ rotations \in 0 .. MaxRotations
    /\ static \in BOOLEAN
    /\ cached \in {None} \cup (1 .. Issued)
    /\ expiresAt \in 0 .. MaxClock + Life
    /\ pending \in [state : {"none", "requested", "issued", "received"}, token : {None} \cup (1 .. Issued)]
    /\ rotated \in -1 .. Issued
    /\ pc \in [Callers -> {"idle", "await", "sent", "ok", "refused", "failed"}]
    /\ token \in [Callers -> {None, Static} \cup (1 .. Issued)]
    /\ attempt \in [Callers -> 0 .. 2]
    /\ between \subseteq Callers

(* A request never goes out with a token that had expired when getToken    *)
(* returned it, although the expiry is counted from the arrival of the     *)
(* token and not from its issue.  The exception is a first attempt that    *)
(* read the cache when fetchNewToken had set the new expiry and getToken   *)
(* had not yet stored the new token.                                       *)
ReturnedIsFresh ==
    \A c \in Callers : (pc[c] = "sent" /\ token[c] > 0) =>
        sentAt[c] < exp[token[c]] \/ (attempt[c] = 1 /\ c \in between)

(* The one repetition after a 401 is not wasted on the token that was      *)
(* refused: whatever other callers and a renewal under way did to the      *)
(* cache meanwhile, it carries a later one.                                *)
RetryIsAnotherToken ==
    \A c \in Callers : (attempt[c] = 2 /\ pc[c] = "sent" /\ token[c] > 0)
                          => token[c] > rejected[c]

(* What the cache, the pending request and the callers hold is well formed,*)
(* and the two promises about the tokens hold together: neither a renewal  *)
(* nor a 401 hands out a token that is expired or known to be refused.     *)
TokensAreFresh == TokenTypeOK /\ ReturnedIsFresh /\ RetryIsAnotherToken

(* Every forwarded request is answered: whoever waits for a token or for   *)
(* the gateway goes on, also when the request it shares with others fails. *)
EveryCallerReturns == []<>(\A c \in Callers : pc[c] \notin {"await", "sent"})
==============================================================================
