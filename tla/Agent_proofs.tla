---------------------------- MODULE Agent_proofs ----------------------------
(***************************************************************************)
(* Proofs about the agent: its token manager, for any number of callers,   *)
(* of tokens and of key rotations, and every lifetime, renewal buffer and  *)
(* latency that TokenAssumption admits; and its modes, for any number of   *)
(* requests, tools, aliases, environments and changes of the gateway.      *)
(***************************************************************************)
EXTENDS TokenManager, AgentModes, FiniteSetTheorems, TLAPS

(* Tokens are numbered in the order of their issue, and live for Life.     *)
IssueInv ==
    /\ Issued \in Nat
    /\ DOMAIN exp = 1 .. Issued
    /\ \A t \in 1 .. Issued :
         issuedAt[t] \in Nat /\ exp[t] = issuedAt[t] + Life /\ issuedAt[t] <= clock

(* The expiry that is counted from a token's arrival is late by the        *)
(* latency at most.                                                        *)
LateBy(t) == expiresAt <= exp[t] + Latency

(* The token under way is the newest one: nobody has sent it, nor was it   *)
(* cached or refused yet.  When it has arrived it is the one expiresAt is  *)
(* about; before and after that, expiresAt is about the cached token.      *)
PendingInv ==
    /\ pending.state \in {"issued", "received"} =>
         /\ pending.token = Issued /\ Issued > 0
         /\ cached < Issued
         /\ \A c \in Callers : token[c] < Issued /\ rejected[c] < Issued
    /\ pending.state = "received" =>
         clock - issuedAt[pending.token] <= Latency /\ LateBy(pending.token)
    /\ (pending.state # "received" /\ cached # None) => LateBy(cached)

RejectedType == rejected \in [Callers -> {None, Static} \cup (1 .. Issued)]

Types == sentAt \in [Callers -> Nat] /\ RejectedType

IInv ==
    /\ TokenTypeOK /\ Types /\ IssueInv /\ PendingInv
    /\ ReturnedIsFresh /\ RetryIsAnotherToken

-----------------------------------------------------------------------------
LEMMA InitIInv == TokenInit => IInv
<1> SUFFICES ASSUME TokenInit PROVE IInv
  OBVIOUS
<1>1. DOMAIN exp = {} /\ Issued = 0
  BY FS_EmptySet DEF TokenInit, Issued
<1>2. IssueInv
  BY <1>1 DEF IssueInv
<1>3. TokenTypeOK /\ Types
  BY <1>1, TokenAssumption DEF TokenInit, TokenTypeOK, Types, RejectedType, NoFetch, None
<1> QED
  BY <1>2, <1>3 DEF TokenInit, IInv, PendingInv, ReturnedIsFresh, RetryIsAnotherToken, NoFetch, None

(* Steps that leave the tokens and the requests in flight alone.           *)
LEMMA QuietStep ==
  ASSUME IInv, UNCHANGED << exp, issuedAt, cached, expiresAt, pending, token, attempt, sentAt,
                            rejected, between, static >>,
         clock' \in clock .. MaxClock, pending.state = "received" => clock' = clock,
         rotations' \in 0 .. MaxRotations, rotated' \in -1 .. Issued,
         pc' \in [Callers -> {"idle", "await", "sent", "ok", "refused", "failed"}],
         \A c \in Callers : pc'[c] = "sent" => pc[c] = "sent"
  PROVE  IInv'
<1>1. Issued' = Issued /\ clock \in Nat
  BY DEF Issued, IInv, TokenTypeOK
<1>2. TokenTypeOK' /\ Types'
  BY <1>1 DEF IInv, TokenTypeOK, Types, RejectedType
<1>3. IssueInv'
  BY <1>1, TokenAssumption DEF IInv, IssueInv
<1>4. PendingInv'
  BY <1>1 DEF IInv, PendingInv, LateBy
<1>5. ReturnedIsFresh' /\ RetryIsAnotherToken'
  BY DEF IInv, ReturnedIsFresh, RetryIsAnotherToken
<1> QED
  BY <1>2, <1>3, <1>4, <1>5 DEF IInv

LEMMA QuietSteps ==
  ASSUME IInv,
         \/ Tick \/ Rotate \/ (\E c \in Callers : Answered(c) \/ SendFails(c))
         \/ UNCHANGED tokenVars
  PROVE  IInv'
<1>1. /\ clock \in 0 .. MaxClock /\ rotations \in 0 .. MaxRotations /\ rotated \in -1 .. Issued
      /\ pc \in [Callers -> {"idle", "await", "sent", "ok", "refused", "failed"}]
      /\ Issued \in Nat /\ {MaxClock, MaxRotations} \subseteq Nat
  BY TokenAssumption DEF IInv, TokenTypeOK, IssueInv
<1>2. CASE Tick
  <2>1. clock' \in clock .. MaxClock
    BY <1>1, <1>2 DEF Tick
  <2> QED
    BY <1>1, <1>2, <2>1, QuietStep DEF Tick
<1>3. CASE Rotate
  <2>1. clock' \in clock .. MaxClock /\ rotations' \in 0 .. MaxRotations /\ rotated' \in -1 .. Issued
    BY <1>1, <1>3 DEF Rotate
  <2> QED
    BY <1>1, <1>3, <2>1, QuietStep DEF Rotate
<1>4. ASSUME NEW c \in Callers, Answered(c) \/ SendFails(c)
      PROVE  IInv'
  <2>1. \E s \in {"ok", "failed"} : pc' = [pc EXCEPT ![c] = s]
    BY <1>4 DEF Answered, SendFails
  <2>2. /\ pc' \in [Callers -> {"idle", "await", "sent", "ok", "refused", "failed"}]
        /\ \A d \in Callers : pc'[d] = "sent" => pc[d] = "sent"
    BY <1>1, <2>1
  <2>3. clock' \in clock .. MaxClock /\ clock' = clock /\ rotations' = rotations /\ rotated' = rotated
    BY <1>1, <1>4 DEF Answered, SendFails
  <2> QED
    BY <1>1, <1>4, <2>2, <2>3, QuietStep DEF Answered, SendFails
<1>5. CASE UNCHANGED tokenVars
  <2>1. clock' \in clock .. MaxClock
    BY <1>1, <1>5 DEF tokenVars
  <2> QED
    BY <1>1, <1>5, <2>1, QuietStep DEF tokenVars
<1> QED
  BY <1>2, <1>3, <1>4, <1>5

(* The endpoint issues a token: it is newer than all the others.           *)
LEMMA IssueStep ==
  ASSUME IInv, Issue
  PROVE  IInv'
<1> DEFINE t == Issued + 1
<1>1. Issued \in Nat /\ clock \in Nat /\ Life \in Nat
  BY TokenAssumption DEF IInv, IssueInv, TokenTypeOK
<1>2. /\ exp' = [n \in 1 .. t |-> IF n = t THEN clock + Life ELSE exp[n]]
      /\ issuedAt' = [n \in 1 .. t |-> IF n = t THEN clock ELSE issuedAt[n]]
      /\ pending' = [state |-> "issued", token |-> t]
      /\ pending.state # "received"
      /\ UNCHANGED << clock, static, cached, expiresAt, rotated, rotations, pc, token, attempt,
                      sentAt, rejected, between >>
  BY DEF Issue
<1>3. Issued' = t /\ DOMAIN exp' = 1 .. t
  <2>1. DOMAIN exp' = 1 .. t
    BY <1>2
  <2>2. Cardinality(1 .. t) = t
    BY <1>1, FS_Interval
  <2> QED
    BY <2>1, <2>2 DEF Issued
<1>4. /\ exp'[t] = clock + Life /\ issuedAt'[t] = clock
      /\ \A n \in 1 .. Issued : exp'[n] = exp[n] /\ issuedAt'[n] = issuedAt[n]
  BY <1>1, <1>2
<1>5. IssueInv'
  BY <1>1, <1>2, <1>3, <1>4 DEF IInv, IssueInv
<1>6. t \in 1 .. t /\ \A n : n \in 1 .. Issued => n \in 1 .. t /\ n < t
  BY <1>1
<1>7. TokenTypeOK'
  <2>1. /\ cached' \in {None} \cup (1 .. Issued') /\ rotated' \in -1 .. Issued'
        /\ token' \in [Callers -> {None, Static} \cup (1 .. Issued')]
    BY <1>1, <1>2, <1>3, <1>6 DEF IInv, TokenTypeOK
  <2>2. pending' \in [state : {"none", "requested", "issued", "received"},
                      token : {None} \cup (1 .. Issued')]
    BY <1>2, <1>3, <1>6
  <2> QED
    BY <1>2, <2>1, <2>2 DEF IInv, TokenTypeOK
<1>8. Types'
  BY <1>2, <1>3, <1>6 DEF IInv, Types, RejectedType
<1>9. PendingInv'
  <2>1. pending'.state = "issued" /\ pending'.token = t
    BY <1>2
  <2>2. cached < t /\ \A c \in Callers : token[c] < t /\ rejected[c] < t
    BY <1>1, <1>6 DEF IInv, TokenTypeOK, Types, RejectedType, None, Static
  <2>3. cached # None => cached \in 1 .. Issued /\ LateBy(cached)
    BY <1>2 DEF IInv, PendingInv, TokenTypeOK
  <2>4. cached # None => LateBy(cached)'
    BY <1>2, <1>4, <2>3 DEF LateBy
  <2> HIDE DEF t
  <2>5. t > 0
    BY <1>1 DEF t
  <2> QED
    BY <1>2, <1>3, <2>1, <2>2, <2>4, <2>5 DEF PendingInv
<1>10. ReturnedIsFresh'
  <2>1. ASSUME NEW c \in Callers, token[c] > 0
        PROVE  exp'[token[c]] = exp[token[c]]
    BY <1>4, <2>1 DEF IInv, TokenTypeOK, None, Static
  <2> QED
    BY <1>2, <2>1 DEF IInv, ReturnedIsFresh
<1>11. RetryIsAnotherToken'
  BY <1>2 DEF IInv, RetryIsAnotherToken
<1> QED
  BY <1>5, <1>7, <1>8, <1>9, <1>10, <1>11 DEF IInv

(* It arrives: expiresAt is about it from now on.                          *)
LEMMA ReceiveStep ==
  ASSUME IInv, Receive
  PROVE  IInv'
<1> DEFINE t == pending.token
<1>1. /\ Issued \in Nat /\ clock \in 0 .. MaxClock /\ {Life, Latency, MaxClock} \subseteq Nat
      /\ t = Issued /\ t \in 1 .. Issued
      /\ pending \in [state : {"none", "requested", "issued", "received"},
                      token : {None} \cup (1 .. Issued)]
  BY TokenAssumption DEF IInv, IssueInv, TokenTypeOK, PendingInv, Receive
<1>2. /\ clock - issuedAt[t] <= Latency /\ expiresAt' = clock + Life
      /\ pending' = [pending EXCEPT !.state = "received"] /\ pending.state = "issued"
      /\ UNCHANGED << clock, static, cached, exp, issuedAt, rotated, rotations, pc, token, attempt,
                      sentAt, rejected, between >>
  BY DEF Receive
<1>3. Issued' = Issued
  BY <1>2 DEF Issued
<1>4. /\ pending'.state = "received" /\ pending'.token = t
      /\ pending' \in [state : {"none", "requested", "issued", "received"},
                       token : {None} \cup (1 .. Issued)]
  BY <1>1, <1>2
<1>5. expiresAt' \in 0 .. MaxClock + Life
  BY <1>1, <1>2
<1>6. TokenTypeOK' /\ Types'
  BY <1>2, <1>3, <1>4, <1>5 DEF IInv, TokenTypeOK, Types, RejectedType
<1>7. IssueInv'
  BY <1>2, <1>3 DEF IInv, IssueInv
<1>8. PendingInv'
  <2>1. expiresAt' <= exp[t] + Latency
    BY <1>1, <1>2 DEF IInv, IssueInv
  <2> HIDE DEF t
  <2>2. /\ t = Issued /\ Issued > 0 /\ cached < Issued
        /\ \A c \in Callers : token[c] < Issued /\ rejected[c] < Issued
    BY <1>1, <1>2 DEF IInv, PendingInv
  <2> QED
    BY <1>2, <1>3, <1>4, <2>1, <2>2 DEF PendingInv, LateBy
<1>9. ReturnedIsFresh' /\ RetryIsAnotherToken'
  BY <1>2 DEF IInv, ReturnedIsFresh, RetryIsAnotherToken
<1> QED
  BY <1>6, <1>7, <1>8, <1>9 DEF IInv

(* It is cached and sent by everyone who awaited it: fresh, and newer than *)
(* whatever was refused.                                                   *)
LEMMA SettleStep ==
  ASSUME IInv, Settle
  PROVE  IInv'
<1> DEFINE t == pending.token
<1>1. /\ Issued \in Nat /\ clock \in Nat /\ {Life, Latency} \subseteq Nat /\ Latency < Life
      /\ t = Issued /\ t \in 1 .. Issued /\ t > 0
      /\ clock - issuedAt[t] <= Latency /\ LateBy(t)
      /\ \A c \in Callers : rejected[c] < t
  BY TokenAssumption DEF IInv, IssueInv, TokenTypeOK, PendingInv, Settle
<1>2. clock < exp[t]
  BY <1>1 DEF IInv, IssueInv
<1>3. /\ cached' = t /\ pending' = NoFetch
      /\ pc' = [c \in Callers |-> IF pc[c] = "await" THEN "sent" ELSE pc[c]]
      /\ token' = [c \in Callers |-> IF pc[c] = "await" THEN t ELSE token[c]]
      /\ sentAt' = [c \in Callers |-> IF pc[c] = "await" THEN clock ELSE sentAt[c]]
      /\ UNCHANGED << clock, static, expiresAt, exp, issuedAt, rotated, rotations, attempt,
                      rejected, between >>
  BY DEF Settle
<1>4. Issued' = Issued
  BY <1>3 DEF Issued
<1> HIDE DEF t
<1>5. TokenTypeOK'
  <2>1. pc' \in [Callers -> {"idle", "await", "sent", "ok", "refused", "failed"}]
    BY <1>3 DEF IInv, TokenTypeOK
  <2>2. token' \in [Callers -> {None, Static} \cup (1 .. Issued)] /\ cached' \in {None} \cup (1 .. Issued)
    BY <1>1, <1>3 DEF IInv, TokenTypeOK
  <2>3. pending' \in [state : {"none", "requested", "issued", "received"},
                      token : {None} \cup (1 .. Issued)]
    BY <1>3 DEF NoFetch
  <2> QED
    BY <1>3, <1>4, <2>1, <2>2, <2>3 DEF IInv, TokenTypeOK
<1>6. Types'
  BY <1>1, <1>3, <1>4 DEF IInv, Types, RejectedType
<1>7. IssueInv'
  BY <1>3, <1>4 DEF IInv, IssueInv
<1>8. PendingInv'
  BY <1>1, <1>3 DEF PendingInv, LateBy, NoFetch
<1>9. ReturnedIsFresh'
  BY <1>2, <1>3 DEF IInv, ReturnedIsFresh
<1>10. RetryIsAnotherToken'
  BY <1>1, <1>3 DEF IInv, RetryIsAnotherToken
<1> QED
  BY <1>5, <1>6, <1>7, <1>8, <1>9, <1>10 DEF IInv

LEMMA FetchFailsStep ==
  ASSUME IInv, FetchFails
  PROVE  IInv'
<1>1. /\ pending' = NoFetch /\ pending.state # "received"
      /\ pc' = [c \in Callers |-> IF pc[c] # "await" THEN pc[c]
                                  ELSE IF attempt[c] = 1 THEN "sent" ELSE "refused"]
      /\ token' = [c \in Callers |-> IF pc[c] = "await" THEN None ELSE token[c]]
      /\ sentAt' = [c \in Callers |-> IF pc[c] = "await" THEN clock ELSE sentAt[c]]
      /\ UNCHANGED << clock, static, cached, expiresAt, exp, issuedAt, rotated, rotations, attempt,
                      rejected, between >>
  BY DEF FetchFails
<1>2. Issued' = Issued /\ clock \in Nat
  BY <1>1 DEF Issued, IInv, TokenTypeOK
<1>3. TokenTypeOK'
  <2>1. pc' \in [Callers -> {"idle", "await", "sent", "ok", "refused", "failed"}]
    BY <1>1 DEF IInv, TokenTypeOK
  <2>2. token' \in [Callers -> {None, Static} \cup (1 .. Issued)]
    BY <1>1 DEF IInv, TokenTypeOK
  <2>3. pending' \in [state : {"none", "requested", "issued", "received"},
                      token : {None} \cup (1 .. Issued)]
    BY <1>1 DEF NoFetch
  <2> QED
    BY <1>1, <1>2, <2>1, <2>2, <2>3 DEF IInv, TokenTypeOK
<1>4. Types' /\ IssueInv'
  BY <1>1, <1>2 DEF IInv, Types, RejectedType, IssueInv
<1>5. PendingInv'
  BY <1>1 DEF IInv, PendingInv, LateBy, NoFetch
<1>6. ReturnedIsFresh' /\ RetryIsAnotherToken'
  BY <1>1 DEF IInv, ReturnedIsFresh, RetryIsAnotherToken, None
<1> QED
  BY <1>3, <1>4, <1>5, <1>6 DEF IInv

-----------------------------------------------------------------------------
(* A step of one caller, by which its await becomes s, its token x, sent   *)
(* at u in attempt a, and its refused token y.  It may clear the cache and *)
(* ask for a token.                                                        *)
CallerBecomes(c, s, x, u, a, y) ==
    /\ s \in {"sent", "await", "refused"} /\ pc' = [pc EXCEPT ![c] = s]
    /\ x \in {None, Static} \cup (1 .. Issued) /\ token' = [token EXCEPT ![c] = x]
    /\ u \in Nat /\ sentAt' = [sentAt EXCEPT ![c] = u]
    /\ a \in 0 .. 2 /\ attempt' = [attempt EXCEPT ![c] = a]
    /\ y \in {None, Static} \cup (1 .. Issued) /\ rejected' = [rejected EXCEPT ![c] = y]
    /\ between' \subseteq Callers /\ between \subseteq between' /\ static' \in BOOLEAN
    /\ \/ cached' = cached /\ expiresAt' = expiresAt
       \/ cached' = None /\ expiresAt' = 0
    /\ \/ pending' = pending
       \/ pending = NoFetch /\ pending' = [state |-> "requested", token |-> None]
    /\ pending.state \in {"issued", "received"} => x < Issued /\ y < Issued
    /\ (s = "sent" /\ x > 0) =>
         /\ u < exp[x] \/ (a = 1 /\ c \in between')
         /\ a = 2 => x > y
    /\ UNCHANGED << clock, exp, issuedAt, rotated, rotations >>

LEMMA CallerStep ==
  ASSUME IInv, NEW c \in Callers, NEW s, NEW x, NEW u, NEW a, NEW y,
         CallerBecomes(c, s, x, u, a, y)
  PROVE  IInv'
<1> USE DEF CallerBecomes
<1>1. Issued' = Issued
  BY DEF Issued
<1>2. /\ pc \in [Callers -> {"idle", "await", "sent", "ok", "refused", "failed"}]
      /\ token \in [Callers -> {None, Static} \cup (1 .. Issued)]
      /\ attempt \in [Callers -> 0 .. 2] /\ sentAt \in [Callers -> Nat]
      /\ rejected \in [Callers -> {None, Static} \cup (1 .. Issued)]
  BY DEF IInv, TokenTypeOK, Types, RejectedType
<1>3. /\ pc'[c] = s /\ token'[c] = x /\ sentAt'[c] = u /\ attempt'[c] = a /\ rejected'[c] = y
      /\ \A d \in Callers \ {c} : /\ pc'[d] = pc[d] /\ token'[d] = token[d] /\ sentAt'[d] = sentAt[d]
                                  /\ attempt'[d] = attempt[d] /\ rejected'[d] = rejected[d]
  BY <1>2
<1>4. TokenTypeOK'
  <2>1. /\ pc' \in [Callers -> {"idle", "await", "sent", "ok", "refused", "failed"}]
        /\ token' \in [Callers -> {None, Static} \cup (1 .. Issued)]
        /\ attempt' \in [Callers -> 0 .. 2]
    BY <1>2
  <2>2. pending' \in [state : {"none", "requested", "issued", "received"},
                      token : {None} \cup (1 .. Issued)]
    BY DEF IInv, TokenTypeOK
  <2>3. cached' \in {None} \cup (1 .. Issued) /\ expiresAt' \in 0 .. MaxClock + Life
    BY TokenAssumption DEF IInv, TokenTypeOK
  <2> QED
    BY <1>1, <2>1, <2>2, <2>3 DEF IInv, TokenTypeOK
<1>5. Types' /\ IssueInv'
  BY <1>1, <1>2 DEF IInv, Types, RejectedType, IssueInv
<1>6. PendingInv'
  <2>1. CASE pending' # pending
    <3>1. pending'.state = "requested" /\ pending.state = "none"
      BY <2>1 DEF NoFetch
    <3> QED
      BY <3>1 DEF IInv, PendingInv, LateBy
  <2>2. CASE pending' = pending
    <3>1. pending.state \in {"issued", "received"} => cached' < Issued
      <4>1. pending.state \in {"issued", "received"} => cached < Issued /\ Issued > 0 /\ Issued \in Nat
        BY DEF IInv, PendingInv, IssueInv
      <4> QED
        BY <4>1 DEF None
    <3>2. ASSUME pending.state = "received"
          PROVE  LateBy(pending.token)'
      <4>1. /\ LateBy(pending.token) /\ pending.token = Issued /\ Issued \in 1 .. Issued
            /\ exp[Issued] \in Nat /\ Latency \in Nat
        BY <3>2, TokenAssumption DEF IInv, PendingInv, IssueInv
      <4> QED
        BY <2>2, <4>1 DEF LateBy
    <3> QED
      BY <1>1, <1>3, <2>2, <3>1, <3>2 DEF IInv, PendingInv, LateBy
  <2> QED
    BY <2>1, <2>2
<1>7. ReturnedIsFresh'
  BY <1>3 DEF IInv, ReturnedIsFresh
<1>8. RetryIsAnotherToken'
  BY <1>3 DEF IInv, RetryIsAnotherToken
<1> QED
  BY <1>4, <1>5, <1>6, <1>7, <1>8 DEF IInv

(* What getToken does, case by case.                                       *)
LEMMA GetTokenCases ==
  ASSUME IInv, NEW c \in Callers, NEW s, NEW t, NEW e, GetToken(c, s, t, e)
  PROVE  \/ /\ pc' = [pc EXCEPT ![c] = "sent"] /\ sentAt' = [sentAt EXCEPT ![c] = clock]
            /\ token' = [token EXCEPT ![c] = Static] /\ pending' = pending
         \/ /\ Usable(t, e)
            /\ pc' = [pc EXCEPT ![c] = "sent"] /\ sentAt' = [sentAt EXCEPT ![c] = clock]
            /\ token' = [token EXCEPT ![c] = t] /\ pending' = pending
         \/ /\ pc' = [pc EXCEPT ![c] = "await"]
            /\ token' = [token EXCEPT ![c] = token[c]] /\ sentAt' = [sentAt EXCEPT ![c] = sentAt[c]]
            /\ \/ pending' = pending
               \/ pending = NoFetch /\ pending' = [state |-> "requested", token |-> None]
<1>1. /\ token \in [Callers -> {None, Static} \cup (1 .. Issued)] /\ sentAt \in [Callers -> Nat]
  BY DEF IInv, TokenTypeOK, Types
<1>2. /\ token = [token EXCEPT ![c] = token[c]] /\ sentAt = [sentAt EXCEPT ![c] = sentAt[c]]
  BY <1>1
<1> QED
  BY <1>2 DEF GetToken, Send

(* forwardToGateway begins.  A token from the cache is fresh, unless the   *)
(* cache was read between the two continuations of a fetch.                *)
LEMMA ForwardStep ==
  ASSUME IInv, NEW c \in Callers, Forward(c)
  PROVE  IInv'
<1>1. /\ Issued \in Nat /\ clock \in Nat /\ static \in BOOLEAN
      /\ token[c] \in {None, Static} \cup (1 .. Issued) /\ sentAt[c] \in Nat
      /\ rejected \in [Callers -> {None, Static} \cup (1 .. Issued)]
      /\ cached \in {None} \cup (1 .. Issued) /\ between \subseteq Callers
  BY DEF IInv, TokenTypeOK, Types, RejectedType, IssueInv
<1>2. rejected' = [rejected EXCEPT ![c] = rejected[c]] /\ rejected[c] \in {None, Static} \cup (1 .. Issued)
  BY <1>1 DEF Forward
<1>3. /\ attempt' = [attempt EXCEPT ![c] = 1] /\ GetToken(c, static, cached, expiresAt)
      /\ between' = IF pending.state = "received" THEN between \cup {c} ELSE between
      /\ UNCHANGED << clock, static, cached, expiresAt, exp, issuedAt, rotated, rotations >>
  BY DEF Forward
<1>4. /\ between' \subseteq Callers /\ between \subseteq between'
      /\ pending.state = "received" => c \in between'
  BY <1>1, <1>3
<1>5. pending.state \in {"issued", "received"} =>
        cached < Issued /\ Static < Issued /\ token[c] < Issued /\ rejected[c] < Issued
  BY DEF IInv, PendingInv, Static
<1>6. CASE /\ pc' = [pc EXCEPT ![c] = "sent"] /\ sentAt' = [sentAt EXCEPT ![c] = clock]
           /\ token' = [token EXCEPT ![c] = Static] /\ pending' = pending
  <2>1. ~(Static > 0)
    BY DEF Static
  <2> QED
    <3>1. CallerBecomes(c, "sent", Static, clock, 1, rejected[c])
      BY <1>1, <1>2, <1>3, <1>4, <1>5, <1>6, <2>1 DEF CallerBecomes
    <3> QED
      BY <3>1, CallerStep
<1>7. CASE /\ Usable(cached, expiresAt)
           /\ pc' = [pc EXCEPT ![c] = "sent"] /\ sentAt' = [sentAt EXCEPT ![c] = clock]
           /\ token' = [token EXCEPT ![c] = cached] /\ pending' = pending
  <2>1. cached \in 1 .. Issued /\ clock < expiresAt - Buffer
    BY <1>1, <1>7 DEF Usable
  <2>2. clock < exp[cached] \/ c \in between'
    <3>1. ASSUME pending.state # "received"
          PROVE  clock < exp[cached]
      <4>1. expiresAt <= exp[cached] + Latency
        BY <2>1, <3>1 DEF IInv, PendingInv, LateBy, None
      <4>2. Latency \in Nat /\ Buffer \in Nat /\ Latency <= Buffer /\ Life \in Nat
        BY TokenAssumption
      <4>3. expiresAt \in Nat
        BY DEF IInv, TokenTypeOK
      <4>4. exp[cached] \in Nat
        <5>1. issuedAt[cached] \in Nat /\ exp[cached] = issuedAt[cached] + Life
          BY <2>1 DEF IInv, IssueInv
        <5> QED
          BY <4>2, <5>1
      <4> QED
        BY <1>1, <2>1, <4>1, <4>2, <4>3, <4>4
    <3> QED
      BY <1>4, <3>1
  <2> QED
    <3>1. CallerBecomes(c, "sent", cached, clock, 1, rejected[c])
      BY <1>1, <1>2, <1>3, <1>4, <1>5, <1>7, <2>1, <2>2 DEF CallerBecomes
    <3> QED
      BY <3>1, CallerStep
<1>8. CASE /\ pc' = [pc EXCEPT ![c] = "await"]
           /\ token' = [token EXCEPT ![c] = token[c]] /\ sentAt' = [sentAt EXCEPT ![c] = sentAt[c]]
           /\ \/ pending' = pending
              \/ pending = NoFetch /\ pending' = [state |-> "requested", token |-> None]
  <2>1. CallerBecomes(c, "await", token[c], sentAt[c], 1, rejected[c])
    BY <1>1, <1>2, <1>3, <1>4, <1>5, <1>8 DEF CallerBecomes
  <2> QED
    BY <2>1, CallerStep
<1> QED
  BY <1>3, <1>6, <1>7, <1>8, GetTokenCases

(* A 401: the cache is cleared, so that the repetition is sent with the    *)
(* static token or with one that is yet to come.                           *)
LEMMA UnauthorizedStep ==
  ASSUME IInv, NEW c \in Callers, Unauthorized(c)
  PROVE  IInv'
<1>1. /\ Issued \in Nat /\ clock \in Nat /\ static \in BOOLEAN /\ HasCredentials \in BOOLEAN
      /\ token[c] \in {None, Static} \cup (1 .. Issued) /\ sentAt[c] \in Nat /\ attempt[c] \in 0 .. 2
      /\ rejected[c] \in {None, Static} \cup (1 .. Issued) /\ between \subseteq Callers
  BY TokenAssumption DEF IInv, TokenTypeOK, Types, RejectedType, IssueInv
<1>2. /\ rejected = [rejected EXCEPT ![c] = rejected[c]] /\ token = [token EXCEPT ![c] = token[c]]
      /\ sentAt = [sentAt EXCEPT ![c] = sentAt[c]] /\ attempt = [attempt EXCEPT ![c] = attempt[c]]
  BY DEF IInv, TokenTypeOK, Types, RejectedType
<1>3. pending.state \in {"issued", "received"} =>
        Static < Issued /\ token[c] < Issued /\ rejected[c] < Issued
  BY DEF IInv, PendingInv, Static
<1>4. UNCHANGED << clock, exp, issuedAt, rotated, rotations, between >>
  BY DEF Unauthorized
<1>5. CASE /\ attempt' = [attempt EXCEPT ![c] = 2]
           /\ cached' = None /\ expiresAt' = 0
           /\ static' = (static /\ ~HasCredentials)
           /\ rejected' = [rejected EXCEPT ![c] = token[c]]
           /\ GetToken(c, static', None, 0)
  <2>1. static' \in BOOLEAN
    BY <1>1, <1>5
  <2>2. ~Usable(None, 0) /\ ~(Static > 0)
    BY DEF Usable, Static
  <2>3. CASE /\ pc' = [pc EXCEPT ![c] = "sent"] /\ sentAt' = [sentAt EXCEPT ![c] = clock]
             /\ token' = [token EXCEPT ![c] = Static] /\ pending' = pending
    <3>1. CallerBecomes(c, "sent", Static, clock, 2, token[c])
      BY <1>1, <1>3, <1>4, <1>5, <2>1, <2>2, <2>3 DEF CallerBecomes
    <3> QED
      BY <3>1, CallerStep
  <2>4. CASE /\ pc' = [pc EXCEPT ![c] = "await"]
             /\ token' = [token EXCEPT ![c] = token[c]] /\ sentAt' = [sentAt EXCEPT ![c] = sentAt[c]]
             /\ \/ pending' = pending
                \/ pending = NoFetch /\ pending' = [state |-> "requested", token |-> None]
    <3>1. CallerBecomes(c, "await", token[c], sentAt[c], 2, token[c])
      BY <1>1, <1>3, <1>4, <1>5, <2>1, <2>4 DEF CallerBecomes
    <3> QED
      BY <3>1, CallerStep
  <2> QED
    BY <1>5, <2>2, <2>3, <2>4, GetTokenCases
<1>6. CASE /\ pc' = [pc EXCEPT ![c] = "refused"]
           /\ UNCHANGED << attempt, cached, expiresAt, static, token, sentAt, rejected, pending >>
  <2>1. /\ rejected' = [rejected EXCEPT ![c] = rejected[c]] /\ token' = [token EXCEPT ![c] = token[c]]
        /\ sentAt' = [sentAt EXCEPT ![c] = sentAt[c]] /\ attempt' = [attempt EXCEPT ![c] = attempt[c]]
        /\ static' \in BOOLEAN
    BY <1>1, <1>2, <1>6
  <2> QED
    <3>1. CallerBecomes(c, "refused", token[c], sentAt[c], attempt[c], rejected[c])
      BY <1>1, <1>3, <1>4, <1>6, <2>1 DEF CallerBecomes
    <3> QED
      BY <3>1, CallerStep
<1> QED
  BY <1>5, <1>6 DEF Unauthorized

(* What the cache, the pending request and the callers hold is a token     *)
(* that the endpoint issued; none goes out that had expired when getToken  *)
(* returned it (but for the gap between the two continuations of a fetch), *)
(* and the repetition after a 401 never carries the token that was refused. *)
THEOREM TokensAreFreshHolds == TokenSpec => []TokensAreFresh
<1>1. TokenInit => IInv
  BY InitIInv
<1>2. IInv /\ [TokenNext]_tokenVars => IInv'
  BY QuietSteps, IssueStep, ReceiveStep, SettleStep, FetchFailsStep, ForwardStep,
     UnauthorizedStep DEF TokenNext, Fetch, Reply
<1>3. IInv => TokensAreFresh
  BY DEF IInv, TokensAreFresh
<1> QED
  BY <1>1, <1>2, <1>3, PTL DEF TokenSpec
-----------------------------------------------------------------------------
(* The modes of the agent.                                                 *)

Request ==
    [stage : {"answered", "gateway", "init", "router", "dropped"}, method : Methods \cup {"late"},
     name : Names, names : SUBSET Names, answer : {"none", "result", "error"}, promised : BOOLEAN]
Route == [provider : {"local", "http-gateway"}, failCount : Nat]

ModesTypes ==
    /\ phase \in {"bootstrap", "probe", "gateway", "hybrid", "mesh", "exited"}
    /\ mesh \in {"off", "starting", "routing", "ready", "failed"}
    /\ gateway \in [up : BOOLEAN, tools : SUBSET Tools]
    /\ routes \in [DOMAIN routes -> Route] /\ DOMAIN routes \subseteq Names
    /\ req \in [Requests -> Request \cup {NoRequest}]
    /\ listed \subseteq Names

(* The gateway has had the tool n; the mesh has it, now and later.         *)
Registered(n) == n \in DOMAIN routes /\ routes[n].provider = "http-gateway"
OnMesh(n) == n = Status \/ (n \in MeshTools /\ HasRouter)

(* Before the mode is chosen nothing is asked, listed or registered; in    *)
(* hybrid mode all routes but that of the status tool lead to the gateway; *)
(* in mesh mode nothing is sent to a gateway.                              *)
PhaseInv ==
    /\ phase \in {"bootstrap", "probe"} =>
         /\ \A r \in Requests : req[r] = NoRequest
         /\ listed = {} /\ DOMAIN routes = {} /\ mesh = "off"
    /\ phase = "gateway" => mesh = "off"
    /\ phase = "hybrid" => \A n \in DOMAIN routes : n = Status \/ (n \in Tools /\ Registered(n))
    /\ phase = "mesh" => \A r \in Requests : req[r].stage \notin {"gateway", "init"}

(* A list on its way to the host holds what the gateway has had.           *)
Gathered(q) ==
    (q.stage # "answered" /\ q.method = "list" /\ phase = "hybrid") =>
        \A n \in q.names : n = Status \/ (n \in Tools /\ Registered(n))

(* Every name on the newest list leads to a provider, or did.              *)
Provided(n) ==
    /\ phase = "gateway" => Canonical(n) \in gateway.tools \cup {Status}
    /\ phase = "hybrid" => OnMesh(Canonical(n)) \/ Registered(Canonical(n))
    /\ phase = "mesh" => Canonical(n) \in MeshTools \cup {Status}

(* Wherever the call of a listed name is, it has not missed its provider.  *)
OnItsWay(q) ==
    /\ q.method \in {"call", "late"}
    /\ (q.stage = "gateway" /\ q.method = "call") => q.name \in gateway.tools \/ Registered(q.name)
    /\ (q.stage = "gateway" /\ q.method = "late") => q.name = Status /\ mesh = "failed"
    /\ q.stage = "init" => OnMesh(q.name)
    /\ q.stage = "router" => q.name \in MeshTools \cup {Status}
    /\ (q.stage = "answered" /\ q.answer = "error") =>
         Stale(q.name) \/ (mesh = "failed" /\ q.name = Status)

ModesInv ==
    /\ ModesTypes /\ PhaseInv
    /\ \A r \in Requests : req[r] # NoRequest => Gathered(req[r])
    /\ gateway.up => /\ \A n \in listed : Provided(n)
                     /\ \A r \in Requests : (req[r] # NoRequest /\ req[r].promised) => OnItsWay(req[r])

-----------------------------------------------------------------------------
LEMMA RequestIs == NoRequest \notin Request /\ NoRequest.stage = "free"
  BY DEF NoRequest, Request

LEMMA CanonicalIs ==
  /\ \A n \in Names : Canonical(n) \in Names /\ Canonical(n) \in Tools \cup {Status} /\ Canonical(Canonical(n)) = Canonical(n)
  /\ \A n \in Tools \cup {Status} : n \in Names /\ Canonical(n) = n
  BY ModesAssumption DEF Canonical, Names

LEMMA ExposedIs ==
  ASSUME NEW S \in SUBSET (Tools \cup {Status})
  PROVE  WithAliases(S) \in SUBSET Names /\ \A n \in WithAliases(S) : Canonical(n) \in S
  BY ModesAssumption DEF WithAliases, Canonical, Names

(* The table of routes only grows, and a route to the gateway stays one.   *)
Grown ==
    /\ routes' \in [DOMAIN routes' -> Route] /\ DOMAIN routes \subseteq DOMAIN routes' /\ DOMAIN routes' \subseteq Names
    /\ \A n \in DOMAIN routes : routes'[n].provider \in {routes[n].provider, "http-gateway"}
    /\ \A n \in DOMAIN routes' : n \in DOMAIN routes \/ routes'[n].provider = "http-gateway"

LEMMA RouteIs ==
  ASSUME ModesTypes
  PROVE  \A n \in DOMAIN routes : routes[n] \in Route /\ routes[n].provider \in {"local", "http-gateway"}
  BY DEF ModesTypes, Route

LEMMA Registering ==
  ASSUME ModesTypes, NEW S \in SUBSET Names, routes' = RegisterGatewayTools(routes, S)
  PROVE  Grown /\ DOMAIN routes' = DOMAIN routes \cup S /\ \A n \in S : Registered(n)'
<1> DEFINE g == [provider |-> "http-gateway", failCount |-> 0]
<1>1. g \in Route /\ g.provider = "http-gateway"
  BY DEF Route
<1>2. routes' = [m \in DOMAIN routes \cup S |-> IF m \in S THEN g ELSE routes[m]]
  BY DEF RegisterGatewayTools
<1> HIDE DEF g
<1>3. DOMAIN routes' = DOMAIN routes \cup S /\ \A m \in DOMAIN routes' : routes'[m] = IF m \in S THEN g ELSE routes[m]
  BY <1>2
<1>4. routes' \in [DOMAIN routes' -> Route]
  BY <1>1, <1>2, <1>3, RouteIs
<1> QED
  BY <1>1, <1>3, <1>4 DEF Grown, Registered, ModesTypes

LEMMA Recording ==
  ASSUME ModesTypes, NEW n, NEW count \in Nat, routes' = Recorded(n, count)
  PROVE  Grown /\ DOMAIN routes' = DOMAIN routes
<1>1. CASE n \in DOMAIN routes
  <2> DEFINE g == [routes[n] EXCEPT !.failCount = count]
  <2>1. g \in Route /\ g.provider = routes[n].provider
    BY <1>1, RouteIs DEF Route
  <2>2. routes' = [routes EXCEPT ![n] = g]
    BY <1>1 DEF Recorded
  <2> HIDE DEF g
  <2> QED
    BY <1>1, <2>1, <2>2 DEF Grown, ModesTypes
<1>2. CASE n \notin DOMAIN routes
  BY <1>2 DEF Recorded, Grown, ModesTypes
<1> QED
  BY <1>1, <1>2

LEMMA CountIs ==
  ASSUME NEW n, ModesTypes
  PROVE  Failures(n) \in Nat
  BY ModesAssumption, RouteIs DEF Failures, Route

LEMMA NothingRecorded ==
  ASSUME ModesTypes, UNCHANGED routes
  PROVE  Grown
  BY DEF ModesTypes, Grown

(* What a handler does to its request, one lemma for each way to put it.   *)
LEMMA Going ==
  ASSUME ModesTypes, NEW r \in Requests, req[r] # NoRequest, NEW stage, Goes(r, stage),
         stage \in {"answered", "gateway", "init", "router", "dropped"}
  PROVE  \E q \in Request :
           /\ req' = [req EXCEPT ![r] = q]
           /\ q.stage = stage /\ q.method = req[r].method /\ q.name = req[r].name
           /\ q.names = req[r].names /\ q.answer = req[r].answer /\ q.promised = req[r].promised
<1> DEFINE q == [req[r] EXCEPT !.stage = stage]
<1>1. req[r] \in Request
  BY DEF ModesTypes
<1>2. q \in Request /\ q.stage = stage /\ q.method = req[r].method /\ q.name = req[r].name
      /\ q.names = req[r].names /\ q.answer = req[r].answer /\ q.promised = req[r].promised
  BY <1>1 DEF Request
<1>3. req' = [req EXCEPT ![r] = q]
  BY DEF Goes
<1> QED
  BY <1>2, <1>3

LEMMA Answering ==
  ASSUME ModesTypes, NEW r \in Requests, req[r] # NoRequest, NEW answer \in {"result", "error"}, Answers(r, answer)
  PROVE  \E q \in Request :
           /\ req' = [req EXCEPT ![r] = q] /\ q.method = req[r].method /\ q.name = req[r].name
           /\ q.promised = req[r].promised /\ q.stage = "answered" /\ q.answer = answer
<1> DEFINE q == [req[r] EXCEPT !.stage = "answered", !.answer = answer]
<1>1. req[r] \in Request /\ req \in [Requests -> Request \cup {NoRequest}]
  BY DEF ModesTypes
<1>2. /\ q \in Request /\ q.method = req[r].method /\ q.name = req[r].name
      /\ q.promised = req[r].promised /\ q.stage = "answered" /\ q.answer = answer
  BY <1>1 DEF Request
<1>3. req' = [req EXCEPT ![r] = q]
  BY <1>1 DEF Answers
<1> QED
  BY <1>2, <1>3

LEMMA AnsweringList ==
  ASSUME ModesTypes, NEW r \in Requests, req[r] # NoRequest, NEW N \in SUBSET Names, AnswersList(r, N)
  PROVE  \E q \in Request :
           /\ req' = [req EXCEPT ![r] = q] /\ q.method = req[r].method /\ q.name = req[r].name
           /\ q.promised = req[r].promised /\ q.stage = "answered" /\ q.answer = "result"
<1> DEFINE q == [req[r] EXCEPT !.stage = "answered", !.answer = "result", !.names = N]
<1>1. req[r] \in Request /\ req \in [Requests -> Request \cup {NoRequest}]
  BY DEF ModesTypes
<1>2. /\ q \in Request /\ q.method = req[r].method /\ q.name = req[r].name
      /\ q.promised = req[r].promised /\ q.stage = "answered" /\ q.answer = "result"
  BY <1>1 DEF Request
<1>3. req' = [req EXCEPT ![r] = q]
  BY <1>1 DEF AnswersList
<1> QED
  BY <1>2, <1>3

(* A list goes through the router, which adds to it.                       *)
Passed(r, S) == req' = [req EXCEPT ![r].stage = "router", ![r].names = S]

LEMMA Passing ==
  ASSUME ModesTypes, NEW r \in Requests, req[r] # NoRequest, NEW S \in SUBSET Names, Passed(r, S)
  PROVE  \E q \in Request :
           /\ req' = [req EXCEPT ![r] = q] /\ q.method = req[r].method /\ q.name = req[r].name
           /\ q.promised = req[r].promised /\ q.stage = "router" /\ q.names = S
<1> DEFINE q == [req[r] EXCEPT !.stage = "router", !.names = S]
<1>1. req[r] \in Request /\ req \in [Requests -> Request \cup {NoRequest}]
  BY DEF ModesTypes
<1>2. /\ q \in Request /\ q.method = req[r].method /\ q.name = req[r].name
      /\ q.promised = req[r].promised /\ q.stage = "router" /\ q.names = S
  BY <1>1 DEF Request
<1>3. req' = [req EXCEPT ![r] = q]
  BY <1>1 DEF Passed
<1> QED
  BY <1>2, <1>3

-----------------------------------------------------------------------------
LEMMA InitModesInv == Init => ModesInv
<1> SUFFICES ASSUME Init PROVE ModesInv
  OBVIOUS
<1>1. ModesTypes
  BY DEF Init, ModesTypes
<1> QED
  BY <1>1 DEF Init, ModesInv, PhaseInv

(* A handler does something to its request; the lists and the routes may   *)
(* change with it.                                                         *)
LEMMA Handled ==
  ASSUME ModesInv, NEW r \in Requests, phase \notin {"bootstrap", "probe"}, NEW q \in Request,
         req' = [req EXCEPT ![r] = q], UNCHANGED <<phase, mesh, gateway>>, Grown,
         phase = "hybrid" => \A n \in DOMAIN routes' : n \in DOMAIN routes \/ n \in Tools,
         phase = "mesh" => q.stage \notin {"gateway", "init"},
         Gathered(q)', gateway.up /\ q.promised => OnItsWay(q)',
         listed' \in SUBSET Names,
         listed' = listed \/ (gateway.up => \A n \in listed' : Provided(n)')
  PROVE  ModesInv'
<1>1. /\ \A x \in Requests : x # r => req'[x] = req[x]
      /\ req'[r] = q /\ req' \in [Requests -> Request \cup {NoRequest}]
  BY DEF ModesInv, ModesTypes
<1>2. ModesTypes'
  BY <1>1 DEF ModesInv, ModesTypes, Grown
<1>3. \A n : Registered(n) => Registered(n)'
  BY DEF Registered, Grown
<1>4. PhaseInv'
  <2>1. (phase = "hybrid") => \A n \in DOMAIN routes' : n = Status \/ (n \in Tools /\ Registered(n)')
    <3> SUFFICES ASSUME phase = "hybrid", NEW n \in DOMAIN routes', n # Status
                 PROVE  n \in Tools /\ Registered(n)'
      OBVIOUS
    <3>1. CASE n \in DOMAIN routes
      BY <1>3, <3>1 DEF ModesInv, PhaseInv
    <3>2. CASE n \notin DOMAIN routes
      BY <3>2 DEF Grown, Registered
    <3> QED
      BY <3>1, <3>2
  <2>2. phase = "mesh" => \A x \in Requests : req'[x].stage \notin {"gateway", "init"}
    BY <1>1 DEF ModesInv, PhaseInv
  <2> QED
    BY <2>1, <2>2 DEF ModesInv, PhaseInv
<1>5. ASSUME NEW x \in Requests, req'[x] # NoRequest
      PROVE  /\ Gathered(req[x])'
             /\ (gateway.up /\ req'[x].promised) => OnItsWay(req[x])'
  <2>1. CASE x = r
    BY <1>1, <2>1 DEF Gathered, OnItsWay, OnMesh, Stale, Registered, HasRouter
  <2>2. CASE x # r
    <3>0. PICK p : p = req[x]
      OBVIOUS
    <3>1. req'[x] = p /\ p # NoRequest /\ Gathered(p) /\ (gateway.up /\ p.promised => OnItsWay(p))
      BY <1>1, <1>5, <2>2, <3>0 DEF ModesInv
    <3>2. Gathered(p) => Gathered(p)'
      BY <1>3 DEF Gathered
    <3>3. OnItsWay(p) => OnItsWay(p)'
      <4>1. \A n : (OnMesh(n) => OnMesh(n)') /\ (Stale(n) => Stale(n)')
        BY <1>3 DEF OnMesh, HasRouter, Stale, Registered
      <4> QED
        BY <1>3, <4>1 DEF OnItsWay
    <3> QED
      BY <3>0, <3>1, <3>2, <3>3
  <2> QED
    BY <2>1, <2>2
<1>6. gateway.up => \A n \in listed' : Provided(n)'
  <2>1. \A n : Provided(n) => Provided(n)'
    BY <1>3 DEF Provided, OnMesh, HasRouter
  <2> QED
    BY <2>1 DEF ModesInv
<1> QED
  BY <1>2, <1>4, <1>5, <1>6 DEF ModesInv

LEMMA Begun ==
  ASSUME ModesInv, NEW r \in Requests, req[r] # NoRequest
  PROVE  /\ phase \notin {"bootstrap", "probe"} /\ req[r] \in Request /\ Gathered(req[r])
         /\ (gateway.up /\ req[r].promised) => OnItsWay(req[r])
         /\ ModesTypes /\ req[r].names \in SUBSET Names /\ req[r].answer \in {"none", "result", "error"}
         /\ gateway.tools \in SUBSET Tools
         /\ (phase = "mesh" => req[r].stage \notin {"gateway", "init"}) /\ (phase = "gateway" => ~HasRouter)
  BY DEF ModesInv, ModesTypes, PhaseInv, HasRouter, Request

(* A request is answered by a list.                                        *)
LEMMA Listing ==
  ASSUME ModesInv, NEW r \in Requests, req[r] # NoRequest, req[r].method = "list",
         NEW N \in SUBSET Names, AnswersList(r, N), UNCHANGED <<phase, mesh, gateway>>, Grown,
         phase = "hybrid" => \A n \in DOMAIN routes' : n \in DOMAIN routes \/ n \in Tools,
         gateway.up => \A n \in N : Provided(n)'
  PROVE  ModesInv'
<1>0. ModesTypes
  BY Begun
<1>1. PICK q \in Request : /\ req' = [req EXCEPT ![r] = q] /\ q.stage = "answered"
                          /\ q.method = req[r].method /\ q.promised = req[r].promised
  BY <1>0, AnsweringList
<1>2. Gathered(q)' /\ (gateway.up => ~q.promised) /\ listed' = N
  BY <1>1, Begun DEF Gathered, OnItsWay, AnswersList
<1> QED
  BY <1>1, <1>2, Begun, Handled

LEMMA Merging ==
  ASSUME ModesInv, NEW r \in Requests, req[r] # NoRequest, req[r].method = "list",
         NEW S \in SUBSET (Tools \cup {Status}), ListMerged(r, S), UNCHANGED <<phase, mesh, gateway>>, Grown,
         phase \in {"hybrid", "exited"},
         phase = "hybrid" => /\ \A n \in DOMAIN routes' : n \in DOMAIN routes \/ n \in Tools
                             /\ \A n \in S : n = Status \/ (n \in Tools /\ Registered(n)')
  PROVE  ModesInv'
<1>1. CASE HasRouter
  <2>1. S \in SUBSET Names
    BY DEF Names
  <2>0. Passed(r, S) /\ ModesTypes
    BY <1>1, Begun DEF ListMerged, Passed
  <2>2. PICK q \in Request : /\ req' = [req EXCEPT ![r] = q] /\ q.stage = "router" /\ q.names = S
                            /\ q.method = req[r].method /\ q.promised = req[r].promised
    BY <2>0, <2>1, Passing
  <2>3. Gathered(q)' /\ (gateway.up => ~q.promised) /\ listed' = listed
    BY <1>1, <2>2, Begun DEF Gathered, OnItsWay, ListMerged
  <2>4. listed' \in SUBSET Names
    BY <2>3 DEF ModesInv, ModesTypes
  <2> QED
    BY <2>2, <2>3, <2>4, Begun, Handled
<1>2. CASE ~HasRouter
  <2> DEFINE N == WithAliases(S \cup {Status})
  <2>1. N \in SUBSET Names /\ \A n \in N : Canonical(n) \in S \cup {Status}
    BY ExposedIs
  <2>2. AnswersList(r, N)
    BY <1>2 DEF ListMerged
  <2>3. \A n \in N : Provided(n)'
    BY <2>1 DEF Provided, OnMesh
  <2> QED
    BY <2>1, <2>2, <2>3, Listing
<1> QED
  BY <1>1, <1>2

LEMMA LineKeeps ==
  ASSUME ModesInv, NEW r \in Requests, NEW method \in Methods, NEW n \in Names, Line(r, method, n)
  PROVE  ModesInv'
<1>0. PICK stage, promised :
        stage = FirstStage(method, n) /\ promised \in BOOLEAN /\ (promised <=> method = "call" /\ n \in listed)
  <2>1. (method = "call" /\ n \in listed) \in BOOLEAN
    OBVIOUS
  <2> QED
    BY <2>1
<1>q. PICK q :
        q = [stage |-> stage, method |-> method, name |-> Canonical(n), names |-> {},
             answer |-> IF stage = "answered" THEN "result" ELSE "none", promised |-> promised]
  OBVIOUS
<1>1. phase \in {"gateway", "hybrid", "mesh"} /\ listed \in SUBSET Names /\ ModesTypes
  BY DEF Line, Serving, ModesInv, ModesTypes
<1>2. /\ Canonical(n) \in Names /\ Canonical(n) \in Tools \cup {Status}
      /\ Canonical(Canonical(n)) = Canonical(n)
  BY CanonicalIs
<1>3. /\ stage \in {"answered", "gateway", "init", "router"}
      /\ phase = "mesh" <=> stage = "router"
      /\ (phase = "gateway" /\ method = "call" /\ Canonical(n) # Status) => stage = "gateway"
      /\ (phase = "gateway" /\ method = "call" /\ Canonical(n) = Status) => stage = "answered"
      /\ (phase = "hybrid" /\ method = "call") =>
           stage = IF Resolve(Canonical(n)) # "http-gateway" THEN "init" ELSE "gateway"
  BY <1>0, <1>1, Zenon DEF FirstStage
<1>4. Resolve(Canonical(n)) = IF Canonical(n) \in DOMAIN routes THEN routes[Canonical(n)].provider ELSE "none"
  BY <1>2 DEF Resolve
<1>5. q \in Request
  BY <1>q, <1>0, <1>2, <1>3 DEF Request
<1>6. /\ req' = [req EXCEPT ![r] = q] /\ UNCHANGED <<phase, mesh, gateway, routes, listed>>
  BY <1>q, <1>0 DEF Line
<1>9. q.promised = promised /\ q.stage = stage /\ q.method = method /\ q.name = Canonical(n) /\ q.names = {}
      /\ q.answer = IF stage = "answered" THEN "result" ELSE "none"
  BY <1>q
<1>7. ASSUME gateway.up, promised
      PROVE  OnItsWay(q)'
  <2>1. Provided(n) /\ method = "call"
    BY <1>0, <1>7 DEF ModesInv
  <2>2. CASE phase = "gateway"
    BY <1>9, <1>3, <1>6, <2>1, <2>2 DEF OnItsWay, Provided
  <2>3. CASE phase = "hybrid"
    BY <1>9, <1>3, <1>4, <1>6, <2>1, <2>3 DEF OnItsWay, Provided, Registered, OnMesh, HasRouter
  <2>4. CASE phase = "mesh"
    BY <1>9, <1>3, <1>6, <2>1, <2>4 DEF OnItsWay, Provided
  <2> QED
    BY <1>1, <2>2, <2>3, <2>4
<1>8. Gathered(q)'
  BY <1>9 DEF Gathered
<1> QED
  BY <1>1, <1>3, <1>5, <1>6, <1>7, <1>8, <1>9, NothingRecorded, Handled

(* A request is answered, not by a list.  An error breaks no promise if    *)
(* the tool is gone, or the status tool has no mesh to answer it.          *)
LEMMA AnsweredKeeps ==
  ASSUME ModesInv, NEW r \in Requests, req[r] # NoRequest, NEW answer \in {"result", "error"},
         Answers(r, answer), UNCHANGED <<phase, mesh, gateway, listed>>, Grown, DOMAIN routes' = DOMAIN routes,
         (answer = "error" /\ gateway.up /\ req[r].promised) =>
            Stale(req[r].name) \/ (mesh = "failed" /\ req[r].name = Status)
  PROVE  ModesInv'
<1>0. ModesTypes /\ listed' \in SUBSET Names
  BY DEF ModesInv, ModesTypes
<1>1. PICK q \in Request : /\ req' = [req EXCEPT ![r] = q] /\ q.method = req[r].method /\ q.name = req[r].name
                          /\ q.promised = req[r].promised /\ q.stage = "answered" /\ q.answer = answer
  BY <1>0, Answering
<1>2. PICK name : name = req[r].name
  OBVIOUS
<1>3. (gateway.up /\ q.promised) => q.method \in {"call", "late"}
  BY <1>1, Begun DEF OnItsWay
<1>4. Stale(name) => Stale(name)'
  BY DEF Stale, Grown
<1>5. Gathered(q)' /\ (gateway.up /\ q.promised => OnItsWay(q)')
  BY <1>1, <1>2, <1>3, <1>4 DEF Gathered, OnItsWay
<1> QED
  BY <1>0, <1>1, <1>5, Begun, Handled

LEMMA GatewayAnswersKeeps ==
  ASSUME ModesInv, NEW r \in Requests, GatewayAnswers(r)
  PROVE  ModesInv'
<1>1. /\ req[r].stage = "gateway" /\ gateway.up /\ req[r] # NoRequest /\ UNCHANGED <<phase, mesh, gateway>>
      /\ phase \in {"gateway", "hybrid", "exited"}
  <2>1. req[r].stage = "gateway" /\ gateway.up /\ req[r] # NoRequest /\ UNCHANGED <<phase, mesh, gateway>>
    BY RequestIs DEF GatewayAnswers
  <2> QED
    BY <2>1, Begun DEF ModesTypes
<1> DEFINE names == IF phase = "gateway" THEN WithAliases(gateway.tools \cup {Status}) ELSE gateway.tools
<1>2. gateway.tools \in SUBSET Tools /\ ModesTypes
  BY <1>1, Begun
<1>3. names \in SUBSET Names /\ (phase # "gateway" => names \in SUBSET (Tools \cup {Status}) /\ names = gateway.tools)
  BY <1>2, ExposedIs DEF Names
<1>4. CASE req[r].method = "list" /\ phase = "gateway"
  <2>1. routes' = RegisterGatewayTools(routes, names) /\ AnswersList(r, names)
    BY <1>4 DEF GatewayAnswers
  <2>2. \A n \in names : Provided(n)'
    BY <1>1, <1>2, <1>4, ExposedIs DEF Provided
  <2> HIDE DEF names
  <2>3. Grown
    BY <1>2, <1>3, <2>1, Registering
  <2> QED
    BY <1>1, <1>3, <1>4, <2>1, <2>2, <2>3, Listing
<1>5. CASE req[r].method = "list" /\ phase # "gateway"
  <2>1. routes' = RegisterGatewayTools(routes, names) /\ ListMerged(r, names)
    BY <1>5 DEF GatewayAnswers
  <2>2. names = gateway.tools
    BY <1>5
  <2> HIDE DEF names
  <2>3. Grown /\ DOMAIN routes' = DOMAIN routes \cup names /\ \A n \in names : Registered(n)'
    BY <1>2, <1>3, <2>1, Registering
  <2> QED
    BY <1>1, <1>2, <1>3, <1>5, <2>1, <2>2, <2>3, Merging
<1>6. CASE req[r].method # "list"
  <2>1. /\ Answers(r, "result") /\ UNCHANGED listed
        /\ routes' = IF req[r].method = "call" /\ phase = "hybrid" THEN Recorded(req[r].name, 0) ELSE routes
    BY <1>6 DEF GatewayAnswers
  <2>2. Grown /\ DOMAIN routes' = DOMAIN routes
    BY <1>2, <2>1, Recording, NothingRecorded
  <2> QED
    BY <1>1, <2>1, <2>2, AnsweredKeeps
<1> QED
  BY <1>4, <1>5, <1>6

LEMMA GatewayRefusesKeeps ==
  ASSUME ModesInv, NEW r \in Requests, GatewayRefuses(r)
  PROVE  ModesInv'
<1>1. /\ req[r].stage = "gateway" /\ gateway.up /\ req[r] # NoRequest /\ UNCHANGED <<phase, mesh, gateway>>
      /\ phase \in {"gateway", "hybrid", "exited"} /\ ModesTypes
  <2>1. req[r].stage = "gateway" /\ gateway.up /\ req[r] # NoRequest /\ UNCHANGED <<phase, mesh, gateway>>
    BY RequestIs DEF GatewayRefuses
  <2> QED
    BY <2>1, Begun DEF ModesTypes
<1>2. routes' = IF req[r].method = "call" /\ phase = "hybrid" THEN Recorded(req[r].name, 0) ELSE routes
  BY DEF GatewayRefuses
<1>3. Grown /\ DOMAIN routes' = DOMAIN routes
  BY <1>1, <1>2, Recording, NothingRecorded
<1>4. CASE req[r].method \in {"call", "late"} /\ req[r].name \notin gateway.tools /\ Answers(r, "error") /\ UNCHANGED listed
  <2>1. req[r].promised => Stale(req[r].name) \/ (mesh = "failed" /\ req[r].name = Status)
    BY <1>1, <1>4, Begun DEF OnItsWay, Stale, Registered
  <2> QED
    BY <1>1, <1>3, <1>4, <2>1, AnsweredKeeps
<1>5. CASE req[r].method = "list" /\ phase = "hybrid" /\ ListMerged(r, {})
  BY <1>1, <1>3, <1>5, Merging
<1>6. CASE /\ req' = [req EXCEPT ![r].stage = "answered", ![r].answer = "error", ![r].promised = FALSE]
           /\ UNCHANGED listed
  <2>1. PICK q \in Request : req' = [req EXCEPT ![r] = q] /\ q.stage = "answered" /\ ~q.promised
    <3> DEFINE q == [req[r] EXCEPT !.stage = "answered", !.answer = "error", !.promised = FALSE]
    <3>1. req[r] \in Request /\ req \in [Requests -> Request \cup {NoRequest}]
      BY <1>1 DEF ModesTypes
    <3>2. q \in Request /\ q.stage = "answered" /\ ~q.promised
      BY <3>1 DEF Request
    <3>3. req' = [req EXCEPT ![r] = q]
      BY <1>6, <3>1
    <3> QED
      BY <3>2, <3>3
  <2>2. Gathered(q)' /\ listed' \in SUBSET Names
    BY <1>1, <1>6, <2>1 DEF Gathered, ModesTypes
  <2> QED
    BY <1>1, <1>3, <1>6, <2>1, <2>2, Begun, Handled
<1> QED
  BY <1>4, <1>5, <1>6, Zenon DEF GatewayRefuses

LEMMA GatewayThrowsKeeps ==
  ASSUME ModesInv, NEW r \in Requests, GatewayThrows(r)
  PROVE  ModesInv'
<1>1. /\ req[r].stage = "gateway" /\ ~gateway.up /\ req[r] # NoRequest /\ UNCHANGED <<phase, mesh, gateway>>
      /\ phase \in {"gateway", "hybrid", "exited"} /\ ModesTypes
  <2>1. req[r].stage = "gateway" /\ ~gateway.up /\ req[r] # NoRequest /\ UNCHANGED <<phase, mesh, gateway>>
    BY RequestIs DEF GatewayThrows
  <2> QED
    BY <2>1, Begun DEF ModesTypes
<1>2. routes' = IF req[r].method = "call" /\ phase = "hybrid"
                THEN Recorded(req[r].name, Failures(req[r].name)) ELSE routes
  BY DEF GatewayThrows
<1>3. Grown /\ DOMAIN routes' = DOMAIN routes /\ DOMAIN routes \in SUBSET Names
  BY <1>1, <1>2, CountIs, Recording, NothingRecorded DEF ModesTypes
<1>4. CASE req[r].method = "list" /\ phase = "gateway" /\ AnswersList(r, DOMAIN routes)
  BY <1>1, <1>3, <1>4, Listing
<1>5. CASE req[r].method = "list" /\ phase = "hybrid" /\ ListMerged(r, DOMAIN routes)
  <2>1. \A n \in DOMAIN routes : n = Status \/ (n \in Tools /\ Registered(n)')
    BY <1>3, <1>5 DEF ModesInv, PhaseInv, Registered, Grown
  <2>2. PICK S \in SUBSET (Tools \cup {Status}) : S = DOMAIN routes
    BY <2>1
  <2>3. ListMerged(r, S)
    BY <1>5, <2>2
  <2> QED
    BY <1>1, <1>3, <1>5, <2>1, <2>2, <2>3, Merging
<1>6. CASE Answers(r, "error") /\ UNCHANGED listed
  BY <1>1, <1>3, <1>6, AnsweredKeeps
<1>7. CASE Goes(r, "init") /\ UNCHANGED listed /\ ~(req[r].method = "list" /\ phase = "hybrid")
  <2>1. PICK q \in Request : req' = [req EXCEPT ![r] = q] /\ q.stage = "init" /\ q.method = req[r].method
    BY <1>1, <1>7, Going
  <2>2. Gathered(q)' /\ listed' \in SUBSET Names
    BY <1>1, <1>7, <2>1 DEF Gathered, ModesTypes
  <2> QED
    BY <1>1, <1>3, <2>1, <2>2, <1>7, Begun, Handled
<1> QED
  BY <1>4, <1>5, <1>6, <1>7, Zenon DEF GatewayThrows

LEMMA InitSettledKeeps ==
  ASSUME ModesInv, NEW r \in Requests, InitSettled(r)
  PROVE  ModesInv'
<1>1. /\ req[r].stage = "init" /\ req[r] # NoRequest /\ phase # "mesh" /\ mesh \in {"ready", "failed"}
      /\ UNCHANGED <<phase, mesh, gateway, routes, listed>> /\ ModesTypes
  <2>1. req[r].stage = "init" /\ req[r] # NoRequest /\ UNCHANGED <<phase, mesh, gateway, routes, listed>>
    BY RequestIs DEF InitSettled
  <2> QED
    BY <2>1, Begun DEF InitSettled, Settled
<1>2. Grown /\ listed' \in SUBSET Names
  BY <1>1, NothingRecorded DEF ModesTypes
<1>3. (gateway.up /\ req[r].promised) => req[r].method \in {"call", "late"} /\ OnMesh(req[r].name)
  BY <1>1, Begun DEF OnItsWay
<1>4. ASSUME NEW stage \in {"router", "dropped"}, Goes(r, stage), stage = "router" => HasRouter
      PROVE  ModesInv'
  <2>1. PICK q \in Request : /\ req' = [req EXCEPT ![r] = q] /\ q.stage = stage /\ q.method = req[r].method
                            /\ q.name = req[r].name /\ q.names = req[r].names /\ q.promised = req[r].promised
    BY <1>1, <1>4, Going
  <2>2. Gathered(q)'
    BY <1>1, <2>1, Begun DEF Gathered, Registered
  <2>3. (gateway.up /\ q.promised) => OnItsWay(q)'
    BY <1>1, <1>3, <2>1 DEF OnItsWay, OnMesh
  <2> QED
    BY <1>1, <1>2, <1>4, <2>1, <2>2, <2>3, Begun, Handled
<1>5. CASE req' = [req EXCEPT ![r].stage = "gateway", ![r].method = "late"] /\ ~HasRouter
  <2>1. PICK q \in Request : /\ req' = [req EXCEPT ![r] = q] /\ q.stage = "gateway" /\ q.method = "late"
                            /\ q.name = req[r].name /\ q.promised = req[r].promised
    <3> DEFINE q == [req[r] EXCEPT !.stage = "gateway", !.method = "late"]
    <3>1. req[r] \in Request /\ req \in [Requests -> Request \cup {NoRequest}]
      BY <1>1 DEF ModesTypes
    <3>2. q \in Request /\ q.stage = "gateway" /\ q.method = "late" /\ q.name = req[r].name /\ q.promised = req[r].promised
      BY <3>1 DEF Request
    <3>3. req' = [req EXCEPT ![r] = q]
      BY <1>5, <3>1
    <3> QED
      BY <3>2, <3>3
  <2>2. mesh = "failed"
    BY <1>1, <1>5 DEF HasRouter
  <2>3. Gathered(q)' /\ ((gateway.up /\ q.promised) => OnItsWay(q)')
    BY <1>1, <1>3, <1>5, <2>1, <2>2 DEF OnItsWay, OnMesh, Gathered
  <2> QED
    BY <1>1, <1>2, <2>1, <2>3, Begun, Handled
<1> QED
  BY <1>4, <1>5, Zenon DEF InitSettled

LEMMA RouterAnswersKeeps ==
  ASSUME ModesInv, NEW r \in Requests, RouterAnswers(r)
  PROVE  ModesInv'
<1>1. /\ req[r].stage = "router" /\ req[r] # NoRequest /\ HasRouter /\ phase \in {"mesh", "hybrid"}
      /\ UNCHANGED <<phase, mesh, gateway, routes>> /\ ModesTypes
  <2>1. req[r].stage = "router" /\ req[r] # NoRequest /\ HasRouter /\ UNCHANGED <<phase, mesh, gateway, routes>>
    BY RequestIs DEF RouterAnswers
  <2> QED
    BY <2>1, Begun DEF RouterAnswers, ModesTypes
<1>2. Grown
  BY <1>1, NothingRecorded
<1>3. (gateway.up /\ req[r].promised) => req[r].name \in MeshTools \cup {Status}
  BY <1>1, Begun DEF OnItsWay
<1>4. CASE req[r].method = "list"
  <2> DEFINE N == IF phase = "mesh" THEN MeshTools \cup {Status}
                  ELSE WithAliases(req[r].names \cup MeshTools \cup {Status})
  <2>1. AnswersList(r, N)
    BY <1>4, Zenon DEF RouterAnswers
  <2>2. CASE phase = "mesh"
    <3>1. N = MeshTools \cup {Status}
      BY <2>2
    <3> HIDE DEF N
    <3>2. N \in SUBSET Names /\ \A n \in N : Canonical(n) = n
      BY <3>1, CanonicalIs, ModesAssumption
    <3>3. \A n \in N : Provided(n)'
      BY <1>1, <2>2, <3>1, <3>2 DEF Provided
    <3> QED
      BY <1>1, <1>2, <1>4, <2>1, <3>2, <3>3, Listing
  <2>3. CASE phase = "hybrid"
    <3>1. PICK S \in SUBSET (Tools \cup {Status}) : S = req[r].names \cup MeshTools \cup {Status}
      BY <1>1, <1>4, <2>3, Begun, ModesAssumption DEF Gathered
    <3>2. N = WithAliases(S)
      BY <2>3, <3>1
    <3> HIDE DEF N
    <3>3. N \in SUBSET Names /\ \A n \in N : Canonical(n) \in S
      BY <3>2, ExposedIs
    <3>4. \A n \in S : OnMesh(n) \/ Registered(n)
      BY <1>1, <1>4, <2>3, <3>1, Begun DEF Gathered, OnMesh
    <3>5. \A n \in S : (OnMesh(n) \/ Registered(n))'
      BY <1>1, <3>4 DEF OnMesh, Registered, HasRouter
    <3>6. \A n \in N : Provided(n)'
      BY <1>1, <2>3, <3>3, <3>5 DEF Provided
    <3> QED
      BY <1>1, <1>2, <1>4, <2>1, <2>3, <3>3, <3>6, Listing
  <2> QED
    BY <1>1, <2>2, <2>3
<1>5. CASE req[r].method # "list"
  <2>1. PICK answer \in {"result", "error"} :
          /\ Answers(r, answer) /\ UNCHANGED listed
          /\ (req[r].method \in {"call", "late"} /\ answer = "error") => req[r].name \notin MeshTools \cup {Status}
    BY <1>5, Zenon DEF RouterAnswers
  <2>2. ~(answer = "error" /\ gateway.up /\ req[r].promised)
    BY <1>1, <1>3, <2>1, Begun DEF OnItsWay
  <2> QED
    BY <1>1, <1>2, <2>1, <2>2, AnsweredKeeps
<1> QED
  BY <1>4, <1>5

(* No request moves.  A mesh that has a router keeps it, one that failed   *)
(* stays so, and a list from before the mesh changed is not the newest.    *)
LEMMA Quiet ==
  ASSUME ModesInv, UNCHANGED <<req, gateway>>, phase' \in {phase, "exited"}, Grown,
         phase # "gateway" => UNCHANGED routes, mesh' \in {"off", "starting", "routing", "ready", "failed"},
         phase \in {"bootstrap", "probe", "gateway"} => UNCHANGED mesh,
         HasRouter => HasRouter', mesh = "failed" => mesh' = "failed",
         listed' = {} \/ UNCHANGED <<listed, mesh>>
  PROVE  ModesInv'
<1>1. ModesTypes'
  BY DEF ModesInv, ModesTypes, Grown
<1>2. \A n : /\ Registered(n) => Registered(n)'
             /\ OnMesh(n) => OnMesh(n)'
             /\ Stale(n) => Stale(n)'
  BY DEF Registered, OnMesh, Stale, Grown
<1>3. PhaseInv'
  BY <1>2 DEF ModesInv, PhaseInv
<1>4. ASSUME NEW r \in Requests, req[r] # NoRequest
      PROVE  Gathered(req[r])' /\ (gateway.up /\ req[r].promised => OnItsWay(req[r])')
  <2>1. PICK p : p = req[r]
    OBVIOUS
  <2>2. Gathered(p) /\ (gateway.up /\ p.promised => OnItsWay(p))
    BY <1>4, <2>1 DEF ModesInv
  <2>3. Gathered(p) => Gathered(p)'
    BY <1>2 DEF Gathered
  <2>4. OnItsWay(p) => OnItsWay(p)'
    BY <1>2 DEF OnItsWay
  <2> QED
    BY <2>1, <2>2, <2>3, <2>4
<1>5. gateway.up => \A n \in listed' : Provided(n)'
  <2>1. \A n : Provided(n) => Provided(n)'
    BY <1>2 DEF Provided
  <2> QED
    BY <2>1 DEF ModesInv
<1> QED
  BY <1>1, <1>3, <1>4, <1>5 DEF ModesInv

LEMMA RouterRejectsKeeps ==
  ASSUME ModesInv, NEW r \in Requests, RouterRejects(r)
  PROVE  ModesInv'
<1>1. /\ req[r].stage = "router" /\ req[r] # NoRequest /\ UNCHANGED <<gateway, mesh, routes, listed>> /\ ModesTypes
  BY RequestIs DEF RouterRejects, ModesInv
<1>2. Grown /\ listed' \in SUBSET Names
  BY <1>1, NothingRecorded DEF ModesTypes
<1>3. CASE phase = "mesh" /\ Goes(r, "dropped") /\ UNCHANGED phase
  <2>1. PICK q \in Request : /\ req' = [req EXCEPT ![r] = q] /\ q.stage = "dropped"
                            /\ q.method = req[r].method /\ q.promised = req[r].promised
    BY <1>1, <1>3, Going
  <2>2. Gathered(q)' /\ ((gateway.up /\ q.promised) => OnItsWay(q)')
    BY <1>1, <1>3, <2>1, Begun DEF OnItsWay, Gathered
  <2> QED
    BY <1>1, <1>2, <1>3, <2>1, <2>2, Handled
<1>4. CASE phase' = "exited" /\ UNCHANGED req
  <2>1. HasRouter => HasRouter'
    BY <1>1 DEF HasRouter
  <2> QED
    BY <1>1, <1>2, <1>4, <2>1, Quiet DEF ModesTypes
<1> QED
  BY <1>3, <1>4 DEF RouterRejects

LEMMA MeshKeeps ==
  ASSUME ModesInv, MeshStarts \/ MeshFails
  PROVE  ModesInv'
<1>1. /\ UNCHANGED <<req, gateway, routes>> /\ phase' \in {phase, "exited"} /\ listed' = {}
      /\ mesh \in {"starting", "routing"} /\ mesh' \in {"routing", "ready", "failed"}
      /\ HasRouter => HasRouter'
  BY DEF MeshStarts, MeshFails, HasRouter
<1>2. Grown /\ phase \notin {"bootstrap", "probe", "gateway"}
  BY <1>1, NothingRecorded DEF ModesInv, PhaseInv
<1> QED
  BY <1>1, <1>2, Quiet

LEMMA PollKeeps ==
  ASSUME ModesInv, Poll
  PROVE  ModesInv'
<1>1. /\ UNCHANGED <<req, gateway, phase, mesh, listed>> /\ phase = "gateway" /\ ModesTypes
      /\ routes' = RegisterGatewayTools(routes, gateway.tools)
  BY DEF Poll, ModesInv
<1>2. gateway.tools \in SUBSET Names
  BY <1>1 DEF ModesTypes, Names
<1>3. Grown
  BY <1>1, <1>2, Registering
<1>4. mesh' \in {"off", "starting", "routing", "ready", "failed"} /\ (HasRouter => HasRouter')
  BY <1>1 DEF ModesTypes, HasRouter
<1> QED
  BY <1>1, <1>3, <1>4, Quiet

LEMMA StillKeeps ==
  ASSUME ModesInv, HostCloses \/ UNCHANGED vars
  PROVE  ModesInv'
<1>1. UNCHANGED <<req, gateway, mesh, routes, listed>> /\ phase' \in {phase, "exited"} /\ ModesTypes
  BY DEF HostCloses, vars, ModesInv
<1>2. Grown /\ mesh' \in {"off", "starting", "routing", "ready", "failed"} /\ (HasRouter => HasRouter')
  BY <1>1, NothingRecorded DEF ModesTypes, HasRouter
<1> QED
  BY <1>1, <1>2, Quiet

(* After the gateway changed, nothing is promised any more.                *)
LEMMA GatewayChangesKeeps ==
  ASSUME ModesInv, NEW up \in BOOLEAN, NEW tools \in SUBSET Tools, GatewayChanges(up, tools)
  PROVE  ModesInv'
<1>1. /\ UNCHANGED <<phase, mesh, routes>> /\ listed' = {} /\ ModesTypes
      /\ gateway' = [up |-> up, tools |-> tools]
      /\ req' = [r \in Requests |-> IF req[r] = NoRequest THEN NoRequest ELSE [req[r] EXCEPT !.promised = FALSE]]
  BY DEF GatewayChanges, ModesInv
<1>2. ASSUME NEW r \in Requests, req[r] # NoRequest
      PROVE  /\ req'[r] \in Request /\ ~req'[r].promised /\ req'[r].stage = req[r].stage
             /\ req'[r].method = req[r].method /\ req'[r].names = req[r].names
  <2>1. PICK p \in Request : p = req[r]
    BY <1>1, <1>2 DEF ModesTypes
  <2>2. req'[r] = [p EXCEPT !.promised = FALSE]
    BY <1>1, <1>2, <2>1
  <2>3. /\ [p EXCEPT !.promised = FALSE] \in Request
        /\ [p EXCEPT !.promised = FALSE].promised = FALSE
        /\ [p EXCEPT !.promised = FALSE].stage = p.stage
        /\ [p EXCEPT !.promised = FALSE].method = p.method
        /\ [p EXCEPT !.promised = FALSE].names = p.names
    BY DEF Request
  <2> QED
    BY <2>1, <2>2, <2>3
<1>3. \A r \in Requests : req[r] = NoRequest => req'[r] = NoRequest
  BY <1>1
<1>4. req' \in [Requests -> Request \cup {NoRequest}]
  BY <1>1, <1>2, <1>3
<1>5. ModesTypes'
  BY <1>1, <1>4 DEF ModesTypes
<1>6. PhaseInv'
  BY <1>1, <1>2, <1>3 DEF ModesInv, PhaseInv, Registered
<1>7. \A r \in Requests : req'[r] # NoRequest => Gathered(req[r])'
  BY <1>1, <1>2, <1>3 DEF ModesInv, Gathered, Registered
<1> QED
  BY <1>1, <1>2, <1>3, <1>5, <1>6, <1>7 DEF ModesInv

LEMMA StartKeeps ==
  ASSUME ModesInv, ResolveBootstrapNodes \/ Probe
  PROVE  ModesInv'
<1>1. /\ UNCHANGED <<gateway, req, listed>> /\ ModesTypes /\ listed = {} /\ DOMAIN routes = {} /\ mesh = "off"
      /\ \A r \in Requests : req[r] = NoRequest
  BY DEF ResolveBootstrapNodes, Probe, ModesInv, PhaseInv
<1>2. CASE phase' \in {"probe", "exited"} /\ UNCHANGED <<mesh, routes>>
  BY <1>1, <1>2 DEF ModesInv, ModesTypes, PhaseInv
<1>3. ASSUME NEW mode \in {"gateway", "hybrid", "mesh"}, Begin(mode)
      PROVE  ModesInv'
  <2>1. phase' = mode /\ mesh' = IF mode = "gateway" THEN "off" ELSE "starting"
    BY <1>3 DEF Begin
  <2>2. /\ routes' \in [DOMAIN routes' -> Route] /\ DOMAIN routes' \subseteq Tools \cup {Status}
        /\ mode = "hybrid" => \A n \in DOMAIN routes' : n = Status \/ routes'[n].provider = "http-gateway"
    <3>1. CASE mode = "mesh"
      BY <1>1, <1>3, <3>1 DEF Begin, ModesTypes
    <3>2. CASE mode # "mesh"
      <4> DEFINE g == [provider |-> "http-gateway", failCount |-> 0]
                 l == [provider |-> "local", failCount |-> 0]
                 t == RegisterLocalTool(routes, Status)
      <4>1. g \in Route /\ l \in Route /\ g.provider = "http-gateway"
        BY DEF Route
      <4>2. routes' = [m \in DOMAIN t \cup gateway.tools |-> IF m \in gateway.tools THEN g ELSE t[m]]
        BY <1>3, <3>2 DEF Begin, RegisterGatewayTools
      <4>3. t = [m \in {Status} |-> l]
        BY <1>1 DEF RegisterLocalTool
      <4> HIDE DEF g, l, t
      <4>4. gateway.tools \in SUBSET Tools
        BY <1>1 DEF ModesTypes
      <4> QED
        BY <4>1, <4>2, <4>3, <4>4
    <3> QED
      BY <3>1, <3>2
  <2>3. ModesTypes'
    BY <1>1, <2>1, <2>2 DEF ModesTypes, Names
  <2>4. PhaseInv'
    BY <1>1, <2>1, <2>2, RequestIs DEF PhaseInv, Registered
  <2> QED
    BY <1>1, <2>3, <2>4 DEF ModesInv
<1> QED
  BY <1>1, <1>2, <1>3, Zenon DEF ResolveBootstrapNodes, Probe

-----------------------------------------------------------------------------
(* A name on a list that the agent gave out can be called while nothing    *)
(* changes, for any number of requests, tools, aliases and changes of the  *)
(* gateway: forwarding, fallback and the merged lists of bin/agent.ts.     *)
THEOREM ListedCallable == Spec => []ListedIsCallable
<1>1. ModesInv /\ [Next]_vars => ModesInv'
  <2> SUFFICES ASSUME ModesInv, [Next]_vars PROVE ModesInv'
    OBVIOUS
  <2>1. CASE Startup
    BY <2>1, StartKeeps, MeshKeeps DEF Startup
  <2>2. CASE \E r \in Requests, m \in Methods \ {"call"} : Line(r, m, Status)
    BY <2>2, LineKeeps DEF Names
  <2>3. CASE \E r \in Requests, n \in Names : Line(r, "call", n)
    <3>1. "call" \in Methods
      BY DEF Methods
    <3> QED
      BY <2>3, <3>1, LineKeeps
  <2>4. CASE \E r \in Requests : Handler(r) \/ RouterAnswers(r) \/ RouterRejects(r)
    BY <2>4, GatewayAnswersKeeps, GatewayRefusesKeeps, GatewayThrowsKeeps, InitSettledKeeps,
       RouterAnswersKeeps, RouterRejectsKeeps DEF Handler
  <2>5. CASE Poll
    BY <2>5, PollKeeps
  <2>6. CASE HostCloses \/ UNCHANGED vars
    BY <2>6, StillKeeps
  <2>7. CASE \E up \in BOOLEAN, tools \in SUBSET Tools : GatewayChanges(up, tools)
    BY <2>7, GatewayChangesKeeps
  <2> QED
    BY <2>1, <2>2, <2>3, <2>4, <2>5, <2>6, <2>7 DEF Next
<1>2. ModesInv => ListedIsCallable
  <2> SUFFICES ASSUME ModesInv, NEW r \in Requests, req[r].stage = "answered", req[r].promised,
                      req[r].answer = "error", gateway.up
               PROVE  Stale(req[r].name) \/ (mesh = "failed" /\ req[r].name = Status)
    BY DEF ListedIsCallable
  <2>1. req[r] # NoRequest
    BY RequestIs
  <2> QED
    BY <2>1 DEF ModesInv, OnItsWay
<1> QED
  BY <1>1, <1>2, InitModesInv, PTL DEF Spec
=============================================================================
