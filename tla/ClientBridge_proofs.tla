------------------------- MODULE ClientBridge_proofs -------------------------
(***************************************************************************)
(* Proofs about the two parties that verify receipts.  The client, for any *)
(* number of calls, providers, answers and faults: ClientInv ties each     *)
(* call to its connection and to the tokens it sent.  The stream bridge,   *)
(* for any number of requests, addresses and sessions, every limit and     *)
(* every message: BridgeInv counts sessions and pairs them with            *)
(* transports.                                                             *)
(***************************************************************************)
EXTENDS MCClientBridge, FiniteSetTheorems, SequenceTheorems, TLAPS

(***************************************************************************)
(* The client.                                                             *)
(***************************************************************************)
Keys == Providers \cup {Tool, "static", NoValue}
SentTokens == {Own(p) : p \in Providers} \cup {Issued(n) : n \in Nat}
ConnTokens == SentTokens \cup {Resolver}
Places == [peer : Providers, at : Nat]
(* A place in the cache, and the manifest that was found there.            *)
Found == (Nat \ {0}) \X Providers \X Nat
Conns == [peer : Providers, at : Nat, token : ConnTokens]
CallRec(c) ==
    [stage : {"idle", "resolve", "find", "address", "token", "intent", "stream", "settled"},
     key : Keys, conn : Nat, arg : {<<>>} \cup Found \cup (Providers \X Nat),
     open : BOOLEAN, received : Nat, verifying : SUBSET Answers(c), sent : Seq(SentTokens), refused : 0 .. 2,
     outcome : {"none", "no provider", "unauthenticated", "failed", "error", "verified", "refused"},
     answer : Answers(c) \cup {<<>>}]

(* A token is known at time v: it was not issued later.                    *)
Known(t, v) == \A n \in Nat : t = Issued(n) => n <= v
(* Token u was issued after token t, and by time v.                        *)
Precedes(t, u, v) == \E n \in Nat : n <= v /\ u = Issued(n) /\ \A m \in Nat : t = Issued(m) => m < n

(* Where a call's connection is in the table, it is under the key that the *)
(* call goes by, or under the tool.                                        *)
Linked(q, rpc) == \A k \in DOMAIN rpc : rpc[k] = q.conn => k \in {q.key, Tool}

(* A call that was refused goes on with a token that was issued after the  *)
(* first one it sent.                                                      *)
Early(q) == q.stage \in {"idle", "resolve", "find", "address"}
Asking(q, cs, v) ==
    /\ Early(q) => q.sent = <<>> /\ q.refused = 0
    /\ q.stage \in {"token", "intent"} => q.conn \in DOMAIN cs
    /\ q.stage = "token" =>
         IF q.refused = 0 THEN q.sent = <<>>
         ELSE Len(q.sent) > 0 /\ Precedes(q.sent[1], cs[q.conn].token, v)
    /\ q.stage = "intent" =>
         /\ Len(q.sent) > 0 /\ Known(q.sent[Len(q.sent)], v)
         /\ IF q.refused = 0 THEN Len(q.sent) = 1
            ELSE Len(q.sent) > 1 /\ Precedes(q.sent[1], q.sent[Len(q.sent)], v)
    /\ (q.stage = "settled" /\ q.outcome = "unauthenticated" /\ Managed) =>
         Len(q.sent) > 1 /\ q.sent[1] # q.sent[Len(q.sent)]

(* What a verified answer was checked for.                                 *)
Justified(c, a) ==
    /\ ~a.isError /\ a.receipt.logic = LogicOf[c]
    /\ LogicOf[c].proxy \/ a.receipt.output = <<"result", a.evidence>>
    /\ a.receipt.version = 1 => a.receipt.secret = c
    /\ PolicyOf[c] = "required" => a.receipt.version = 2
Answered(c, q) ==
    /\ \A a \in q.verifying : ~a.isError
    /\ q.outcome = "verified" => Justified(c, q.answer)

PerCall(c, q, ms, rpc, cs, v) ==
    /\ q \in CallRec(c) /\ q.conn <= Len(cs)
    /\ q.stage = "resolve" => q.arg \in Found
    /\ q.stage = "address" => q.arg \in Providers \X Nat
    /\ Linked(q, rpc) /\ Asking(q, cs, v) /\ Answered(c, q)

(* Every connection in the table is under one key.                         *)
Tables(ms, rpc, cs, v) ==
    /\ ms \in Seq(Places) /\ cs \in Seq(Conns) /\ v \in Nat
    /\ DOMAIN rpc \subseteq Keys
    /\ \A k \in DOMAIN rpc : rpc[k] \in DOMAIN cs
    /\ \A k, l \in DOMAIN rpc : rpc[k] = rpc[l] => k = l
    /\ \A i \in DOMAIN cs : Known(cs[i].token, v)

ClientInv ==
    /\ Tables(manifests, rpcClients, conns, valid)
    /\ where \in [Providers -> Nat] /\ managed \in 0 .. valid
    /\ DOMAIN call = Calls
    /\ \A c \in Calls : PerCall(c, call[c], manifests, rpcClients, conns, valid)

-----------------------------------------------------------------------------
LEMMA Tokens ==
  /\ \A m, n : Issued(m) = Issued(n) => m = n
  /\ \A p, n : Own(p) # Issued(n)
  /\ \A n : Resolver # Issued(n)
  /\ \A p : Own(p) # Resolver
  /\ \A p \in Providers : Own(p) \in SentTokens
  /\ \A n \in Nat : Issued(n) \in SentTokens
<1>1. \A m, n : Issued(m)[2] = n <=> m = n
  BY DEF Issued
<1>2. "own" # "issued" /\ "resolver" # "issued" /\ "own" # "resolver"
  OBVIOUS
<1>3. \A p, n : Own(p)[1] = "own" /\ Issued(n)[1] = "issued" /\ Resolver[1] = "resolver"
  BY DEF Own, Issued, Resolver
<1>4. \A m, n : Issued(m) = Issued(n) => m = n
  BY <1>1
<1> QED
  BY <1>2, <1>3, <1>4 DEF SentTokens

LEMMA Later ==
  ASSUME NEW t, NEW u, NEW v \in Nat, NEW w \in Nat, v <= w
  PROVE  /\ Known(t, v) => Known(t, w)
         /\ Precedes(t, u, v) => Precedes(t, u, w) /\ Precedes(t, Issued(v), v) /\ t # u /\ Known(u, v)
         /\ (Known(t, v) /\ t # Issued(v)) => Precedes(t, Issued(v), v)
         /\ Known(Issued(v), v)
  BY Tokens DEF Known, Precedes

(* The state may change around a call.                                     *)
Passes(ms, rpc, cs, v, ms2, rpc2, cs2, v2) ==
    /\ DOMAIN ms \subseteq DOMAIN ms2
    /\ Len(cs) <= Len(cs2) /\ DOMAIN cs \subseteq DOMAIN cs2 /\ v <= v2
    /\ \A k \in DOMAIN rpc2 : rpc2[k] <= Len(cs) => k \in DOMAIN rpc /\ rpc[k] = rpc2[k]
    /\ \A i \in DOMAIN cs : cs2[i].token = cs[i].token \/ cs2[i].token = Issued(v)

LEMMA Passing ==
  ASSUME NEW c, NEW q, NEW ms, NEW rpc, NEW cs, NEW v, NEW ms2, NEW rpc2, NEW cs2, NEW v2,
         Tables(ms, rpc, cs, v), Tables(ms2, rpc2, cs2, v2),
         Passes(ms, rpc, cs, v, ms2, rpc2, cs2, v2), PerCall(c, q, ms, rpc, cs, v)
  PROVE  PerCall(c, q, ms2, rpc2, cs2, v2)
<1>0. v \in Nat /\ v2 \in Nat /\ v <= v2 /\ Len(cs) \in Nat /\ Len(cs2) \in Nat /\ q \in CallRec(c) /\ q.conn \in Nat
  <2>1. v \in Nat /\ v2 \in Nat /\ v <= v2 /\ Len(cs) \in Nat /\ Len(cs2) \in Nat
    BY DEF Tables, Passes
  <2>2. q \in CallRec(c)
    BY DEF PerCall
  <2>3. q.conn \in Nat
    BY <2>2 DEF CallRec
  <2> QED
    BY <2>1, <2>2, <2>3
<1>1. q.conn <= Len(cs) /\ q.conn <= Len(cs2)
  BY <1>0 DEF Passes, PerCall
<1>2. Linked(q, rpc2)
  BY <1>1 DEF Passes, PerCall, Linked
<1>3. Asking(q, cs2, v2)
  <2>1. Asking(q, cs, v)
    BY DEF PerCall
  <2>2. \A i \in DOMAIN cs : \A t : Precedes(t, cs[i].token, v) => Precedes(t, cs2[i].token, v2)
    <3>1. ASSUME NEW i \in DOMAIN cs, NEW t, Precedes(t, cs[i].token, v)
          PROVE  Precedes(t, cs2[i].token, v2)
      <4>1. Precedes(t, cs2[i].token, v)
        BY <3>1, <1>0, Later DEF Passes
      <4> QED
        BY <4>1, <1>0, Later
    <3> QED
      BY <3>1
  <2>3. \A t, u : (Known(t, v) => Known(t, v2)) /\ (Precedes(t, u, v) => Precedes(t, u, v2))
    BY <1>0, Later
  <2>4. DOMAIN cs \subseteq DOMAIN cs2
    BY DEF Passes
  <2> QED
    BY <2>1, <2>2, <2>3, <2>4 DEF Asking
<1> QED
  BY <1>0, <1>1, <1>2, <1>3 DEF PerCall

LEMMA Lengths ==
  ASSUME NEW S, NEW s \in Seq(S)
  PROVE  Len(s) \in Nat /\ 0 <= Len(s)
  OBVIOUS

-----------------------------------------------------------------------------
(* What a call may become, while the state around it stands.               *)
LEMMA Waiting ==
  ASSUME NEW c, NEW q, NEW ms, NEW rpc, NEW cs, NEW v, NEW stage, NEW arg,
         PerCall(c, q, ms, rpc, cs, v), Early(q),
         \/ stage = "find" /\ arg = <<>>
         \/ stage = "resolve" /\ arg \in Found
         \/ stage = "address" /\ arg \in Providers \X Nat
  PROVE  PerCall(c, [q EXCEPT !.stage = stage, !.arg = arg, !.open = TRUE], ms, rpc, cs, v)
<1> DEFINE r == [q EXCEPT !.stage = stage, !.arg = arg, !.open = TRUE]
<1>1. q \in CallRec(c)
  BY DEF PerCall
<1>2. /\ r \in CallRec(c) /\ r.stage = stage /\ r.arg = arg
      /\ r.key = q.key /\ r.conn = q.conn /\ r.sent = q.sent /\ r.refused = q.refused
      /\ r.outcome = q.outcome /\ r.verifying = q.verifying /\ r.answer = q.answer
  BY <1>1 DEF CallRec
<1> HIDE DEF r
<1>3. Early(r)
  BY <1>2 DEF Early
<1>4. Asking(r, cs, v)
  BY <1>2, <1>3 DEF PerCall, Asking, Early
<1>5. Linked(r, rpc) /\ Answered(c, r)
  BY <1>2 DEF PerCall, Linked, Answered
<1>6. r.stage = "resolve" => r.arg \in Found
  BY <1>2
<1> QED
  BY <1>2, <1>4, <1>5, <1>6 DEF PerCall, r

LEMMA Connecting ==
  ASSUME NEW c, NEW q, NEW ms, NEW rpc, NEW cs, NEW v, NEW key \in Keys, NEW n \in DOMAIN cs,
         PerCall(c, q, ms, rpc, cs, v), Early(q), cs \in Seq(Conns),
         \A k \in DOMAIN rpc : rpc[k] = n => k \in {key, Tool}
  PROVE  PerCall(c, [q EXCEPT !.stage = "token", !.key = key, !.conn = n, !.arg = <<>>, !.open = TRUE],
                 ms, rpc, cs, v)
<1> DEFINE r == [q EXCEPT !.stage = "token", !.key = key, !.conn = n, !.arg = <<>>, !.open = TRUE]
<1>1. q \in CallRec(c) /\ n \in Nat /\ n <= Len(cs)
  BY DEF PerCall
<1>2. /\ r \in CallRec(c) /\ r.stage = "token" /\ r.key = key /\ r.conn = n
      /\ r.sent = q.sent /\ r.refused = q.refused
      /\ r.outcome = q.outcome /\ r.verifying = q.verifying /\ r.answer = q.answer
  BY <1>1 DEF CallRec
<1> HIDE DEF r
<1>3. Asking(r, cs, v)
  BY <1>2 DEF PerCall, Asking, Early
<1>4. Linked(r, rpc) /\ Answered(c, r)
  BY <1>2 DEF PerCall, Linked, Answered
<1> QED
  BY <1>1, <1>2, <1>3, <1>4 DEF PerCall, r

(* The token is sent.                                                      *)
LEMMA Sending ==
  ASSUME NEW c, NEW q, NEW ms, NEW rpc, NEW cs, NEW v \in Nat, NEW t \in SentTokens,
         PerCall(c, q, ms, rpc, cs, v), q.stage = "token", Known(t, v),
         q.refused # 0 => t = cs[q.conn].token
  PROVE  PerCall(c, [q EXCEPT !.stage = "intent", !.sent = Append(q.sent, t)], ms, rpc, cs, v)
<1> DEFINE r == [q EXCEPT !.stage = "intent", !.sent = Append(q.sent, t)]
<1>1. q \in CallRec(c) /\ q.conn <= Len(cs)
  BY DEF PerCall
<1>2. q.sent \in Seq(SentTokens) /\ q.refused \in 0 .. 2
  BY <1>1 DEF CallRec
<1>3. /\ Append(q.sent, t) \in Seq(SentTokens) /\ Len(Append(q.sent, t)) = Len(q.sent) + 1
      /\ Append(q.sent, t)[Len(q.sent) + 1] = t
      /\ Len(q.sent) > 0 => Append(q.sent, t)[1] = q.sent[1]
      /\ Len(q.sent) \in Nat /\ (q.sent = <<>> => Len(q.sent) = 0)
  BY <1>2
<1>4. /\ r \in CallRec(c) /\ r.stage = "intent" /\ r.sent = Append(q.sent, t)
      /\ r.key = q.key /\ r.conn = q.conn /\ r.refused = q.refused
      /\ r.outcome = q.outcome /\ r.verifying = q.verifying /\ r.answer = q.answer
  BY <1>1, <1>3 DEF CallRec
<1> HIDE DEF r
<1>5. Asking(r, cs, v)
  <2>1. Asking(q, cs, v)
    BY DEF PerCall
  <2>2. Len(r.sent) > 0 /\ r.sent[Len(r.sent)] = t
    BY <1>3, <1>4
  <2>3. CASE q.refused = 0
    BY <2>1, <2>2, <2>3, <1>3, <1>4 DEF Asking, Early
  <2>4. CASE q.refused # 0
    <3>1. Len(q.sent) > 0 /\ Precedes(q.sent[1], t, v)
      BY <2>1, <2>4 DEF Asking
    <3>2. Len(r.sent) > 1 /\ r.sent[1] = q.sent[1]
      BY <3>1, <1>3, <1>4
    <3> QED
      BY <2>1, <2>2, <2>4, <3>1, <3>2, <1>4 DEF Asking, Early
  <2> QED
    BY <2>3, <2>4
<1>6. Linked(r, rpc) /\ Answered(c, r)
  BY <1>4 DEF PerCall, Linked, Answered
<1> QED
  BY <1>1, <1>4, <1>5, <1>6 DEF PerCall, r

(* The intent is accepted.                                                 *)
LEMMA Streaming ==
  ASSUME NEW c, NEW q, NEW ms, NEW rpc, NEW cs, NEW v, PerCall(c, q, ms, rpc, cs, v)
  PROVE  PerCall(c, [q EXCEPT !.stage = "stream", !.sent = <<>>, !.refused = 0], ms, rpc, cs, v)
<1> DEFINE r == [q EXCEPT !.stage = "stream", !.sent = <<>>, !.refused = 0]
<1>1. q \in CallRec(c) /\ q.conn <= Len(cs)
  BY DEF PerCall
<1>2. /\ r \in CallRec(c) /\ r.stage = "stream" /\ r.key = q.key /\ r.conn = q.conn
      /\ r.outcome = q.outcome /\ r.verifying = q.verifying /\ r.answer = q.answer
  <2>1. <<>> \in Seq(SentTokens) /\ 0 \in 0 .. 2
    OBVIOUS
  <2>2. \A e \in Seq(SentTokens) : \A n \in 0 .. 2 :
          [q EXCEPT !.stage = "stream", !.sent = e, !.refused = n] \in CallRec(c)
    BY <1>1 DEF CallRec
  <2>3. r \in CallRec(c)
    BY <2>1, <2>2
  <2> QED
    BY <1>1, <2>3 DEF CallRec
<1> HIDE DEF r
<1>3. Asking(r, cs, v) /\ Linked(r, rpc) /\ Answered(c, r)
  BY <1>2 DEF PerCall, Asking, Early, Linked, Answered
<1> QED
  BY <1>1, <1>2, <1>3 DEF PerCall, r

(* The token is refused and a newer one is in the connection.              *)
LEMMA Retrying ==
  ASSUME NEW c, NEW q, NEW ms, NEW rpc, NEW cs, NEW v, NEW n \in {1, 2},
         PerCall(c, q, ms, rpc, cs, v), q.stage = "intent",
         Precedes(q.sent[1], cs[q.conn].token, v)
  PROVE  PerCall(c, [q EXCEPT !.stage = "token", !.refused = n], ms, rpc, cs, v)
<1> DEFINE r == [q EXCEPT !.stage = "token", !.refused = n]
<1>1. q \in CallRec(c) /\ q.conn <= Len(cs) /\ n \in 0 .. 2 /\ n # 0
  BY DEF PerCall
<1>2. /\ r \in CallRec(c) /\ r.stage = "token" /\ r.refused = n /\ r.key = q.key /\ r.conn = q.conn
      /\ r.sent = q.sent /\ r.outcome = q.outcome /\ r.verifying = q.verifying /\ r.answer = q.answer
  BY <1>1 DEF CallRec
<1> HIDE DEF r
<1>3. Asking(r, cs, v)
  BY <1>1, <1>2 DEF PerCall, Asking, Early
<1>4. Linked(r, rpc) /\ Answered(c, r)
  BY <1>2 DEF PerCall, Linked, Answered
<1> QED
  BY <1>1, <1>2, <1>3, <1>4 DEF PerCall, r

(* A call that lets go of its connection.                                  *)
LEMMA Closing ==
  ASSUME NEW c, NEW q, NEW ms, NEW rpc, NEW cs, NEW v,
         PerCall(c, q, ms, rpc, cs, v), q.stage \in {"stream", "settled"},
         \A k \in DOMAIN rpc : rpc[k] # 0, cs \in Seq(Conns)
  PROVE  PerCall(c, Closed(q), ms, rpc, cs, v)
<1>1. q \in CallRec(c)
  BY DEF PerCall
<1>2. /\ Closed(q) \in CallRec(c) /\ Closed(q).stage = q.stage /\ Closed(q).conn = 0
      /\ Closed(q).sent = q.sent /\ Closed(q).refused = q.refused
      /\ Closed(q).outcome = q.outcome /\ Closed(q).verifying = q.verifying /\ Closed(q).answer = q.answer
  BY <1>1 DEF CallRec, Closed, Keys
<1>3. Asking(Closed(q), cs, v) /\ Linked(Closed(q), rpc) /\ Answered(c, Closed(q))
  BY <1>2 DEF PerCall, Asking, Early, Linked, Answered
<1>4. 0 <= Len(cs)
  BY Lengths
<1> QED
  BY <1>2, <1>3, <1>4 DEF PerCall

LEMMA Rejecting ==
  ASSUME NEW c, NEW q, NEW ms, NEW rpc, NEW cs, NEW v, NEW why \in {"no provider", "unauthenticated", "failed"},
         PerCall(c, q, ms, rpc, cs, v),
         \A k \in DOMAIN rpc : rpc[k] # 0, cs \in Seq(Conns),
         (why = "unauthenticated" /\ Managed) => Len(q.sent) > 1 /\ q.sent[1] # q.sent[Len(q.sent)]
  PROVE  PerCall(c, [Closed(q) EXCEPT !.stage = "settled", !.outcome = why], ms, rpc, cs, v)
<1> DEFINE r == [Closed(q) EXCEPT !.stage = "settled", !.outcome = why]
<1>1. q \in CallRec(c)
  BY DEF PerCall
<1>2. Closed(q) \in CallRec(c) /\ Closed(q).conn = 0 /\ Closed(q).sent = q.sent /\ Closed(q).verifying = q.verifying
  BY <1>1 DEF CallRec, Closed, Keys
<1>3. /\ r \in CallRec(c) /\ r.stage = "settled" /\ r.conn = 0 /\ r.outcome = why
      /\ r.sent = q.sent /\ r.verifying = q.verifying
  BY <1>2 DEF CallRec
<1> HIDE DEF r
<1>4. Asking(r, cs, v) /\ Linked(r, rpc) /\ Answered(c, r)
  BY <1>3 DEF PerCall, Asking, Early, Linked, Answered
<1>5. 0 <= Len(cs)
  BY Lengths
<1> QED
  BY <1>3, <1>4, <1>5 DEF PerCall, r

(* The promise settles, unless it is settled.                              *)
Settling(q, outcome, a) ==
    IF q.stage = "settled" THEN q ELSE [q EXCEPT !.stage = "settled", !.outcome = outcome, !.answer = a]

LEMMA SettlingKeeps ==
  ASSUME NEW c, NEW q, NEW ms, NEW rpc, NEW cs, NEW v, NEW a \in Answers(c) \cup {<<>>},
         NEW outcome \in {"failed", "error", "verified", "refused"},
         PerCall(c, q, ms, rpc, cs, v), outcome = "verified" => Justified(c, a)
  PROVE  /\ PerCall(c, Settling(q, outcome, a), ms, rpc, cs, v)
         /\ Settling(q, outcome, a).stage = "settled"
         /\ Settling(q, outcome, a).verifying = q.verifying
         /\ Settling(q, outcome, a).open = q.open /\ Settling(q, outcome, a).conn = q.conn
<1>1. CASE q.stage = "settled"
  BY <1>1 DEF Settling
<1>2. CASE q.stage # "settled"
  <2> DEFINE r == [q EXCEPT !.stage = "settled", !.outcome = outcome, !.answer = a]
  <2>1. q \in CallRec(c) /\ q.conn <= Len(cs)
    BY DEF PerCall
  <2>2. /\ r \in CallRec(c) /\ r.stage = "settled" /\ r.key = q.key /\ r.conn = q.conn /\ r.open = q.open
        /\ r.sent = q.sent /\ r.outcome = outcome /\ r.verifying = q.verifying /\ r.answer = a
    BY <2>1 DEF CallRec
  <2>3. Settling(q, outcome, a) = r
    BY <1>2 DEF Settling
  <2> HIDE DEF r
  <2>4. Asking(r, cs, v) /\ Linked(r, rpc) /\ Answered(c, r)
    BY <2>2 DEF PerCall, Asking, Early, Linked, Answered
  <2> QED
    BY <2>1, <2>2, <2>3, <2>4 DEF PerCall
<1> QED
  BY <1>1, <1>2

(* Answers come and are verified.                                          *)
LEMMA Holding ==
  ASSUME NEW c, NEW q, NEW ms, NEW rpc, NEW cs, NEW v, NEW n \in Nat, NEW S \in SUBSET Answers(c),
         PerCall(c, q, ms, rpc, cs, v), \A a \in S : ~a.isError
  PROVE  /\ PerCall(c, [q EXCEPT !.verifying = S], ms, rpc, cs, v)
         /\ PerCall(c, [q EXCEPT !.received = n], ms, rpc, cs, v)
<1>1. q \in CallRec(c) /\ q.conn <= Len(cs)
  BY DEF PerCall
<1>2. ASSUME NEW r \in CallRec(c), r.stage = q.stage, r.key = q.key, r.conn = q.conn, r.arg = q.arg, r.sent = q.sent,
             r.refused = q.refused, r.outcome = q.outcome, r.answer = q.answer,
             r.verifying = S \/ r.verifying = q.verifying
      PROVE  PerCall(c, r, ms, rpc, cs, v)
  <2>1. Asking(r, cs, v) /\ Linked(r, rpc) /\ Answered(c, r)
    BY <1>2 DEF PerCall, Asking, Early, Linked, Answered
  <2> QED
    BY <1>2, <2>1, <1>1 DEF PerCall
<1> DEFINE r == [q EXCEPT !.verifying = S]
           s == [q EXCEPT !.received = n]
<1>3. /\ r \in CallRec(c) /\ r.stage = q.stage /\ r.key = q.key /\ r.conn = q.conn /\ r.arg = q.arg /\ r.sent = q.sent
      /\ r.refused = q.refused /\ r.outcome = q.outcome /\ r.answer = q.answer /\ r.verifying = S
  BY <1>1 DEF CallRec
<1>4. /\ s \in CallRec(c) /\ s.stage = q.stage /\ s.key = q.key /\ s.conn = q.conn /\ s.arg = q.arg /\ s.sent = q.sent
      /\ s.refused = q.refused /\ s.outcome = q.outcome /\ s.answer = q.answer /\ s.verifying = q.verifying
  BY <1>1 DEF CallRec
<1> HIDE DEF r, s
<1>5. PerCall(c, r, ms, rpc, cs, v) /\ PerCall(c, s, ms, rpc, cs, v)
  BY <1>2, <1>3, <1>4
<1> QED
  BY <1>5 DEF r, s

-----------------------------------------------------------------------------
(* What an accepted receipt is good for.                                   *)
LEMMA Accepted ==
  ASSUME NEW r, NEW logic, NEW image, NEW o, VerifyZkReceipt(r, logic, image, o)
  PROVE  /\ r.version \in {1, 2} /\ r.logic = logic
         /\ o.output = NoValue \/ r.output = Expected(logic, o.output)
         /\ r.version = 1 => o.policy # "required" /\ (o.secret = NoValue \/ r.secret = o.secret)
  BY DEF VerifyZkReceipt, Decodes, AcceptsHmac, AcceptsProof, MatchesOutput

LEMMA PoolAccepts ==
  ASSUME NEW c \in Calls, NEW a \in Answers(c), ~a.isError,
         VerifyInPool(a.receipt, LogicOf[c], a.image, Options(c, a), Registered)
  PROVE  Justified(c, a)
<1> DEFINE o == [Options(c, a) EXCEPT !.vkey = @ \/ Registered]
<1>1. /\ o.output = a.evidence /\ o.secret = c
      /\ o.policy = IF PolicyOf[c] # NoValue THEN PolicyOf[c]
                    ELSE IF a.receipt.version = 2 THEN "required" ELSE "none"
  BY DEF Options
<1>2. VerifyZkReceipt(a.receipt, LogicOf[c], a.image, o)
  BY DEF VerifyInPool
<1> HIDE DEF o
<1>3. /\ a.receipt.version \in {1, 2} /\ a.receipt.logic = LogicOf[c]
      /\ a.evidence = NoValue \/ a.receipt.output = Expected(LogicOf[c], a.evidence)
      /\ a.receipt.version = 1 => o.policy # "required" /\ (c = NoValue \/ a.receipt.secret = c)
  BY <1>1, <1>2, Accepted
<1>4. a.evidence # NoValue /\ c # NoValue
  BY LiopClientAssumption
<1>5. PolicyOf[c] = "required" => a.receipt.version = 2
  BY <1>1, <1>3 DEF NoValue
<1> QED
  BY <1>3, <1>4, <1>5 DEF Justified, Expected

-----------------------------------------------------------------------------
Around ==
    /\ Tables(manifests', rpcClients', conns', valid')
    /\ Passes(manifests, rpcClients, conns, valid, manifests', rpcClients', conns', valid')
    /\ where' \in [Providers -> Nat] /\ managed' \in 0 .. valid'

LEMMA Standing ==
  ASSUME ClientInv, UNCHANGED call, Around
  PROVE  ClientInv'
  BY Passing DEF ClientInv, Around

LEMMA Stepping ==
  ASSUME ClientInv, NEW c \in Calls, NEW q, Set(c, q), Around,
         PerCall(c, q, manifests', rpcClients', conns', valid')
  PROVE  ClientInv'
<1>1. /\ DOMAIN call' = Calls /\ call'[c] = q
      /\ \A d \in Calls : d # c => call'[d] = call[d]
  BY DEF Set, ClientInv
<1>2. \A d \in Calls : PerCall(d, call[d], manifests', rpcClients', conns', valid')
  BY Passing DEF ClientInv, Around
<1>3. \A d \in Calls : PerCall(d, call'[d], manifests', rpcClients', conns', valid')
  BY <1>1, <1>2
<1> QED
  BY <1>1, <1>3 DEF ClientInv, Around

LEMMA Unmoved ==
  ASSUME NEW ms, NEW rpc, NEW cs, NEW v, Tables(ms, rpc, cs, v)
  PROVE  /\ Passes(ms, rpc, cs, v, ms, rpc, cs, v)
         /\ v \in Nat /\ cs \in Seq(Conns) /\ ms \in Seq(Places)
         /\ \A k \in DOMAIN rpc : rpc[k] # 0 /\ rpc[k] \in 1 .. Len(cs)
<1>1. v \in Nat /\ cs \in Seq(Conns) /\ ms \in Seq(Places) /\ \A k \in DOMAIN rpc : rpc[k] \in DOMAIN cs
  BY DEF Tables
<1>2. DOMAIN cs = 1 .. Len(cs) /\ Len(cs) \in Nat
  BY <1>1
<1>3. Passes(ms, rpc, cs, v, ms, rpc, cs, v)
  BY <1>1, <1>2 DEF Passes
<1> QED
  BY <1>1, <1>2, <1>3

(* A step of call c that leaves the rest as it is.                         *)
LEMMA Alone ==
  ASSUME ClientInv, UNCHANGED <<where, manifests, rpcClients, conns, valid, managed>>,
         NEW c \in Calls, NEW q, Set(c, q), PerCall(c, q, manifests, rpcClients, conns, valid)
  PROVE  ClientInv'
<1>1. Around
  BY Unmoved DEF ClientInv, Around
<1> QED
  BY <1>1, Stepping

-----------------------------------------------------------------------------
LEMMA InitClientInv ==
  ASSUME Init
  PROVE  ClientInv
<1>1. \A t : t = Resolver => t \in ConnTokens /\ Known(t, 1)
  BY Tokens DEF ConnTokens, Known
<1>2. conns \in Seq(Conns) /\ (\A i \in DOMAIN conns : conns[i].token = Resolver)
      /\ \A k \in DOMAIN rpcClients : k = "static" /\ rpcClients[k] = 1 /\ 1 \in DOMAIN conns
  <2>1. CASE Static = NoValue
    BY <2>1 DEF Init
  <2>2. CASE Static # NoValue
    <3>1. Connection(Static, 0, Resolver) \in Conns /\ Connection(Static, 0, Resolver).token = Resolver
      BY <2>2, <1>1, LiopClientAssumption DEF Connection, Conns
    <3>2. conns = <<Connection(Static, 0, Resolver)>>
      BY <2>2 DEF Init
    <3>3. rpcClients = [k \in {"static"} |-> 1]
      BY <2>2 DEF Init
    <3> QED
      BY <3>1, <3>2, <3>3
  <2> QED
    BY <2>1, <2>2
<1>3. Tables(manifests, rpcClients, conns, valid)
  <2>1. manifests \in Seq(Places) /\ valid \in Nat /\ valid = 1
    BY DEF Init
  <2> QED
    BY <1>1, <1>2, <2>1 DEF Tables, Keys
<1>4. ASSUME NEW c \in Calls
      PROVE  PerCall(c, Idle, manifests, rpcClients, conns, valid)
  <2>1. <<>> \in Seq(SentTokens) /\ 0 \in 0 .. 2
    OBVIOUS
  <2>2. \A e \in Seq(SentTokens) : \A n \in 0 .. 2 :
          [stage |-> "idle", key |-> NoValue, conn |-> 0, arg |-> <<>>, open |-> FALSE, received |-> 0,
           verifying |-> {}, sent |-> e, refused |-> n, outcome |-> "none", answer |-> <<>>] \in CallRec(c)
    BY DEF CallRec, Keys
  <2>3. Idle \in CallRec(c)
    BY <2>1, <2>2 DEF Idle
  <2>4. /\ Idle.stage = "idle" /\ Idle.conn = 0 /\ Idle.sent = <<>> /\ Idle.refused = 0
        /\ Idle.verifying = {} /\ Idle.outcome = "none"
    BY DEF Idle
  <2>5. Linked(Idle, rpcClients) /\ Asking(Idle, conns, valid) /\ Answered(c, Idle)
    BY <2>4, <1>2 DEF Linked, Asking, Answered
  <2>6. 0 <= Len(conns)
    BY <1>2, Lengths
  <2> QED
    BY <2>3, <2>4, <2>5, <2>6 DEF PerCall
<1> QED
  BY <1>3, <1>4 DEF Init, ClientInv

-----------------------------------------------------------------------------
(* Choosing a connection.                                                  *)
LEMMA Creating ==
  ASSUME ClientInv, NEW key \in Providers \cup {Tool}, key \notin DOMAIN rpcClients,
         NEW entry \in Conns, \A n \in Nat : entry.token # Issued(n),
         conns' = Append(conns, entry),
         rpcClients' = [k \in DOMAIN rpcClients \cup {key} |-> IF k = key THEN Len(conns) + 1 ELSE rpcClients[k]],
         UNCHANGED <<where, manifests, valid, managed>>
  PROVE  /\ Around /\ Len(conns) + 1 \in DOMAIN conns'
         /\ \A k \in DOMAIN rpcClients' : rpcClients'[k] = Len(conns) + 1 => k = key
<1>1. Tables(manifests, rpcClients, conns, valid) /\ where \in [Providers -> Nat] /\ managed \in 0 .. valid
  BY DEF ClientInv
<1>2. /\ conns \in Seq(Conns) /\ Len(conns) \in Nat /\ DOMAIN conns = 1 .. Len(conns)
      /\ conns' \in Seq(Conns) /\ Len(conns') = Len(conns) + 1 /\ DOMAIN conns' = 1 .. Len(conns) + 1
      /\ conns'[Len(conns) + 1] = entry /\ \A i \in DOMAIN conns : conns'[i] = conns[i]
  BY <1>1 DEF Tables
<1>3. /\ DOMAIN rpcClients' = DOMAIN rpcClients \cup {key} /\ rpcClients'[key] = Len(conns) + 1
      /\ \A k \in DOMAIN rpcClients : rpcClients'[k] = rpcClients[k] /\ rpcClients[k] \in 1 .. Len(conns)
  BY <1>1, <1>2 DEF Tables
<1>4. \A k \in DOMAIN rpcClients' : rpcClients'[k] = Len(conns) + 1 => k = key
  BY <1>2, <1>3
<1>5. Tables(manifests', rpcClients', conns', valid')
  <2>1. \A k \in DOMAIN rpcClients' : rpcClients'[k] \in DOMAIN conns'
    BY <1>2, <1>3
  <2>2. \A k, l \in DOMAIN rpcClients' : rpcClients'[k] = rpcClients'[l] => k = l
    BY <1>1, <1>2, <1>3, <1>4 DEF Tables
  <2>3. \A i \in DOMAIN conns' : Known(conns'[i].token, valid)
    <3>1. ASSUME NEW i \in DOMAIN conns'
          PROVE  Known(conns'[i].token, valid)
      <4>1. CASE i \in DOMAIN conns
        BY <4>1, <1>1, <1>2 DEF Tables
      <4>2. CASE i = Len(conns) + 1
        BY <4>2, <1>2 DEF Known
      <4> QED
        BY <3>1, <4>1, <4>2, <1>2
    <3> QED
      BY <3>1
  <2>4. key \in Keys
    BY DEF Keys
  <2> QED
    BY <1>1, <1>2, <1>3, <2>1, <2>2, <2>3, <2>4 DEF Tables
<1>6. Passes(manifests, rpcClients, conns, valid, manifests', rpcClients', conns', valid')
  <2>1. \A k \in DOMAIN rpcClients' : rpcClients'[k] <= Len(conns) => k \in DOMAIN rpcClients /\ rpcClients[k] = rpcClients'[k]
    BY <1>2, <1>3
  <2>2. \A i \in DOMAIN conns : conns'[i].token = conns[i].token
    BY <1>2
  <2>3. valid \in Nat
    BY <1>1 DEF Tables
  <2> QED
    BY <1>2, <2>1, <2>2, <2>3 DEF Passes
<1>7. where' \in [Providers -> Nat] /\ managed' \in 0 .. valid'
  BY <1>1
<1>8. Len(conns) + 1 \in DOMAIN conns'
  BY <1>2
<1> QED
  BY <1>4, <1>5, <1>6, <1>7, <1>8 DEF Around

LEMMA Adopting ==
  ASSUME ClientInv, NEW c \in Calls, Early(call[c]), NEW key \in Keys, NEW k \in DOMAIN rpcClients,
         k \in {key, Tool}, Connects(c, key, rpcClients[k]),
         UNCHANGED <<where, manifests, rpcClients, conns, valid, managed>>
  PROVE  ClientInv'
<1>1. PerCall(c, call[c], manifests, rpcClients, conns, valid) /\ conns \in Seq(Conns) /\ rpcClients[k] \in DOMAIN conns
  BY DEF ClientInv, Tables
<1>2. \A l \in DOMAIN rpcClients : rpcClients[l] = rpcClients[k] => l \in {key, Tool}
  BY DEF ClientInv, Tables
<1>3. PerCall(c, [call[c] EXCEPT !.stage = "token", !.key = key, !.conn = rpcClients[k], !.arg = <<>>, !.open = TRUE],
              manifests, rpcClients, conns, valid)
  BY <1>1, <1>2, Connecting
<1> QED
  BY <1>3, Alone DEF Connects

LEMMA GettingOrCreating ==
  ASSUME ClientInv, NEW c \in Calls, Early(call[c]), NEW key \in Providers \cup {Tool},
         NEW p \in Providers, NEW at \in Nat, GetOrCreate(c, key, p, at),
         UNCHANGED <<where, manifests, valid, managed>>
  PROVE  ClientInv'
<1>0. key \in Keys
  BY DEF Keys
<1>1. CASE key \in DOMAIN rpcClients
  BY <1>0, <1>1, Adopting DEF GetOrCreate
<1>2. CASE key \notin DOMAIN rpcClients
  <2> DEFINE token == IF Owner(key) \in OwnToken THEN Own(Owner(key)) ELSE Resolver
             entry == Connection(p, at, token)
  <2>1. token \in ConnTokens /\ \A n \in Nat : token # Issued(n)
    BY Tokens, LiopClientAssumption DEF ConnTokens
  <2>2. conns' = Append(conns, entry) /\ Connects(c, key, Len(conns) + 1)
        /\ rpcClients' = [k \in DOMAIN rpcClients \cup {key} |-> IF k = key THEN Len(conns) + 1 ELSE rpcClients[k]]
    BY <1>2 DEF GetOrCreate
  <2> HIDE DEF token
  <2>3. entry \in Conns /\ entry.token = token
    BY <2>1 DEF Connection, Conns
  <2>e. \A n \in Nat : entry.token # Issued(n)
    BY <2>1, <2>3
  <2> HIDE DEF entry
  <2>4. /\ Around /\ Len(conns) + 1 \in DOMAIN conns'
        /\ \A k \in DOMAIN rpcClients' : rpcClients'[k] = Len(conns) + 1 => k = key
    <3>1. UNCHANGED <<where, manifests, valid, managed>> /\ key \notin DOMAIN rpcClients
      BY <1>2
    <3> QED
      BY <3>1, <2>2, <2>3, <2>e, Creating
  <2>5. PerCall(c, call[c], manifests', rpcClients', conns', valid') /\ conns' \in Seq(Conns)
    BY <2>4, Passing DEF ClientInv, Around, Tables
  <2>6. PerCall(c, [call[c] EXCEPT !.stage = "token", !.key = key, !.conn = Len(conns) + 1, !.arg = <<>>, !.open = TRUE],
                manifests', rpcClients', conns', valid')
    BY <1>0, <2>4, <2>5, Connecting
  <2> QED
    BY <2>2, <2>4, <2>6, Stepping DEF Connects
<1> QED
  BY <1>1, <1>2

LEMMA Scanning ==
  ASSUME ClientInv, NEW c \in Calls, Early(call[c]), NEW i \in Nat, i > 0, Scan(c, i),
         UNCHANGED <<where, manifests, valid, managed>>
  PROVE  ClientInv'
<1>1. /\ PerCall(c, call[c], manifests, rpcClients, conns, valid) /\ manifests \in Seq(Places)
      /\ UNCHANGED <<rpcClients, conns>>
  BY DEF ClientInv, Tables, Scan
<1>2. CASE i > Len(manifests)
  <2>1. Waits(c, "find", <<>>)
    BY <1>2 DEF Scan
  <2>2. PerCall(c, [call[c] EXCEPT !.stage = "find", !.arg = <<>>, !.open = TRUE], manifests, rpcClients, conns, valid)
    BY <1>1, Waiting
  <2> QED
    BY <1>1, <2>1, <2>2, Alone DEF Waits
<1>3. CASE ~(i > Len(manifests))
  <2>1. i \in DOMAIN manifests /\ manifests[i].peer \in Providers /\ manifests[i].at \in Nat
    <3>1. i \in DOMAIN manifests
      BY <1>1, <1>3
    <3>2. manifests[i] \in Places
      BY <1>1, <3>1
    <3> QED
      BY <3>1, <3>2 DEF Places
  <2>2. CASE manifests[i].peer \in DOMAIN rpcClients
    <3>1. Connects(c, manifests[i].peer, rpcClients[manifests[i].peer])
      BY <1>3, <2>2 DEF Scan
    <3> QED
      BY <1>1, <2>1, <2>2, <3>1, Adopting DEF Keys
  <2>3. CASE manifests[i].peer \notin DOMAIN rpcClients
    <3> DEFINE found == <<i, manifests[i].peer, manifests[i].at>>
    <3>1. Waits(c, "resolve", found)
      BY <1>3, <2>3 DEF Scan
    <3>2. found \in Found
      BY <2>1 DEF Found
    <3> HIDE DEF found
    <3>3. PerCall(c, [call[c] EXCEPT !.stage = "resolve", !.arg = found, !.open = TRUE], manifests, rpcClients, conns, valid)
      BY <1>1, <3>2, Waiting
    <3> QED
      BY <1>1, <3>1, <3>3, Alone DEF Waits
  <2> QED
    BY <2>2, <2>3
<1> QED
  BY <1>2, <1>3
LEMMA Remembering ==
  ASSUME ClientInv, NEW p \in Providers
  PROVE  Remember(p) \in Seq(Places) /\ Len(manifests) <= Len(Remember(p))
<1>1. /\ manifests \in Seq(Places) /\ Len(manifests) \in Nat /\ where[p] \in Nat
      /\ DOMAIN manifests = 1 .. Len(manifests)
  BY DEF ClientInv, Tables
<1> DEFINE new == [peer |-> p, at |-> where[p]]
<1>2. new \in Places
  BY <1>1 DEF Places
<1> HIDE DEF new
<1>3. CASE Cached(p) = {}
  BY <1>1, <1>2, <1>3 DEF Remember, new
<1>4. CASE Cached(p) # {}
  <2>1. Remember(p) = [i \in 1 .. Len(manifests) |-> IF i \in Cached(p) THEN new ELSE manifests[i]]
    BY <1>1, <1>4 DEF Remember, new
  <2>2. \A i \in 1 .. Len(manifests) : manifests[i] \in Places
    BY <1>1
  <2>3. [i \in 1 .. Len(manifests) |-> IF i \in Cached(p) THEN new ELSE manifests[i]] \in Seq(Places)
    BY <1>1, <1>2, <2>2, IsASeq
  <2> QED
    BY <1>1, <2>1, <2>3
<1> QED
  BY <1>3, <1>4

LEMMA RememberingAround ==
  ASSUME ClientInv, NEW p \in Providers, manifests' = Remember(p),
         UNCHANGED <<where, rpcClients, conns, valid, managed>>
  PROVE  Around
<1>1. manifests' \in Seq(Places) /\ manifests \in Seq(Places) /\ Len(manifests) <= Len(manifests')
  BY Remembering DEF ClientInv, Tables
<1>2. DOMAIN manifests \subseteq DOMAIN manifests'
  BY <1>1
<1>3. Tables(manifests', rpcClients', conns', valid')
  BY <1>1 DEF ClientInv, Tables
<1>4. Passes(manifests, rpcClients, conns, valid, manifests', rpcClients', conns', valid')
  BY <1>2, Unmoved DEF ClientInv, Passes
<1> QED
  BY <1>3, <1>4 DEF ClientInv, Around

-----------------------------------------------------------------------------
(* The steps of a call.                                                    *)
LEMMA ChoiceHolds ==
  ASSUME ClientInv, NEW c \in Calls, CallTool(c) \/ CachedResolved(c) \/ Queried(c) \/ AddressResolved(c)
  PROVE  ClientInv'
<1>0. /\ PerCall(c, call[c], manifests, rpcClients, conns, valid)
      /\ manifests \in Seq(Places) /\ where \in [Providers -> Nat]
  BY DEF ClientInv, Tables
<1>1. CASE CallTool(c)
  <2>1. call[c] = Idle /\ Early(call[c])
    BY <1>1 DEF CallTool, Early, Idle
  <2>2. CASE {"static", Tool} \cap DOMAIN rpcClients # {}
    <3>1. PICK k \in DOMAIN rpcClients : k \in {"static", Tool} /\ Connects(c, "static", rpcClients[k])
                                         /\ UNCHANGED <<rpcClients, conns>>
      BY <1>1, <2>2 DEF CallTool
    <3> QED
      BY <1>1, <2>1, <3>1, Adopting DEF CallTool, Keys
  <2>3. CASE {"static", Tool} \cap DOMAIN rpcClients = {}
    BY <1>1, <2>1, <2>3, Scanning DEF CallTool
  <2> QED
    BY <2>2, <2>3
<1>2. CASE CachedResolved(c)
  <2>1. Early(call[c]) /\ call[c].arg \in Found
    BY <1>0, <1>2 DEF CachedResolved, PerCall, Early
  <2>2. call[c].arg[1] \in Nat \ {0} /\ call[c].arg[2] \in Providers /\ call[c].arg[3] \in Nat
    BY <2>1 DEF Found
  <2>4. CASE GetOrCreate(c, call[c].arg[2], call[c].arg[2], call[c].arg[3])
    BY <1>2, <2>1, <2>2, <2>4, GettingOrCreating DEF CachedResolved
  <2>5. CASE Scan(c, call[c].arg[1] + 1)
    <3>1. call[c].arg[1] + 1 \in Nat /\ call[c].arg[1] + 1 > 0
      BY <2>2
    <3> QED
      BY <1>2, <2>1, <2>5, <3>1, Scanning DEF CachedResolved
  <2> QED
    BY <1>2, <2>4, <2>5 DEF CachedResolved
<1>3. CASE Queried(c)
  <2>1. Early(call[c]) /\ UNCHANGED <<where, rpcClients, conns, valid, managed>>
    BY <1>3 DEF Queried, Early
  <2>2. ASSUME NEW p \in Providers, NEW at \in Nat, Around, Waits(c, "address", <<p, at>>)
        PROVE  ClientInv'
    <3>1. PerCall(c, call[c], manifests', rpcClients', conns', valid')
      BY <1>0, <2>2, Passing DEF ClientInv, Around
    <3>2. PerCall(c, [call[c] EXCEPT !.stage = "address", !.arg = <<p, at>>, !.open = TRUE],
                  manifests', rpcClients', conns', valid')
      BY <3>1, <2>1, <2>2, Waiting
    <3> QED
      BY <2>2, <3>2, Stepping DEF Waits
  <2>3. ASSUME NEW p \in Providers, manifests' = Remember(p), Waits(c, "address", <<p, where[p]>>)
        PROVE  ClientInv'
    BY <1>0, <2>1, <2>2, <2>3, RememberingAround
  <2>4. ASSUME NEW p \in Providers, UNCHANGED manifests, Waits(c, "address", <<p, 0>>)
        PROVE  ClientInv'
    <3>1. Around
      BY <2>1, <2>4, Unmoved DEF ClientInv, Around
    <3> QED
      BY <2>2, <2>4, <3>1
  <2>5. ASSUME UNCHANGED manifests, Reject(c, "no provider")
        PROVE  ClientInv'
    <3>1. PerCall(c, [Closed(call[c]) EXCEPT !.stage = "settled", !.outcome = "no provider"],
                  manifests, rpcClients, conns, valid)
      BY <1>0, Rejecting, Unmoved DEF ClientInv
    <3> QED
      BY <2>1, <2>5, <3>1, Alone DEF Reject
  <2> QED
    BY <1>3, <2>3, <2>4, <2>5 DEF Queried
<1>4. CASE AddressResolved(c)
  <2>1. Early(call[c]) /\ call[c].arg \in Providers \X Nat
    BY <1>0, <1>4 DEF AddressResolved, PerCall, Early
  <2>2. call[c].arg[1] \in Providers /\ call[c].arg[2] \in Nat
    BY <2>1
  <2> QED
    BY <1>4, <2>1, <2>2, GettingOrCreating DEF AddressResolved
<1> QED
  BY <1>1, <1>2, <1>3, <1>4

LEMMA NegotiationHolds ==
  ASSUME ClientInv, NEW c \in Calls,
         \/ ResolveToken(c) \/ IntentAccepted(c) \/ NegotiationFails(c)
         \/ \E by \in {"error", "answer"} : IntentRefused(c, by)
  PROVE  ClientInv'
<1>0. /\ PerCall(c, call[c], manifests, rpcClients, conns, valid) /\ call[c] \in CallRec(c)
      /\ Tables(manifests, rpcClients, conns, valid) /\ conns \in Seq(Conns) /\ valid \in Nat /\ managed \in 0 .. valid
      /\ Asking(call[c], conns, valid)
  BY DEF ClientInv, Tables, PerCall
<1>1. CASE ResolveToken(c)
  <2> DEFINE fixed == conns[call[c].conn].token
             t == IF fixed = Resolver THEN Issued(managed) ELSE fixed
  <2>1. call[c].stage = "token" /\ call[c].conn \in DOMAIN conns
    BY <1>0, <1>1 DEF ResolveToken, Asking
  <2>2. fixed \in ConnTokens /\ Known(fixed, valid)
    <3>1. conns[call[c].conn] \in Conns
      BY <1>0, <2>1
    <3> QED
      BY <1>0, <2>1, <3>1 DEF Tables, Conns
  <2>3. t \in SentTokens /\ Known(t, valid)
    <3>1. Issued(managed) \in SentTokens /\ Known(Issued(managed), valid)
      BY <1>0, Tokens DEF Known
    <3> QED
      BY <2>2, <3>1 DEF ConnTokens
  <2>4. call[c].refused # 0 => t = fixed
    <3>1. \A u : Precedes(u, fixed, valid) => fixed # Resolver
      BY Tokens DEF Precedes
    <3> QED
      BY <1>0, <2>1, <3>1 DEF Asking
  <2>5. Set(c, [call[c] EXCEPT !.stage = "intent", !.sent = Append(call[c].sent, t)])
    BY <1>1 DEF ResolveToken
  <2> HIDE DEF t
  <2>6. PerCall(c, [call[c] EXCEPT !.stage = "intent", !.sent = Append(call[c].sent, t)], manifests, rpcClients, conns, valid)
    BY <1>0, <2>1, <2>3, <2>4, Sending
  <2> QED
    BY <1>1, <2>5, <2>6, Alone DEF ResolveToken
<1>2. CASE IntentAccepted(c)
  <2>1. PerCall(c, [call[c] EXCEPT !.stage = "stream", !.sent = <<>>, !.refused = 0], manifests, rpcClients, conns, valid)
    BY <1>0, Streaming
  <2> QED
    BY <1>2, <2>1, Alone DEF IntentAccepted
<1>3. CASE NegotiationFails(c)
  <2>1. PerCall(c, [Closed(call[c]) EXCEPT !.stage = "settled", !.outcome = "failed"],
                manifests, rpcClients, conns, valid)
    BY <1>0, Rejecting, Unmoved
  <2> QED
    BY <1>3, <2>1, Alone DEF NegotiationFails, Reject
<1>4. ASSUME NEW by \in {"error", "answer"}, IntentRefused(c, by)
      PROVE  ClientInv'
  <2>1. /\ call[c].stage = "intent" /\ ~Authenticated(c) /\ UNCHANGED <<where, manifests, rpcClients, valid>>
        /\ call[c].conn \in DOMAIN conns /\ Len(call[c].sent) > 0 /\ Known(call[c].sent[Len(call[c].sent)], valid)
    BY <1>0, <1>4 DEF IntentRefused, Asking
  <2>2. CASE ~Refreshes(c, by)
    <3>1. Managed => call[c].refused # 0
      BY <2>2 DEF Refreshes
    <3>2. Managed => Len(call[c].sent) > 1 /\ call[c].sent[1] # call[c].sent[Len(call[c].sent)]
      BY <1>0, <2>1, <3>1, Later DEF Asking
    <3>3. PerCall(c, [Closed(call[c]) EXCEPT !.stage = "settled", !.outcome = "unauthenticated"],
                  manifests, rpcClients, conns, valid)
      BY <1>0, <3>2, Rejecting, Unmoved
    <3> QED
      BY <1>4, <2>1, <2>2, <3>3, Alone DEF IntentRefused, Reject
  <2>3. CASE Refreshes(c, by)
    <3> DEFINE n == call[c].conn
               fresh == [conns[n] EXCEPT !.token = Issued(valid)]
               first == call[c].sent[1]
    <3>1. Precedes(first, Issued(valid), valid)
      <4>1. call[c].sent[Len(call[c].sent)] # Issued(valid)
        BY <2>1 DEF Authenticated, Accepts, Last
      <4>2. CASE call[c].refused = 0
        BY <1>0, <2>1, <4>1, <4>2, Later DEF Asking
      <4>3. CASE call[c].refused # 0
        BY <1>0, <2>1, <4>3, Later DEF Asking
      <4> QED
        BY <4>2, <4>3
    <3>2. /\ managed' = valid /\ conns' = [conns EXCEPT ![n] = fresh]
          /\ Set(c, [call[c] EXCEPT !.stage = "token", !.refused = IF by = "answer" THEN 2 ELSE 1])
      BY <1>4, <2>3 DEF IntentRefused
    <3>3. fresh \in Conns /\ fresh.token = Issued(valid)
      <4>1. conns[n] \in Conns /\ Issued(valid) \in ConnTokens
        BY <1>0, <2>1, Tokens DEF ConnTokens
      <4> QED
        BY <4>1 DEF Conns
    <3> HIDE DEF fresh
    <3>4. /\ conns' \in Seq(Conns) /\ DOMAIN conns' = DOMAIN conns /\ Len(conns') = Len(conns)
          /\ conns'[n] = fresh /\ \A i \in DOMAIN conns : i # n => conns'[i] = conns[i]
      BY <1>0, <2>1, <3>2, <3>3
    <3>5. Around
      <4>0. Known(Issued(valid), valid) /\ \A i \in DOMAIN conns : Known(conns[i].token, valid)
        BY <1>0, Later DEF Tables
      <4>1. \A i \in DOMAIN conns' : Known(conns'[i].token, valid)
        <5>1. ASSUME NEW i \in DOMAIN conns
              PROVE  Known(conns'[i].token, valid)
          <6>1. CASE i = n
            BY <6>1, <3>3, <3>4, <4>0
          <6>2. CASE i # n
            BY <6>2, <3>4, <4>0
          <6> QED
            BY <6>1, <6>2
        <5> QED
          BY <5>1, <3>4
      <4>2. Tables(manifests', rpcClients', conns', valid')
        BY <1>0, <2>1, <3>4, <4>1 DEF Tables
      <4>3. \A i \in DOMAIN conns : conns'[i].token = conns[i].token \/ conns'[i].token = Issued(valid)
        BY <3>3, <3>4
      <4>4. Passes(manifests, rpcClients, conns, valid, manifests', rpcClients', conns', valid')
        BY <1>0, <2>1, <3>4, <4>3, Unmoved DEF Passes
      <4> QED
        BY <1>0, <2>1, <3>2, <4>2, <4>4 DEF Around, ClientInv
    <3>6. PerCall(c, call[c], manifests', rpcClients', conns', valid')
      BY <1>0, <3>5, Passing DEF Around
    <3>7. Precedes(first, conns'[n].token, valid')
      BY <2>1, <3>1, <3>3, <3>4
    <3>8. PerCall(c, [call[c] EXCEPT !.stage = "token", !.refused = IF by = "answer" THEN 2 ELSE 1],
                  manifests', rpcClients', conns', valid')
      BY <2>1, <3>6, <3>7, Retrying
    <3> QED
      BY <3>2, <3>5, <3>8, Stepping
  <2> QED
    BY <2>2, <2>3
<1> QED
  BY <1>1, <1>2, <1>3, <1>4

-----------------------------------------------------------------------------
(* The answer stream.                                                      *)
LEMMA StreamHolds ==
  ASSUME ClientInv, NEW c \in Calls,
         \/ \E a \in Answers(c) : Data(c, a)
         \/ \E a \in call[c].verifying : Verified(c, a)
         \/ StreamFails(c) \/ StreamEnds(c)
  PROVE  ClientInv'
<1> DEFINE q == call[c]
<1>0. /\ PerCall(c, q, manifests, rpcClients, conns, valid) /\ q \in CallRec(c)
      /\ Tables(manifests, rpcClients, conns, valid) /\ conns \in Seq(Conns)
      /\ q.verifying \subseteq Answers(c) /\ q.received \in Nat /\ \A a \in q.verifying : ~a.isError
      /\ \A k \in DOMAIN rpcClients : rpcClients[k] # 0
  <2>1. /\ PerCall(c, q, manifests, rpcClients, conns, valid) /\ q \in CallRec(c)
        /\ Tables(manifests, rpcClients, conns, valid) /\ conns \in Seq(Conns)
        /\ \A a \in q.verifying : ~a.isError
    BY DEF ClientInv, Tables, PerCall, Answered
  <2>2. q.verifying \subseteq Answers(c) /\ q.received \in Nat
    BY <2>1 DEF CallRec
  <2>3. \A k \in DOMAIN rpcClients : rpcClients[k] # 0
    BY <2>1, Unmoved
  <2> QED
    BY <2>1, <2>2, <2>3
<1>a. \A outcome, a : SettlesAs(c, outcome, a) = Settling(q, outcome, a)
  BY DEF SettlesAs, Settling, Settled
<1>1. ASSUME NEW a \in Answers(c), Data(c, a)
      PROVE  ClientInv'
  <2> DEFINE taken == IF a.isError THEN Settling(q, "error", a)
                      ELSE [q EXCEPT !.verifying = q.verifying \cup {a}]
  <2>1. PerCall(c, taken, manifests, rpcClients, conns, valid)
    <3>1. CASE a.isError
      BY <1>0, <3>1, SettlingKeeps
    <3>2. CASE ~a.isError
      <4>1. q.verifying \cup {a} \in SUBSET Answers(c) /\ \A b \in q.verifying \cup {a} : ~b.isError
        BY <1>0, <3>2
      <4>2. PerCall(c, [q EXCEPT !.verifying = q.verifying \cup {a}], manifests, rpcClients, conns, valid)
        BY <1>0, <4>1, Holding
      <4> QED
        BY <3>2, <4>2
    <3> QED
      BY <3>1, <3>2
  <2>2. Set(c, [taken EXCEPT !.received = q.received + 1])
    BY <1>1, <1>a DEF Data
  <2> HIDE DEF taken
  <2>3. q.received + 1 \in Nat /\ {} \in SUBSET Answers(c)
    BY <1>0
  <2>4. PerCall(c, [taken EXCEPT !.received = q.received + 1], manifests, rpcClients, conns, valid)
    BY <2>1, <2>3, Holding
  <2> QED
    BY <1>1, <2>2, <2>4, Alone DEF Data
<1>2. ASSUME NEW a \in q.verifying, Verified(c, a)
      PROVE  ClientInv'
  <2> DEFINE ok == VerifyInPool(a.receipt, LogicOf[c], a.image, Options(c, a), Registered)
             outcome == IF ok THEN "verified" ELSE "refused"
             judged == Settling(q, outcome, a)
             left == q.verifying \ {a}
  <2>1. a \in Answers(c) /\ ~a.isError
    BY <1>0
  <2>2. ok => Justified(c, a)
    BY <2>1, PoolAccepts
  <2>3. Set(c, [judged EXCEPT !.verifying = left])
    BY <1>2, <1>a DEF Verified
  <2> HIDE DEF ok
  <2>4. outcome \in {"failed", "error", "verified", "refused"} /\ (outcome = "verified" => ok)
    OBVIOUS
  <2> HIDE DEF outcome
  <2>5. PerCall(c, judged, manifests, rpcClients, conns, valid)
    BY <1>0, <2>1, <2>2, <2>4, SettlingKeeps
  <2> HIDE DEF judged
  <2>6. left \in SUBSET Answers(c) /\ \A b \in left : ~b.isError
    BY <1>0
  <2> HIDE DEF left
  <2>7. PerCall(c, [judged EXCEPT !.verifying = left], manifests, rpcClients, conns, valid)
    BY <2>5, <2>6, Holding
  <2> QED
    BY <1>2, <2>3, <2>7, Alone DEF Verified
<1>3. PerCall(c, Settling(q, "failed", <<>>), manifests, rpcClients, conns, valid)
      /\ Settling(q, "failed", <<>>).stage = "settled"
  BY <1>0, SettlingKeeps
<1>4. CASE StreamFails(c)
  <2>1. /\ rpcClients' = Without(rpcClients, {q.key, Tool}) /\ Set(c, Closed(Settling(q, "failed", <<>>)))
        /\ UNCHANGED <<where, manifests, conns, valid, managed>>
    BY <1>4, <1>a DEF StreamFails
  <2>2. DOMAIN rpcClients' \subseteq DOMAIN rpcClients /\ \A k \in DOMAIN rpcClients' : rpcClients'[k] = rpcClients[k]
    BY <2>1 DEF Without
  <2>3. Around
    <3>1. Tables(manifests', rpcClients', conns', valid')
      BY <1>0, <2>1, <2>2 DEF Tables
    <3>2. Passes(manifests, rpcClients, conns, valid, manifests', rpcClients', conns', valid')
      BY <1>0, <2>1, <2>2, Unmoved DEF Passes
    <3> QED
      BY <2>1, <3>1, <3>2 DEF Around, ClientInv
  <2>4. PerCall(c, Settling(q, "failed", <<>>), manifests', rpcClients', conns', valid')
    BY <1>0, <1>3, <2>3, Passing DEF Around
  <2>5. PerCall(c, Closed(Settling(q, "failed", <<>>)), manifests', rpcClients', conns', valid')
    <3>1. \A k \in DOMAIN rpcClients' : rpcClients'[k] # 0
      BY <1>0, <2>2
    <3> QED
      BY <1>0, <1>3, <2>1, <2>4, <3>1, Closing
  <2> QED
    BY <2>1, <2>3, <2>5, Stepping
<1>5. CASE StreamEnds(c)
  <2> DEFINE r == IF q.received = 0 THEN Settling(q, "failed", <<>>) ELSE q
  <2>1. PerCall(c, r, manifests, rpcClients, conns, valid) /\ r.stage \in {"stream", "settled"}
    BY <1>0, <1>3, <1>5 DEF StreamEnds, OnStream
  <2>2. Set(c, Closed(r))
    BY <1>5, <1>a DEF StreamEnds
  <2> HIDE DEF r
  <2>3. PerCall(c, Closed(r), manifests, rpcClients, conns, valid)
    BY <1>0, <2>1, Closing
  <2> QED
    BY <1>5, <2>2, <2>3, Alone DEF StreamEnds
<1> QED
  BY <1>1, <1>2, <1>4, <1>5

-----------------------------------------------------------------------------
(* Every step of the client and of the world around it.                    *)
LEMMA ClientStep ==
  ASSUME ClientInv, Next \/ UNCHANGED vars
  PROVE  ClientInv'
<1>0. /\ Tables(manifests, rpcClients, conns, valid) /\ valid \in Nat /\ managed \in 0 .. valid
      /\ where \in [Providers -> Nat]
  BY DEF ClientInv, Tables
<1>1. ASSUME NEW c \in Calls, CallTool(c) \/ Continues(c)
      PROVE  ClientInv'
  BY <1>1, ChoiceHolds, NegotiationHolds, StreamHolds DEF Continues
<1>2. ASSUME NEW c \in Calls, Provided(c)
      PROVE  ClientInv'
  BY <1>2, NegotiationHolds, StreamHolds DEF Provided
<1>3. ASSUME NEW p \in Providers, NEW force \in BOOLEAN, DiscoverTools(p, force)
      PROVE  ClientInv'
  BY <1>3, RememberingAround, Standing DEF DiscoverTools
<1>4. ASSUME NEW p \in Providers, Moves(p)
      PROVE  ClientInv'
  <2>1. where' \in [Providers -> Nat] /\ UNCHANGED <<manifests, rpcClients, conns, valid, managed, call>>
    BY <1>0, <1>4 DEF Moves
  <2>2. Around
    BY <1>0, <2>1, Unmoved DEF Around
  <2> QED
    BY <2>1, <2>2, Standing
<1>5. CASE Expires
  <2>1. valid' = valid + 1 /\ UNCHANGED <<where, manifests, rpcClients, conns, managed, call>>
    BY <1>5 DEF Expires
  <2>2. \A i \in DOMAIN conns : Known(conns[i].token, valid + 1)
    <3>1. ASSUME NEW i \in DOMAIN conns
          PROVE  Known(conns[i].token, valid + 1)
      <4>1. Known(conns[i].token, valid) /\ valid + 1 \in Nat /\ valid <= valid + 1
        BY <1>0 DEF Tables
      <4> QED
        BY <4>1, <1>0, Later
    <3> QED
      BY <3>1
  <2>3. Tables(manifests', rpcClients', conns', valid')
    BY <1>0, <2>1, <2>2 DEF Tables
  <2>4. Passes(manifests, rpcClients, conns, valid, manifests', rpcClients', conns', valid')
    <3>1. Passes(manifests, rpcClients, conns, valid, manifests, rpcClients, conns, valid)
      BY <1>0, Unmoved
    <3> QED
      BY <1>0, <2>1, <3>1 DEF Passes
  <2>5. where' \in [Providers -> Nat] /\ managed' \in 0 .. valid'
    BY <1>0, <2>1
  <2> QED
    BY <2>1, <2>3, <2>4, <2>5, Standing DEF Around
<1>6. CASE UNCHANGED vars
  <2>1. Around
    BY <1>0, <1>6, Unmoved DEF Around, vars
  <2> QED
    BY <1>6, <2>1, Standing DEF vars
<1> QED
  BY <1>1, <1>2, <1>3, <1>4, <1>5, <1>6 DEF Next

LEMMA ClientMeans ==
  ASSUME ClientInv
  PROVE  VerifiedIsBound /\ RefusedTwice
<1>1. VerifiedIsBound
  BY DEF ClientInv, PerCall, Answered, Justified, VerifiedIsBound
<1>2. RefusedTwice
  BY DEF ClientInv, PerCall, Asking, RefusedTwice, Settled, Last
<1> QED
  BY <1>1, <1>2

(* Faults are counted.                                                     *)
LEMMA FaultsCounted ==
  ASSUME faults \in 0 .. MaxFaults, Next \/ UNCHANGED vars
  PROVE  faults' \in 0 .. MaxFaults
<1>1. (UNCHANGED faults \/ Fault) => faults' \in 0 .. MaxFaults
  BY LiopClientAssumption DEF Fault
<1>2. UNCHANGED faults \/ Fault
  BY DEF Next, Continues, Provided, CallTool, CachedResolved, Queried, AddressResolved, ResolveToken, IntentAccepted,
         NegotiationFails, IntentRefused, StreamEnds, StreamFails, Breaks, Verified, Data, DiscoverTools, Moves,
         Expires, vars
<1> QED
  BY <1>1, <1>2

(* The stream of a call is closed with a fault, or while its provider is   *)
(* gone, only by its own failure.                                          *)
LEMMA FaultedGoes ==
  ASSUME ClientInv, faults \in Nat, Next \/ UNCHANGED vars, NEW c \in Calls,
         OnStream(c), ~call'[c].open, faults' > faults \/ ~Reached(c), NEW k \in DOMAIN rpcClients'
  PROVE  rpcClients'[k] # call[c].conn
<1>0. DOMAIN call = Calls /\ call[c].open /\ call[c].stage \in {"stream", "settled"} /\ call[c] \in CallRec(c)
  BY DEF ClientInv, OnStream, PerCall
<1>1. \A d \in Calls : \A q : (Set(d, q) /\ d # c) => call'[c] = call[c]
  BY <1>0 DEF Set
<1>2. call'[c] # call[c]
  BY <1>0
<1>3. StreamFails(c)
  <2>1. ASSUME NEW d \in Calls, d # c, CallTool(d) \/ Continues(d) \/ Provided(d)
        PROVE  FALSE
    <3>1. \E q : Set(d, q)
      BY <2>1 DEF CallTool, Continues, Provided, CachedResolved, Queried, AddressResolved, ResolveToken,
                  IntentAccepted, IntentRefused, NegotiationFails, Verified, Data, StreamFails, StreamEnds,
                  GetOrCreate, Scan, Connects, Waits, Reject
    <3> QED
      BY <1>1, <1>2, <2>1, <3>1
  <2>2. ASSUME CallTool(c) \/ Continues(c) \/ Provided(c)
        PROVE  StreamFails(c)
    <3>1. ~CallTool(c) /\ ~CachedResolved(c) /\ ~Queried(c) /\ ~AddressResolved(c) /\ ~ResolveToken(c)
      <4>1. Idle.stage = "idle"
        BY DEF Idle
      <4> QED
        BY <1>0, <4>1 DEF CallTool, CachedResolved, Queried, AddressResolved, ResolveToken
    <3>2. ~IntentAccepted(c) /\ ~NegotiationFails(c) /\ \A by : ~IntentRefused(c, by)
      BY <1>0 DEF IntentAccepted, NegotiationFails, IntentRefused
    <3>3. ~\E a \in Answers(c) : Data(c, a)
      <4>1. ASSUME NEW a \in Answers(c), Data(c, a)
            PROVE  FALSE
        <5> DEFINE taken == IF a.isError THEN SettlesAs(c, "error", a)
                            ELSE [call[c] EXCEPT !.verifying = call[c].verifying \cup {a}]
        <5>1. call' = [call EXCEPT ![c] = [taken EXCEPT !.received = call[c].received + 1]]
          BY <4>1 DEF Data, Set
        <5>2. "open" \in DOMAIN taken /\ taken.open = TRUE
          BY <1>0 DEF SettlesAs, CallRec
        <5> HIDE DEF taken
        <5> QED
          BY <1>0, <5>1, <5>2
      <4> QED
        BY <4>1
    <3>4. ~\E a \in call[c].verifying : Verified(c, a)
      <4>1. ASSUME NEW a \in call[c].verifying, Verified(c, a)
            PROVE  FALSE
        <5>1. PICK outcome : call' = [call EXCEPT ![c] = [SettlesAs(c, outcome, a) EXCEPT !.verifying = call[c].verifying \ {a}]]
          BY <4>1 DEF Verified, Set
        <5>2. "open" \in DOMAIN SettlesAs(c, outcome, a) /\ SettlesAs(c, outcome, a).open = TRUE
          BY <1>0 DEF SettlesAs, CallRec
        <5> QED
          BY <1>0, <5>1, <5>2
      <4> QED
        BY <4>1
    <3>5. ~StreamEnds(c)
      BY DEF StreamEnds
    <3> QED
      BY <2>2, <3>1, <3>2, <3>3, <3>4, <3>5 DEF Continues, Provided
  <2>3. ~(\E p \in Providers, force \in BOOLEAN : DiscoverTools(p, force)) /\ ~(\E p \in Providers : Moves(p)) /\ ~Expires
    BY <1>2 DEF DiscoverTools, Moves, Expires
  <2> QED
    BY <1>2, <2>1, <2>2, <2>3 DEF Next, vars
<1>4. /\ k \in DOMAIN rpcClients /\ k \notin {call[c].key, Tool} /\ rpcClients'[k] = rpcClients[k]
  BY <1>3 DEF StreamFails, Without
<1> QED
  BY <1>4 DEF ClientInv, PerCall, Linked

(* The connection whose stream failed, or was lost with its provider, is   *)
(* out of the table, under whatever key it was chosen and whatever the     *)
(* other calls did to the table.                                           *)
THEOREM FaultedEvicted == Spec => FaultedIsEvicted
<1> DEFINE Inv == ClientInv /\ faults \in 0 .. MaxFaults
           Goes == \A c \in Calls :
                     (OnStream(c) /\ ~call'[c].open /\ (faults' > faults \/ ~Reached(c)))
                        => \A k \in DOMAIN rpcClients' : rpcClients'[k] # call[c].conn
<1>1. Init => Inv
  BY InitClientInv, LiopClientAssumption DEF Init
<1>2. Inv /\ [Next]_vars => Inv'
  BY ClientStep, FaultsCounted
<1>3. Inv /\ [Next]_vars => [Goes]_vars
  <2>1. faults \in 0 .. MaxFaults => faults \in Nat
    BY LiopClientAssumption
  <2> QED
    BY <2>1, FaultedGoes
<1> QED
  BY <1>1, <1>2, <1>3, PTL DEF Spec, FaultedIsEvicted

(***************************************************************************)
(* The stream bridge.                                                      *)
(***************************************************************************)
(* A request has no session before it is given one, and keeps the one it   *)
(* was given; a session belongs to an id that was given.                   *)
RequestRec ==
    [stage : {"idle", "creating", "handling", "deleting", "refusing", "done", "refused"},
     ip : Ips \cup {NoValue}, sid : Ids \cup {0}]

RequestTypes ==
    /\ req \in [Requests -> RequestRec]
    /\ \A r \in Requests :
         /\ req[r].stage \in {"idle", "creating"} => req[r].sid = 0
         /\ req[r].stage = "creating" => req[r].ip \in Ips
         /\ req[r].stage \in {"handling", "deleting", "refusing", "refused"} => req[r].sid # 0

BridgeTypes ==
    /\ RequestTypes
    /\ Tracked \subseteq Given
    /\ \A s \in Tracked : activeSessions[s] \in [ip : Ips, idle : Nat]
    /\ unused \in [Ids -> Nat]
    /\ timer \in BOOLEAN /\ (stopping # "no" => ~timer)

(* What an address has and what it opens stay finite and within the limit. *)
Counted(ip) ==
    /\ IsFiniteSet(Of(ip)) /\ IsFiniteSet(At("creating", ip))
    /\ Cardinality(At("creating", ip)) <= Concurrency
    /\ Cardinality(Of(ip)) + Cardinality(At("creating", ip)) <= MaxSessionsPerIp - 1 + Concurrency

(* The bridge and the client agree on how long an open session was idle    *)
(* that the bridge knows, and a session that is being deleted is closed.   *)
OpenInv ==
    /\ TrackedIffOpen
    /\ \A r \in Requests : req[r].stage = "deleting" => req[r].sid \notin open
    /\ \A s \in open \cap Tracked : activeSessions[s].idle = unused[s]

BridgeInv == BridgeTypes /\ (\A ip \in Ips : Counted(ip)) /\ OpenInv

-----------------------------------------------------------------------------
(* What is given.                                                          *)
LEMMA GivenIs ==
  /\ \A s : s \in Given <=> s # 0 /\ \E r \in Requests : req[r].stage # "idle" /\ req[r].sid = s
  /\ \A s : (s \in Given)' <=> s # 0 /\ \E r \in Requests : req'[r].stage # "idle" /\ req'[r].sid = s
  BY DEF Given

LEMMA IdsArePositive == Ids \subseteq Nat /\ 0 \notin Ids
<1>1. Cardinality(Ids) \in Nat
  BY StreamBridgeAssumption, FS_CardinalityType
<1> QED
  BY <1>1, StreamBridgeAssumption

LEMMA GivenAreIds ==
  ASSUME BridgeTypes
  PROVE  Given \subseteq Ids /\ Tracked \subseteq Ids
  BY GivenIs DEF BridgeTypes, RequestTypes, RequestRec

(* One request moves on: its record is well formed and what was given      *)
(* stays given.                                                            *)
MovesOn(r, stage, ip, sid) ==
    /\ r \in Requests /\ Becomes(r, stage, ip, sid)
    /\ stage \in {"creating", "handling", "deleting", "refusing", "done", "refused"}
    /\ sid \in Ids \cup {0} /\ ip \in Ips \cup {NoValue}
    /\ stage = "creating" => sid = 0 /\ ip \in Ips
    /\ stage \in {"handling", "deleting", "refusing", "refused"} => sid # 0
    /\ req[r].stage \in {"idle", "creating"} \/ sid = req[r].sid

LEMMA MovingKeeps ==
  ASSUME NEW r, NEW stage, NEW ip, NEW sid, RequestTypes, MovesOn(r, stage, ip, sid)
  PROVE  /\ RequestTypes'
         /\ Given \subseteq Given'
         /\ sid # 0 => sid \in Given'
         /\ \A q \in Requests : q # r => req'[q] = req[q]
         /\ req'[r] = [stage |-> stage, ip |-> ip, sid |-> sid]
<1>1. /\ req' \in [Requests -> RequestRec]
      /\ req'[r] = [stage |-> stage, ip |-> ip, sid |-> sid]
      /\ \A q \in Requests : q # r => req'[q] = req[q]
  BY DEF MovesOn, Becomes, RequestTypes, RequestRec
<1>2. RequestTypes'
  BY <1>1 DEF MovesOn, RequestTypes, RequestRec
<1>3. ASSUME NEW s \in Given
      PROVE  s \in Given'
  <2>1. PICK q \in Requests : req[q].stage # "idle" /\ req[q].sid = s /\ s # 0
    BY <1>3, GivenIs
  <2>2. req'[q].stage # "idle" /\ req'[q].sid = s
    BY <1>1, <2>1 DEF MovesOn, RequestTypes
  <2> QED
    BY <2>1, <2>2, GivenIs
<1>4. sid # 0 => sid \in Given'
  BY <1>1, GivenIs DEF MovesOn
<1> QED
  BY <1>1, <1>2, <1>3, <1>4

(* What a transport's first message does once its id, s, is chosen.        *)
Entered(r, s) ==
    /\ req[r].stage = "creating" /\ s \in Fresh
    /\ activeSessions' = [i \in Tracked \cup {s} |-> IF i = s THEN [ip |-> req[r].ip, idle |-> 0]
                                                   ELSE activeSessions[i]]
    /\ open' = open \cup {s} /\ unused' = [unused EXCEPT ![s] = 0]
    /\ Becomes(r, "handling", req[r].ip, s)
    /\ UNCHANGED <<answer, timer, stopping>>

LEMMA Finishing ==
  ASSUME RequestTypes, NEW r \in Requests, Finished(r)
  PROVE  MovesOn(r, "done", NoValue, req[r].sid)
  BY DEF Finished, MovesOn, RequestTypes, RequestRec

DeletedAs(r) == IF req[r].stage = "deleting" THEN "done" ELSE "refused"
LEMMA DeletedMoves ==
  ASSUME RequestTypes, NEW r \in Requests, Deleted(r)
  PROVE  MovesOn(r, DeletedAs(r), NoValue, req[r].sid)
  BY DEF Deleted, DeletedAs, MovesOn, RequestTypes, RequestRec

(* A DELETE that was refused stays refused.                                *)
LEMMA RefusedStays ==
  ASSUME RequestTypes, BridgeNext
  PROVE  Refused \subseteq Refused'
<1>1. ASSUME NEW r \in Requests, NEW rec, req[r].stage # "refused", req' = [req EXCEPT ![r] = rec]
      PROVE  Refused \subseteq Refused'
  BY <1>1 DEF RequestTypes, Refused
<1>2. ASSUME UNCHANGED req
      PROVE  Refused \subseteq Refused'
  BY <1>2 DEF Refused
<1>3. ASSUME NEW r \in Requests,
             \/ \E msg \in Messages : Stateless(r, msg) \/ Respond(r, msg)
             \/ \E ip \in Ips : Arrive(r, ip)
             \/ \E s \in Ids : Route(r, s) \/ DeleteRefused(r, s) \/ \E fires \in BOOLEAN : Delete(r, s, fires)
             \/ SessionInitialized(r) \/ Deleted(r) \/ ListeningEnds(r)
      PROVE  Refused \subseteq Refused'
  <2>1. /\ req[r].stage # "refused"
        /\ \E stage, ip, sid : Becomes(r, stage, ip, sid)
    BY <1>3 DEF Stateless, Respond, Arrive, Route, Delete, DeleteRefused, SessionInitialized, Deleted,
                ListeningEnds, Finished, Arriving
  <2> QED
    BY <2>1, <1>1 DEF Becomes
<1>4. ASSUME \/ EvictIdleSessions \/ Tick \/ Stop \/ StopReleases \/ \E s \in Ids : StopCloses(s)
      PROVE  Refused \subseteq Refused'
  BY <1>4, <1>2 DEF EvictIdleSessions, Tick, Stop, StopReleases, StopCloses
<1> QED
  BY <1>3, <1>4 DEF BridgeNext, Serve, Continue

LEMMA RefusedAreGiven ==
  ASSUME RequestTypes
  PROVE  Refused \subseteq Given
<1>1. ASSUME NEW r \in Requests, req[r].stage = "refused"
      PROVE  req[r].sid \in Given
  BY <1>1, GivenIs DEF RequestTypes
<1> QED
  BY <1>1 DEF Refused

-----------------------------------------------------------------------------
SessionTypes ==
    /\ \A s \in Tracked : activeSessions[s] \in [ip : Ips, idle : Nat]
    /\ unused \in [Ids -> Nat]

LEMMA BridgeTypesHold ==
  ASSUME BridgeInv, BridgeNext
  PROVE  BridgeTypes'
<1>t. BridgeTypes /\ RequestTypes /\ OpenInv
  BY DEF BridgeInv, BridgeTypes
<1>y. SessionTypes /\ Tracked \subseteq Given /\ timer \in BOOLEAN /\ (stopping # "no" => ~timer)
  BY <1>t DEF SessionTypes, BridgeTypes
<1>p. ASSUME RequestTypes', Given \subseteq Given', Tracked' \subseteq Given', SessionTypes',
             timer' \in BOOLEAN, stopping' # "no" => ~timer'
      PROVE  BridgeTypes'
  BY <1>p DEF BridgeTypes, SessionTypes
<1>g. Given \subseteq Ids /\ Tracked \subseteq Ids /\ open \subseteq Ids /\ Ids \subseteq Nat /\ 0 \notin Ids
  BY <1>t, GivenAreIds, RefusedAreGiven, IdsArePositive DEF OpenInv, TrackedIffOpen
<1>f. ASSUME NEW r \in Requests, Finished(r)
      PROVE  RequestTypes' /\ Given \subseteq Given'
  BY <1>f, <1>t, Finishing, MovingKeeps
<1>s. ASSUME UNCHANGED req
      PROVE  RequestTypes' /\ Given \subseteq Given'
  BY <1>s, <1>t DEF RequestTypes, Given
<1>d. ASSUME NEW S
      PROVE  /\ DOMAIN Drop(activeSessions, S) = Tracked \ S
             /\ \A s \in Tracked \ S : Drop(activeSessions, S)[s] = activeSessions[s]
  BY DEF Drop, Tracked
<1>o. ASSUME NEW s \in Tracked
      PROVE  /\ DOMAIN Touched(s) = Tracked
             /\ \A i \in Tracked : Touched(s)[i] \in [ip : Ips, idle : Nat]
  BY <1>y DEF Touched, Tracked, SessionTypes
<1> DEFINE Kept == RequestTypes' /\ Given \subseteq Given'
<1>k. ASSUME Kept, UNCHANGED <<unused, timer, stopping>>,
             activeSessions' = activeSessions \/ \E S : activeSessions' = Drop(activeSessions, S)
      PROVE  BridgeTypes'
  <2>1. Tracked' \subseteq Tracked /\ \A s \in Tracked' : activeSessions'[s] = activeSessions[s]
    <3>1. CASE activeSessions' = activeSessions
      BY <3>1 DEF Tracked
    <3>2. ASSUME NEW S, activeSessions' = Drop(activeSessions, S)
          PROVE  Tracked' = Tracked \ S /\ \A s \in Tracked' : activeSessions'[s] = activeSessions[s]
      BY <3>2, <1>d DEF Tracked
    <3> QED
      BY <1>k, <3>1, <3>2
  <2>2. SessionTypes'
    BY <1>k, <2>1, <1>y DEF SessionTypes
  <2> QED
    BY <1>k, <2>1, <2>2, <1>y, <1>p
<1>1. ASSUME NEW r \in Requests, NEW msg \in Messages, Stateless(r, msg) \/ Respond(r, msg)
      PROVE  BridgeTypes'
  BY <1>1, <1>f, <1>k DEF Stateless, Respond
<1>2. ASSUME NEW r \in Requests, ListeningEnds(r) \/ Deleted(r)
      PROVE  BridgeTypes'
  <2>1. CASE ListeningEnds(r)
    BY <2>1, <1>f, <1>k DEF ListeningEnds
  <2>2. CASE Deleted(r)
    <3>1. Kept
      BY <2>2, <1>t, DeletedMoves, MovingKeeps
    <3> QED
      BY <2>2, <3>1, <1>k DEF Deleted
  <2> QED
    BY <1>2, <2>1, <2>2
<1>3. ASSUME NEW r \in Requests, NEW ip \in Ips, Arrive(r, ip)
      PROVE  BridgeTypes'
  <2>1. CASE Finished(r)
    BY <1>3, <2>1, <1>f, <1>k DEF Arrive
  <2>2. CASE Becomes(r, "creating", ip, 0)
    <3>1. MovesOn(r, "creating", ip, 0)
      BY <1>3, <2>2, <1>t DEF Arrive, Arriving, MovesOn
    <3> QED
      BY <1>3, <3>1, <1>t, <1>k, MovingKeeps DEF Arrive
  <2> QED
    BY <1>3, <2>1, <2>2 DEF Arrive
<1>4. ASSUME NEW r \in Requests, SessionInitialized(r)
      PROVE  BridgeTypes'
  <2>1. PICK s : Entered(r, s)
    BY <1>4 DEF SessionInitialized, Entered
  <2>2. s \in Ids \ Given /\ MovesOn(r, "handling", req[r].ip, s)
    BY <2>1, <1>t, <1>g DEF Entered, Fresh, MovesOn, RequestTypes, RequestRec
  <2>3. RequestTypes' /\ Given \subseteq Given' /\ s \in Given'
    BY <2>2, <1>t, <1>g, MovingKeeps
  <2>4. /\ Tracked' = Tracked \cup {s}
        /\ \A i \in Tracked' : activeSessions'[i] = IF i = s THEN [ip |-> req[r].ip, idle |-> 0] ELSE activeSessions[i]
        /\ unused' = [unused EXCEPT ![s] = 0] /\ UNCHANGED <<timer, stopping>> /\ req[r].ip \in Ips
    BY <2>1, <1>4, <1>t DEF Entered, Tracked, RequestTypes
  <2>5. SessionTypes'
    BY <2>2, <2>4, <1>y DEF SessionTypes
  <2> QED
    BY <2>3, <2>4, <2>5, <1>y, <1>p
<1>5. ASSUME NEW r \in Requests, NEW s \in Ids, Route(r, s)
      PROVE  BridgeTypes'
  <2>1. CASE s \in Tracked
    <3>1. MovesOn(r, "handling", req[r].ip, s)
      BY <1>5, <2>1, <1>t, <1>g DEF Route, Arriving, MovesOn, RequestTypes, RequestRec
    <3>2. Kept
      BY <3>1, <1>t, MovingKeeps
    <3>3. activeSessions' = Touched(s) /\ unused' = [unused EXCEPT ![s] = 0] /\ UNCHANGED <<timer, stopping>>
      BY <1>5, <2>1 DEF Route
    <3>4. SessionTypes' /\ Tracked' = Tracked
      BY <3>3, <2>1, <1>o, <1>y DEF SessionTypes, Tracked
    <3> QED
      BY <3>2, <3>3, <3>4, <1>y, <1>p
  <2>2. CASE s \notin Tracked
    BY <1>5, <2>2, <1>f, <1>k DEF Route
  <2> QED
    BY <2>1, <2>2
<1>6. ASSUME NEW r \in Requests, NEW s \in Ids, NEW fires \in BOOLEAN, Delete(r, s, fires)
      PROVE  BridgeTypes'
  <2>1. MovesOn(r, "deleting", req[r].ip, s) /\ s \in Tracked
    BY <1>6, <1>t, <1>g DEF Delete, Arriving, MovesOn, RequestTypes, RequestRec
  <2>2. Kept
    BY <2>1, <1>t, MovingKeeps
  <2>3. unused' = [unused EXCEPT ![s] = 0] /\ UNCHANGED <<timer, stopping>>
    BY <1>6 DEF Delete
  <2>4. activeSessions' = Drop(activeSessions, {s}) \/ activeSessions' = Touched(s)
    BY <1>6 DEF Delete
  <2>5. Tracked' \subseteq Tracked /\ \A i \in Tracked' : activeSessions'[i] \in [ip : Ips, idle : Nat]
    <3>1. CASE activeSessions' = Drop(activeSessions, {s})
      <4>1. Tracked' = Tracked \ {s} /\ \A i \in Tracked' : activeSessions'[i] = activeSessions[i]
        BY <3>1, <1>d DEF Tracked
      <4> QED
        BY <4>1, <1>y DEF SessionTypes
    <3>2. CASE activeSessions' = Touched(s)
      BY <3>2, <2>1, <1>o DEF Tracked
    <3> QED
      BY <2>4, <3>1, <3>2
  <2>6. SessionTypes'
    BY <2>3, <2>5, <1>y DEF SessionTypes
  <2> QED
    BY <2>2, <2>3, <2>5, <2>6, <1>y, <1>p
<1>11. ASSUME NEW r \in Requests, NEW s \in Ids, DeleteRefused(r, s)
       PROVE  BridgeTypes'
  <2>1. MovesOn(r, "refusing", req[r].ip, s) /\ s \in Tracked
    BY <1>11, <1>t, <1>g DEF DeleteRefused, Arriving, MovesOn, RequestTypes, RequestRec
  <2>2. Kept
    BY <2>1, <1>t, MovingKeeps
  <2>3. activeSessions' = Touched(s) /\ unused' = [unused EXCEPT ![s] = 0] /\ UNCHANGED <<timer, stopping>>
    BY <1>11 DEF DeleteRefused
  <2>4. SessionTypes' /\ Tracked' = Tracked
    BY <2>1, <2>3, <1>o, <1>y DEF SessionTypes, Tracked
  <2> QED
    BY <2>2, <2>3, <2>4, <1>y, <1>p
<1>7. CASE EvictIdleSessions
  BY <1>7, <1>s, <1>k DEF EvictIdleSessions
<1>8. CASE Tick
  <2>1. /\ Tracked' = Tracked
        /\ \A s \in Tracked : activeSessions'[s] = [ip |-> activeSessions[s].ip, idle |-> Older(activeSessions[s].idle)]
        /\ unused' = [s \in Ids |-> IF s \in open THEN Older(unused[s]) ELSE 0]
        /\ UNCHANGED <<timer, stopping, req>>
    BY <1>8 DEF Tick, Tracked
  <2>2. \A n \in Nat : Older(n) \in Nat
    BY DEF Older
  <2>3. unused' \in [Ids -> Nat]
    BY <2>1, <2>2, <1>y DEF SessionTypes
  <2>4. \A s \in Tracked' : activeSessions'[s] \in [ip : Ips, idle : Nat]
    <3>1. ASSUME NEW s \in Tracked
          PROVE  activeSessions'[s] \in [ip : Ips, idle : Nat]
      <4>1. activeSessions[s].ip \in Ips /\ activeSessions[s].idle \in Nat
        BY <3>1, <1>y DEF SessionTypes
      <4>2. Older(activeSessions[s].idle) \in Nat
        BY <4>1, <2>2
      <4>3. activeSessions'[s] = [ip |-> activeSessions[s].ip, idle |-> Older(activeSessions[s].idle)]
        BY <2>1
      <4> QED
        BY <4>1, <4>2, <4>3
    <3> QED
      BY <2>1, <3>1
  <2> QED
    BY <2>1, <2>3, <2>4, <1>s, <1>y, <1>p DEF SessionTypes
<1>9. CASE Stop \/ StopReleases
  <2>1. /\ UNCHANGED <<req, activeSessions, unused>>
        /\ timer' = FALSE \/ (stopping # "no" /\ timer' = timer)
    BY <1>9 DEF Stop, StopReleases
  <2>2. SessionTypes' /\ Tracked' = Tracked
    BY <2>1, <1>y DEF SessionTypes, Tracked
  <2>3. timer' \in BOOLEAN /\ (stopping' # "no" => ~timer')
    <3>1. CASE timer' = FALSE
      BY <3>1
    <3>2. CASE stopping # "no" /\ timer' = timer
      <4>1. ~timer
        BY <3>2, <1>y
      <4> QED
        BY <4>1, <3>2, <1>y
    <3> QED
      BY <2>1, <3>1, <3>2
  <2> QED
    BY <2>1, <2>2, <2>3, <1>s, <1>y, <1>p
<1>10. ASSUME NEW s \in Ids, StopCloses(s)
       PROVE  BridgeTypes'
  BY <1>10, <1>s, <1>k DEF StopCloses, Close
<1> QED
  BY <1>1, <1>2, <1>3, <1>4, <1>5, <1>6, <1>7, <1>8, <1>9, <1>10, <1>11 DEF BridgeNext, Serve, Continue
-----------------------------------------------------------------------------
(* The limit.  Most steps add to neither count.                            *)
Shrinks ==
    /\ \A s \in Tracked' : s \in Tracked /\ activeSessions'[s].ip = activeSessions[s].ip
    /\ \A q \in Requests : req'[q].stage = "creating" => req'[q] = req[q]

LEMMA Shrinking ==
  ASSUME Shrinks, NEW ip \in Ips, Counted(ip)
  PROVE  Counted(ip)'
<1>1. Of(ip)' \subseteq Of(ip)
  BY DEF Shrinks, Of
<1>2. At("creating", ip)' \subseteq At("creating", ip)
  BY DEF Shrinks, At
<1>3. /\ IsFiniteSet(Of(ip)') /\ Cardinality(Of(ip)') <= Cardinality(Of(ip))
      /\ IsFiniteSet(At("creating", ip)')
      /\ Cardinality(At("creating", ip)') <= Cardinality(At("creating", ip))
  BY <1>1, <1>2, FS_Subset DEF Counted
<1>4. /\ Cardinality(Of(ip)) \in Nat /\ Cardinality(Of(ip)') \in Nat
      /\ Cardinality(At("creating", ip)) \in Nat /\ Cardinality(At("creating", ip)') \in Nat
  BY <1>3, FS_CardinalityType DEF Counted
<1>5. MaxSessionsPerIp \in Nat /\ Concurrency \in Nat
  BY StreamBridgeAssumption
<1> QED
  BY <1>3, <1>4, <1>5 DEF Counted

LEMMA CountedHolds ==
  ASSUME BridgeInv, BridgeNext, NEW ip \in Ips
  PROVE  Counted(ip)'
<1>t. BridgeTypes /\ RequestTypes /\ Counted(ip)
  BY DEF BridgeInv, BridgeTypes
<1>g. Given \subseteq Ids /\ Tracked \subseteq Ids /\ 0 \notin Ids
  BY <1>t, GivenAreIds, IdsArePositive
<1>c. MaxSessionsPerIp \in Nat \ {0} /\ Concurrency \in Nat \ {0}
  BY StreamBridgeAssumption
<1>n. Cardinality(Of(ip)) \in Nat /\ Cardinality(At("creating", ip)) \in Nat
  BY <1>t, FS_CardinalityType DEF Counted
<1>m. ASSUME NEW r \in Requests, NEW stage, NEW other, NEW sid,
             MovesOn(r, stage, other, sid), stage # "creating"
      PROVE  \A q \in Requests : req'[q].stage = "creating" => req'[q] = req[q]
  <2>1. /\ \A q \in Requests : q # r => req'[q] = req[q]
        /\ req'[r] = [stage |-> stage, ip |-> other, sid |-> sid]
    BY <1>m, <1>t, MovingKeeps
  <2> QED
    BY <2>1, <1>m
<1>s. ASSUME \A q \in Requests : req'[q].stage = "creating" => req'[q] = req[q],
             activeSessions' = activeSessions \/ \E S : activeSessions' = Drop(activeSessions, S)
      PROVE  Counted(ip)'
  <2>1. \A s \in Tracked' : s \in Tracked /\ activeSessions'[s] = activeSessions[s]
    BY <1>s DEF Tracked, Drop
  <2> QED
    BY <2>1, <1>s, <1>t, Shrinking DEF Shrinks
<1>f. ASSUME NEW r \in Requests, Finished(r),
             activeSessions' = activeSessions \/ \E S : activeSessions' = Drop(activeSessions, S)
      PROVE  Counted(ip)'
  BY <1>f, <1>m, <1>s, <1>t, Finishing
<1>o. ASSUME NEW s \in Tracked
      PROVE  /\ DOMAIN Touched(s) = Tracked
             /\ \A i \in Tracked : Touched(s)[i].ip = activeSessions[i].ip
  BY DEF Touched, Tracked
<1>1. ASSUME NEW r \in Requests, NEW msg \in Messages, Stateless(r, msg) \/ Respond(r, msg)
      PROVE  Counted(ip)'
  BY <1>1, <1>f DEF Stateless, Respond
<1>2. ASSUME NEW r \in Requests, ListeningEnds(r) \/ Deleted(r)
      PROVE  Counted(ip)'
  <2>1. CASE ListeningEnds(r)
    BY <2>1, <1>f DEF ListeningEnds
  <2>2. CASE Deleted(r)
    <3>1. MovesOn(r, DeletedAs(r), NoValue, req[r].sid) /\ DeletedAs(r) # "creating"
      BY <2>2, <1>t, DeletedMoves DEF DeletedAs
    <3> QED
      BY <2>2, <3>1, <1>m, <1>s DEF Deleted
  <2> QED
    BY <1>2, <2>1, <2>2
<1>3. ASSUME NEW r \in Requests, NEW other \in Ips, Arrive(r, other)
      PROVE  Counted(ip)'
  <2>1. CASE Finished(r)
    BY <1>3, <2>1, <1>f DEF Arrive
  <2>2. CASE ~Finished(r)
    <3>1. /\ MovesOn(r, "creating", other, 0) /\ req[r].stage = "idle"
          /\ Cardinality(At("creating", other)) < Concurrency
          /\ ~(Cardinality(Of(other)) >= MaxSessionsPerIp)
          /\ activeSessions' = activeSessions
      BY <1>3, <2>2, <1>t DEF Arrive, Arriving, MovesOn
    <3>2. /\ \A q \in Requests : q # r => req'[q] = req[q]
          /\ req'[r] = [stage |-> "creating", ip |-> other, sid |-> 0]
      BY <3>1, <1>t, MovingKeeps
    <3>3. Of(ip)' = Of(ip)
      BY <3>1 DEF Of, Tracked
    <3>4. CASE ip = other
      <4>1. At("creating", ip)' = At("creating", ip) \cup {r} /\ r \notin At("creating", ip)
        BY <3>1, <3>2, <3>4 DEF At
      <4>2. /\ IsFiniteSet(At("creating", ip)')
            /\ Cardinality(At("creating", ip)') = Cardinality(At("creating", ip)) + 1
        BY <4>1, <1>t, FS_AddElement DEF Counted
      <4> QED
        BY <4>2, <3>1, <3>3, <3>4, <1>n, <1>c, <1>t DEF Counted
    <3>5. CASE ip # other
      <4>1. At("creating", ip)' = At("creating", ip)
        BY <3>1, <3>2, <3>5 DEF At
      <4> QED
        BY <4>1, <3>3, <1>t DEF Counted
    <3> QED
      BY <3>4, <3>5
  <2> QED
    BY <2>1, <2>2
<1>4. ASSUME NEW r \in Requests, SessionInitialized(r)
      PROVE  Counted(ip)'
  <2>1. PICK s : Entered(r, s)
    BY <1>4 DEF SessionInitialized, Entered
  <2>2. s \in Ids \ Given /\ MovesOn(r, "handling", req[r].ip, s) /\ s \notin Tracked
    BY <2>1, <1>t, <1>g DEF Entered, Fresh, MovesOn, RequestTypes, RequestRec, BridgeTypes
  <2>3. /\ \A q \in Requests : q # r => req'[q] = req[q]
        /\ req'[r] = [stage |-> "handling", ip |-> req[r].ip, sid |-> s]
    BY <2>2, <1>t, MovingKeeps
  <2>4. /\ Tracked' = Tracked \cup {s}
        /\ \A i \in Tracked' : activeSessions'[i] = IF i = s THEN [ip |-> req[r].ip, idle |-> 0] ELSE activeSessions[i]
    BY <2>1 DEF Entered, Tracked
  <2>5. CASE req[r].ip = ip
    <3>1. Of(ip)' = Of(ip) \cup {s} /\ s \notin Of(ip)
      BY <2>2, <2>4, <2>5 DEF Of
    <3>2. At("creating", ip)' = At("creating", ip) \ {r} /\ r \in At("creating", ip)
      BY <1>4, <2>1, <2>3, <2>5 DEF At, Entered
    <3>3. IsFiniteSet(Of(ip)') /\ Cardinality(Of(ip)') = Cardinality(Of(ip)) + 1
      BY <3>1, <1>t, FS_AddElement DEF Counted
    <3>4. /\ IsFiniteSet(At("creating", ip)')
          /\ Cardinality(At("creating", ip)') = Cardinality(At("creating", ip)) - 1
      BY <3>2, <1>t, FS_RemoveElement DEF Counted
    <3> QED
      BY <3>3, <3>4, <1>n, <1>c, <1>t DEF Counted
  <2>6. CASE req[r].ip # ip
    <3>1. Of(ip)' = Of(ip)
      BY <2>2, <2>4, <2>6 DEF Of
    <3>2. At("creating", ip)' = At("creating", ip)
      BY <2>3, <2>6 DEF At
    <3> QED
      BY <3>1, <3>2, <1>t DEF Counted
  <2> QED
    BY <2>5, <2>6
<1>5. ASSUME NEW r \in Requests, NEW s \in Ids, Route(r, s)
      PROVE  Counted(ip)'
  <2>1. CASE s \in Tracked
    <3>1. MovesOn(r, "handling", req[r].ip, s) /\ activeSessions' = Touched(s)
      BY <1>5, <2>1, <1>t, <1>g DEF Route, Arriving, MovesOn, RequestTypes, RequestRec
    <3> QED
      BY <3>1, <2>1, <1>m, <1>o, <1>t, Shrinking DEF Shrinks, Tracked
  <2>2. CASE s \notin Tracked
    BY <1>5, <2>2, <1>f DEF Route
  <2> QED
    BY <2>1, <2>2
<1>6. ASSUME NEW r \in Requests, NEW s \in Ids, NEW fires \in BOOLEAN, Delete(r, s, fires)
      PROVE  Counted(ip)'
  <2>1. MovesOn(r, "deleting", req[r].ip, s) /\ s \in Tracked
    BY <1>6, <1>t, <1>g DEF Delete, Arriving, MovesOn, RequestTypes, RequestRec
  <2>2. CASE activeSessions' = Drop(activeSessions, {s})
    BY <2>1, <2>2, <1>m, <1>s
  <2>3. CASE activeSessions' = Touched(s)
    BY <2>1, <2>3, <1>m, <1>o, <1>t, Shrinking DEF Shrinks, Tracked
  <2> QED
    BY <1>6, <2>2, <2>3 DEF Delete
<1>11. ASSUME NEW r \in Requests, NEW s \in Ids, DeleteRefused(r, s)
       PROVE  Counted(ip)'
  <2>1. MovesOn(r, "refusing", req[r].ip, s) /\ s \in Tracked /\ activeSessions' = Touched(s)
    BY <1>11, <1>t, <1>g DEF DeleteRefused, Arriving, MovesOn, RequestTypes, RequestRec
  <2> QED
    BY <2>1, <1>m, <1>o, <1>t, Shrinking DEF Shrinks, Tracked
<1>7. CASE EvictIdleSessions
  BY <1>7, <1>s DEF EvictIdleSessions
<1>8. CASE Tick
  <2>1. \A s \in Tracked' : s \in Tracked /\ activeSessions'[s].ip = activeSessions[s].ip
    BY <1>8 DEF Tick, Tracked
  <2> QED
    BY <1>8, <2>1, <1>t, Shrinking DEF Tick, Shrinks
<1>9. CASE Stop \/ StopReleases
  BY <1>9, <1>s DEF Stop, StopReleases
<1>10. ASSUME NEW s \in Ids, StopCloses(s)
       PROVE  Counted(ip)'
  BY <1>10, <1>s DEF StopCloses, Close
<1> QED
  BY <1>1, <1>2, <1>3, <1>4, <1>5, <1>6, <1>7, <1>8, <1>9, <1>10, <1>11 DEF BridgeNext, Serve, Continue
-----------------------------------------------------------------------------
(* Open transports and entries.  A step that closes S keeps entries for    *)
(* everything else; a request that ends a deletion takes the entry along.  *)
LEMMA OpenHolds ==
  ASSUME BridgeInv, BridgeNext
  PROVE  OpenInv'
<1>t. BridgeTypes /\ RequestTypes /\ OpenInv /\ SessionTypes
  BY DEF BridgeInv, BridgeTypes, SessionTypes
<1>g. /\ Given \subseteq Ids /\ Tracked \subseteq Given /\ open \subseteq Tracked \cup Refused /\ 0 \notin Ids
      /\ Refused \subseteq Refused' /\ Refused \subseteq Given
  BY <1>t, GivenAreIds, RefusedAreGiven, RefusedStays, IdsArePositive DEF OpenInv, TrackedIffOpen, BridgeTypes
<1>i. /\ \A s \in Tracked \ open : \E r \in Requests : req[r].stage = "deleting" /\ req[r].sid = s
      /\ \A r \in Requests : req[r].stage = "deleting" => req[r].sid \notin open
      /\ \A s \in open \cap Tracked : activeSessions[s].idle = unused[s]
  BY <1>t DEF OpenInv, TrackedIffOpen
<1>m. ASSUME NEW r \in Requests, NEW stage, NEW other, NEW sid,
             MovesOn(r, stage, other, sid)
      PROVE  /\ \A q \in Requests : q # r => req'[q] = req[q]
             /\ req'[r].stage = stage /\ req'[r].sid = sid
  <2>1. /\ \A q \in Requests : q # r => req'[q] = req[q]
        /\ req'[r] = [stage |-> stage, ip |-> other, sid |-> sid]
    BY <1>m, <1>t, MovingKeeps
  <2> QED
    BY <2>1
\* A step that closes S and drops S, while no deletion begins, or ends
\* without its entry.
<1>s. ASSUME NEW S, open' = open \ S, UNCHANGED unused,
             activeSessions' = Drop(activeSessions, S),
             \A q \in Requests : req'[q].stage = "deleting" => req'[q] = req[q],
             \A q \in Requests : (req[q].stage = "deleting" /\ req'[q] # req[q]) => req[q].sid \in S
      PROVE  OpenInv'
  <2>1. Tracked' = Tracked \ S /\ \A s \in Tracked' : activeSessions'[s] = activeSessions[s]
    BY <1>s DEF Tracked, Drop
  <2>2. open' \subseteq Tracked' \cup Refused'
    BY <2>1, <1>s, <1>g
  <2>3. ASSUME NEW s \in Tracked' \ open'
        PROVE  \E r \in Requests : req'[r].stage = "deleting" /\ req'[r].sid = s
    <3>1. s \in Tracked \ open /\ s \notin S
      BY <2>1, <1>s
    <3>2. PICK r \in Requests : req[r].stage = "deleting" /\ req[r].sid = s
      BY <3>1, <1>i
    <3>3. req'[r] = req[r]
      BY <3>1, <3>2, <1>s
    <3> QED
      BY <3>2, <3>3
  <2>4. \A q \in Requests : req'[q].stage = "deleting" => req'[q].sid \notin open'
    BY <1>s, <1>i
  <2>5. \A s \in open' \cap Tracked' : activeSessions'[s].idle = unused'[s]
    BY <2>1, <2>2, <1>s, <1>i
  <2> QED
    BY <2>2, <2>3, <2>4, <2>5 DEF OpenInv, TrackedIffOpen
<1>e. Drop(activeSessions, {}) = [s \in Tracked |-> activeSessions[s]]
  BY DEF Drop, Tracked
\* The same for a step that leaves sessions alone.
<1>u. ASSUME UNCHANGED <<activeSessions, open, unused>>,
             \A q \in Requests : req'[q].stage = "deleting" <=> req[q].stage = "deleting",
             \A q \in Requests : req[q].stage = "deleting" => req'[q] = req[q]
      PROVE  OpenInv'
  <2>1. Tracked' = Tracked
    BY <1>u DEF Tracked
  <2> QED
    BY <2>1, <1>u, <1>i, <1>g DEF OpenInv, TrackedIffOpen
<1>f. ASSUME NEW r \in Requests, Finished(r), req[r].stage # "deleting",
             UNCHANGED <<activeSessions, open, unused>>
      PROVE  OpenInv'
  <2>1. /\ \A q \in Requests : q # r => req'[q] = req[q]
        /\ req'[r].stage = "done"
    BY <1>f, <1>m, <1>t, Finishing
  <2> QED
    BY <2>1, <1>f, <1>u
<1>o. ASSUME NEW s \in Tracked
      PROVE  /\ DOMAIN Touched(s) = Tracked
             /\ \A i \in Tracked : Touched(s)[i].idle = IF i = s THEN 0 ELSE activeSessions[i].idle
  BY DEF Touched, Tracked
<1>1. ASSUME NEW r \in Requests, NEW msg \in Messages, Stateless(r, msg) \/ Respond(r, msg)
      PROVE  OpenInv'
  BY <1>1, <1>f DEF Stateless, Respond, Arriving
<1>2. ASSUME NEW r \in Requests, ListeningEnds(r)
      PROVE  OpenInv'
  BY <1>2, <1>f DEF ListeningEnds
<1>3. ASSUME NEW r \in Requests, Deleted(r)
      PROVE  OpenInv'
  <2>1. /\ \A q \in Requests : q # r => req'[q] = req[q]
        /\ req'[r].stage = DeletedAs(r) /\ req'[r].sid = req[r].sid
    BY <1>3, <1>m, <1>t, DeletedMoves
  <2>2. CASE req[r].stage = "deleting"
    <3>1. req[r].sid \notin open /\ req'[r].stage = "done"
      BY <1>i, <2>1, <2>2 DEF DeletedAs
    <3>2. open' = open \ {req[r].sid} /\ UNCHANGED unused /\ activeSessions' = Drop(activeSessions, {req[r].sid})
      BY <1>3, <3>1 DEF Deleted
    <3> QED
      BY <2>1, <3>1, <3>2, <1>s
  <2>3. CASE req[r].stage # "deleting"
    <3>1. req'[r].stage = "refused" /\ req[r].sid \in Refused'
      BY <2>1, <2>3 DEF DeletedAs, Refused
    <3>2. /\ Tracked' = Tracked \ {req[r].sid} /\ UNCHANGED <<open, unused>>
          /\ \A s \in Tracked' : activeSessions'[s] = activeSessions[s]
      BY <1>3 DEF Deleted, Tracked, Drop
    <3>3. open' \subseteq Tracked' \cup Refused'
      BY <3>1, <3>2, <1>g
    <3>4. ASSUME NEW i \in Tracked' \ open'
          PROVE  \E q \in Requests : req'[q].stage = "deleting" /\ req'[q].sid = i
      <4>1. PICK q \in Requests : req[q].stage = "deleting" /\ req[q].sid = i
        BY <3>2, <3>4, <1>i
      <4> QED
        BY <4>1, <2>1, <2>3
    <3>5. \A q \in Requests : req'[q].stage = "deleting" => req'[q].sid \notin open'
      BY <2>1, <3>1, <3>2, <1>i
    <3>6. \A s \in open' \cap Tracked' : activeSessions'[s].idle = unused'[s]
      BY <3>2, <1>i
    <3> QED
      BY <3>3, <3>4, <3>5, <3>6 DEF OpenInv, TrackedIffOpen
  <2> QED
    BY <2>2, <2>3
<1>4. ASSUME NEW r \in Requests, NEW ip \in Ips, Arrive(r, ip)
      PROVE  OpenInv'
  <2>1. UNCHANGED <<activeSessions, open, unused>> /\ req[r].stage = "idle"
    BY <1>4 DEF Arrive, Arriving
  <2>2. CASE Finished(r)
    BY <2>1, <2>2, <1>f
  <2>3. CASE Becomes(r, "creating", ip, 0)
    <3>1. MovesOn(r, "creating", ip, 0)
      BY <2>1, <2>3, <1>t DEF MovesOn
    <3>2. /\ \A q \in Requests : q # r => req'[q] = req[q]
          /\ req'[r].stage = "creating"
      BY <3>1, <1>m
    <3> QED
      BY <2>1, <3>2, <1>u
  <2> QED
    BY <1>4, <2>2, <2>3 DEF Arrive
<1>5. ASSUME NEW r \in Requests, SessionInitialized(r)
      PROVE  OpenInv'
  <2>1. PICK s : Entered(r, s)
    BY <1>5 DEF SessionInitialized, Entered
  <2>2. s \in Ids \ Given /\ MovesOn(r, "handling", req[r].ip, s)
    BY <2>1, <1>t, <1>g DEF Entered, Fresh, MovesOn, RequestTypes, RequestRec
  <2>3. /\ \A q \in Requests : q # r => req'[q] = req[q]
        /\ req'[r].stage = "handling" /\ req[r].stage = "creating"
    BY <2>1, <2>2, <1>m DEF Entered
  <2>4. /\ Tracked' = Tracked \cup {s} /\ open' = open \cup {s}
        /\ \A i \in Tracked' : activeSessions'[i] = IF i = s THEN [ip |-> req[r].ip, idle |-> 0] ELSE activeSessions[i]
        /\ unused' = [unused EXCEPT ![s] = 0]
    BY <2>1 DEF Entered, Tracked
  <2>5. \A q \in Requests : req[q].stage = "deleting" => req[q].sid # s
    BY <2>2, <1>t, <1>g, GivenIs DEF RequestTypes
  <2>6. open' \subseteq Tracked' \cup Refused'
    BY <2>4, <1>g
  <2>7. ASSUME NEW i \in Tracked' \ open'
        PROVE  \E q \in Requests : req'[q].stage = "deleting" /\ req'[q].sid = i
    <3>1. PICK q \in Requests : req[q].stage = "deleting" /\ req[q].sid = i
      BY <2>4, <2>7, <1>i
    <3> QED
      BY <3>1, <2>3
  <2>8. \A q \in Requests : req'[q].stage = "deleting" => req'[q].sid \notin open'
    BY <2>3, <2>4, <2>5, <1>i
  <2>9. \A i \in open' \cap Tracked' : activeSessions'[i].idle = unused'[i]
    <3>1. s \in DOMAIN unused /\ \A i \in open : i \in DOMAIN unused
      BY <2>2, <1>g, <1>t DEF SessionTypes
    <3> QED
      BY <2>4, <2>6, <3>1, <1>i
  <2> QED
    BY <2>6, <2>7, <2>8, <2>9 DEF OpenInv, TrackedIffOpen
<1>6. ASSUME NEW r \in Requests, NEW s \in Ids, Route(r, s)
      PROVE  OpenInv'
  <2>1. CASE s \in Tracked
    <3>1. /\ MovesOn(r, "handling", req[r].ip, s) /\ req[r].stage = "idle"
          /\ activeSessions' = Touched(s) /\ unused' = [unused EXCEPT ![s] = 0] /\ open' = open
      BY <1>6, <2>1, <1>t, <1>g DEF Route, Arriving, MovesOn, RequestTypes, RequestRec
    <3>2. /\ \A q \in Requests : q # r => req'[q] = req[q]
          /\ req'[r].stage = "handling"
      BY <3>1, <1>m
    <3>3. /\ Tracked' = Tracked
          /\ \A i \in Tracked : activeSessions'[i].idle = IF i = s THEN 0 ELSE activeSessions[i].idle
      BY <3>1, <2>1, <1>o DEF Tracked
    <3>4. \A i \in open : i \in DOMAIN unused
      BY <1>g, <1>t DEF SessionTypes
    <3>5. \A i \in open' \cap Tracked' : activeSessions'[i].idle = unused'[i]
      BY <3>1, <3>3, <3>4, <1>i
    <3> QED
      BY <3>1, <3>2, <3>3, <3>5, <1>i, <1>g DEF OpenInv, TrackedIffOpen
  <2>2. CASE s \notin Tracked
    BY <1>6, <2>2, <1>f DEF Route, Arriving
  <2> QED
    BY <2>1, <2>2
<1>7. ASSUME NEW r \in Requests, NEW s \in Ids, NEW fires \in BOOLEAN, Delete(r, s, fires)
      PROVE  OpenInv'
  <2>1. /\ MovesOn(r, "deleting", req[r].ip, s) /\ s \in Tracked /\ req[r].stage = "idle"
        /\ open' = open \ {s} /\ unused' = [unused EXCEPT ![s] = 0]
        /\ activeSessions' = Drop(activeSessions, {s}) \/ activeSessions' = Touched(s)
    BY <1>7, <1>t, <1>g DEF Delete, Arriving, MovesOn, RequestTypes, RequestRec
  <2>2. /\ \A q \in Requests : q # r => req'[q] = req[q]
        /\ req'[r].stage = "deleting" /\ req'[r].sid = s
    BY <2>1, <1>m
  <2>3. /\ Tracked \ {s} \subseteq Tracked' /\ Tracked' \subseteq Tracked
        /\ \A i \in Tracked \ {s} : activeSessions'[i].idle = activeSessions[i].idle
    <3>1. CASE activeSessions' = Drop(activeSessions, {s})
      BY <3>1 DEF Drop, Tracked
    <3>2. CASE activeSessions' = Touched(s)
      BY <3>2, <2>1, <1>o DEF Tracked
    <3> QED
      BY <2>1, <3>1, <3>2
  <2>4. open' \subseteq Tracked' \cup Refused'
    BY <2>1, <2>3, <1>g
  <2>5. ASSUME NEW i \in Tracked' \ open'
        PROVE  \E q \in Requests : req'[q].stage = "deleting" /\ req'[q].sid = i
    <3>1. CASE i = s
      BY <3>1, <2>2
    <3>2. CASE i # s
      <4>1. PICK q \in Requests : req[q].stage = "deleting" /\ req[q].sid = i
        BY <2>1, <2>3, <2>5, <3>2, <1>i
      <4> QED
        BY <4>1, <2>1, <2>2
    <3> QED
      BY <3>1, <3>2
  <2>6. \A q \in Requests : req'[q].stage = "deleting" => req'[q].sid \notin open'
    BY <2>1, <2>2, <1>i
  <2>7. \A i \in open' \cap Tracked' : activeSessions'[i].idle = unused'[i]
    <3>1. \A i \in open : i \in DOMAIN unused
      BY <1>g, <1>t DEF SessionTypes
    <3> QED
      BY <2>1, <2>3, <3>1, <1>i
  <2> QED
    BY <2>4, <2>5, <2>6, <2>7 DEF OpenInv, TrackedIffOpen
<1>12. ASSUME NEW r \in Requests, NEW s \in Ids, DeleteRefused(r, s)
       PROVE  OpenInv'
  <2>1. /\ MovesOn(r, "refusing", req[r].ip, s) /\ req[r].stage = "idle" /\ s \in Tracked
        /\ activeSessions' = Touched(s) /\ unused' = [unused EXCEPT ![s] = 0] /\ open' = open
    BY <1>12, <1>t, <1>g DEF DeleteRefused, Arriving, MovesOn, RequestTypes, RequestRec
  <2>2. /\ \A q \in Requests : q # r => req'[q] = req[q]
        /\ req'[r].stage = "refusing"
    BY <2>1, <1>m
  <2>3. /\ Tracked' = Tracked
        /\ \A i \in Tracked : activeSessions'[i].idle = IF i = s THEN 0 ELSE activeSessions[i].idle
    BY <2>1, <1>o DEF Tracked
  <2>4. \A i \in open : i \in DOMAIN unused
    BY <1>g, <1>t DEF SessionTypes
  <2>5. \A i \in open' \cap Tracked' : activeSessions'[i].idle = unused'[i]
    BY <2>1, <2>3, <2>4, <1>i
  <2> QED
    BY <2>1, <2>2, <2>3, <2>5, <1>i, <1>g DEF OpenInv, TrackedIffOpen
<1>8. CASE EvictIdleSessions
  BY <1>8, <1>s DEF EvictIdleSessions
<1>9. CASE Tick
  <2>1. /\ Tracked' = Tracked /\ open' = open /\ req' = req
        /\ \A s \in Tracked : activeSessions'[s] = [ip |-> activeSessions[s].ip, idle |-> Older(activeSessions[s].idle)]
        /\ unused' = [s \in Ids |-> IF s \in open THEN Older(unused[s]) ELSE 0]
    BY <1>9 DEF Tick, Tracked
  <2>2. \A s \in open \cap Tracked : activeSessions'[s].idle = unused'[s]
    <3>1. ASSUME NEW s \in open \cap Tracked
          PROVE  activeSessions'[s].idle = Older(activeSessions[s].idle) /\ unused'[s] = Older(unused[s])
      <4>1. s \in Tracked /\ s \in Ids
        BY <1>g
      <4>2. activeSessions'[s] = [ip |-> activeSessions[s].ip, idle |-> Older(activeSessions[s].idle)]
        BY <2>1, <4>1
      <4>3. unused'[s] = Older(unused[s])
        BY <2>1, <4>1
      <4> QED
        BY <4>2, <4>3
    <3> QED
      BY <3>1, <1>i
  <2> QED
    BY <2>1, <2>2, <1>i, <1>g DEF OpenInv, TrackedIffOpen
<1>10. CASE Stop \/ StopReleases
  BY <1>10, <1>u DEF Stop, StopReleases
<1>11. ASSUME NEW s \in Ids, StopCloses(s)
       PROVE  OpenInv'
  BY <1>11, <1>s DEF StopCloses, Close
<1> QED
  BY <1>1, <1>2, <1>3, <1>4, <1>5, <1>6, <1>7, <1>8, <1>9, <1>10, <1>11, <1>12 DEF BridgeNext, Serve, Continue

-----------------------------------------------------------------------------
LEMMA StartBridgeInv ==
  ASSUME Start
  PROVE  BridgeInv
<1>1. Tracked = {}
  BY DEF Start, Tracked
<1>2. BridgeTypes
  BY <1>1 DEF Start, BridgeTypes, RequestTypes, RequestRec, NoMessage
<1>3. ASSUME NEW ip \in Ips
      PROVE  Counted(ip)
  <2>1. Of(ip) = {} /\ At("creating", ip) = {}
    BY <1>1 DEF Start, Of, At
  <2> QED
    <3>1. IsFiniteSet({}) /\ Cardinality({}) = 0
      BY FS_EmptySet
    <3>2. MaxSessionsPerIp \in Nat \ {0} /\ Concurrency \in Nat \ {0}
      BY StreamBridgeAssumption
    <3> QED
      BY <2>1, <3>1, <3>2 DEF Counted
<1>4. OpenInv
  BY <1>1 DEF Start, OpenInv, TrackedIffOpen
<1> QED
  BY <1>2, <1>3, <1>4 DEF BridgeInv

LEMMA BridgeInvHolds ==
  ASSUME BridgeInv, BridgeNext \/ UNCHANGED bridgeVars
  PROVE  BridgeInv'
<1>1. CASE BridgeNext
  BY <1>1, BridgeTypesHold, CountedHolds, OpenHolds DEF BridgeInv
<1>2. CASE UNCHANGED bridgeVars
  <2>1. /\ Tracked' = Tracked /\ Given' = Given /\ Refused' = Refused
        /\ \A ip : Of(ip)' = Of(ip) /\ At("creating", ip)' = At("creating", ip)
    BY <1>2 DEF bridgeVars, Tracked, Given, Refused, Of, At
  <2>2. BridgeTypes'
    BY <1>2, <2>1 DEF bridgeVars, BridgeInv, BridgeTypes, RequestTypes
  <2>3. \A ip \in Ips : Counted(ip)'
    BY <2>1 DEF BridgeInv, Counted
  <2>4. OpenInv'
    BY <1>2, <2>1 DEF bridgeVars, BridgeInv, OpenInv, TrackedIffOpen
  <2> QED
    BY <2>2, <2>3, <2>4 DEF BridgeInv
<1> QED
  BY <1>1, <1>2

(* The sessions of an address never exceed its limit by more than the      *)
(* initialisations that overlap, and entries and open transports agree,    *)
(* but for a transport that refused its DELETE.                            *)
THEOREM BridgeAccounts == BridgeSpec => []SessionsAreAccounted
<1>1. BridgeInv => SessionsAreAccounted
  BY DEF BridgeInv, Counted, OpenInv, SessionsAreAccounted, LimitPlusOverlap
<1> QED
  BY <1>1, StartBridgeInv, BridgeInvHolds, PTL DEF BridgeSpec

(* The timer closes only sessions in which nothing arrived for the         *)
(* time-out, and no other step closes one unless a request asks for it or  *)
(* the bridge stops.                                                       *)
THEOREM BridgeKeepsActive == BridgeSpec => ActiveIsKept
<1> DEFINE Kept == \A s \in open \ open' : timer /\ req' = req => unused[s] > Timeout
<1>1. ASSUME BridgeInv, BridgeNext \/ UNCHANGED bridgeVars, NEW s \in open \ open', timer, req' = req
      PROVE  unused[s] > Timeout
  <2>1. /\ s \in Tracked => activeSessions[s].idle = unused[s]
        /\ RequestTypes /\ (stopping # "no" => ~timer)
    BY <1>1 DEF BridgeInv, BridgeTypes, OpenInv, TrackedIffOpen
  <2>2. ~\E r \in Requests, i \in Ids, fires \in BOOLEAN : Delete(r, i, fires)
    <3>1. ASSUME NEW r \in Requests, NEW i \in Ids, NEW fires \in BOOLEAN, Delete(r, i, fires)
          PROVE  FALSE
      <4>1. req[r].stage = "idle" /\ req'[r].stage = "deleting"
        BY <3>1, <2>1 DEF Delete, Arriving, Becomes, RequestTypes
      <4> QED
        BY <4>1, <1>1
    <3> QED
      BY <3>1
  <2>3. ~\E i \in Ids : StopCloses(i)
    BY <1>1, <2>1 DEF StopCloses
  <2>4. ASSUME NEW r \in Requests,
               \/ \E msg \in Messages : Stateless(r, msg) \/ Respond(r, msg)
               \/ \E ip \in Ips : Arrive(r, ip)
               \/ \E i \in Ids : Route(r, i) \/ DeleteRefused(r, i)
               \/ SessionInitialized(r) \/ Deleted(r) \/ ListeningEnds(r)
        PROVE  FALSE
    BY <2>4, <1>1 DEF Stateless, Respond, Arrive, Route, DeleteRefused, SessionInitialized, Deleted, ListeningEnds
  <2>5. EvictIdleSessions
    BY <1>1, <2>2, <2>3, <2>4
       DEF BridgeNext, Serve, Continue, Tick, Stop, StopReleases, bridgeVars
  <2> QED
    BY <1>1, <2>1, <2>5 DEF EvictIdleSessions, IdleSessions
<1>2. BridgeInv /\ [BridgeNext]_bridgeVars => [Kept]_bridgeVars
  BY <1>1
<1> QED
  BY <1>2, StartBridgeInv, BridgeInvHolds, PTL DEF BridgeSpec, ActiveIsKept
-----------------------------------------------------------------------------
(* What the bridge calls verified was verified.                            *)
LEMMA LabelEarned ==
  ASSUME NEW msg, Reply(msg) = "verified"
  PROVE  /\ msg.result.receipt.logic = msg.logic
         /\ \/ msg.logic.proxy \/ msg.result.output = NoValue
            \/ msg.result.receipt.output = <<"result", msg.result.output>>
<1> DEFINE res == msg.result
           options == [secret |-> NoValue, output |-> res.output, guest |-> NoValue, vkey |-> FALSE,
                       policy |-> IF res.receipt.version = 2 THEN "required" ELSE "none"]
           pooled == [options EXCEPT !.vkey = @ \/ FALSE]
<1>1. VerifiedResult(msg) = "verified"
  BY Zenon DEF Reply
<1>2. VerifyInPool(res.receipt, msg.logic, res.image, options, FALSE)
  BY <1>1, Zenon DEF VerifiedResult
<1>3. pooled.output = res.output /\ VerifyZkReceipt(res.receipt, msg.logic, res.image, pooled)
  BY <1>2 DEF VerifyInPool
<1> HIDE DEF pooled
<1>4. /\ res.receipt.logic = msg.logic
      /\ res.output = NoValue \/ res.receipt.output = Expected(msg.logic, res.output)
  BY <1>3, Accepted
<1> QED
  BY <1>4 DEF Expected

LEMMA LabelHolds ==
  ASSUME LabelIsEarned, BridgeNext \/ UNCHANGED bridgeVars
  PROVE  LabelIsEarned'
<1>1. ASSUME NEW msg, answer' = <<msg, Reply(msg)>>
      PROVE  LabelIsEarned'
  BY <1>1, LabelEarned DEF LabelIsEarned
<1>2. ASSUME UNCHANGED answer
      PROVE  LabelIsEarned'
  BY <1>2 DEF LabelIsEarned
<1>3. UNCHANGED answer \/ \E msg \in Messages : answer' = <<msg, Reply(msg)>>
  BY DEF BridgeNext, Serve, Continue, Stateless, Arrive, Route, Delete, DeleteRefused, SessionInitialized, Deleted, ListeningEnds,
         Respond, EvictIdleSessions, Tick, Stop, StopReleases, StopCloses, bridgeVars
<1> QED
  BY <1>1, <1>2, <1>3

(* What the client reports verified, what it gives up for want of a token  *)
(* and what the bridge labels verified are justified, whatever answers     *)
(* arrive and whoever's token expires.                                     *)
THEOREM OutcomesJustified == MCSpec => []OutcomesAreJustified
<1> DEFINE Both == ClientInv /\ LabelIsEarned
<1>1. MCInit => Both
  <2>1. Start => LabelIsEarned
    BY DEF Start, LabelIsEarned
  <2> QED
    BY <2>1, InitClientInv DEF MCInit
<1>2. Both /\ [MCNext]_<<part, vars, bridgeVars>> => Both'
  <2>1. ASSUME Both, [MCNext]_<<part, vars, bridgeVars>>
        PROVE  /\ Next \/ UNCHANGED vars
               /\ BridgeNext \/ UNCHANGED bridgeVars
    BY <2>1 DEF MCNext
  <2> QED
    BY <2>1, ClientStep, LabelHolds
<1>3. Both => OutcomesAreJustified
  BY ClientMeans DEF OutcomesAreJustified
<1> QED
  BY <1>1, <1>2, <1>3, PTL DEF MCSpec

==============================================================================
