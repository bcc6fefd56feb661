------------------------ MODULE LogicOnOrigin_proofs ------------------------
(***************************************************************************)
(* Proofs about the gRPC service for every number of tokens, intents and   *)
(* calls, whatever they send, every configuration, every size of the       *)
(* worker pool and its queue, every session lifetime and any number of     *)
(* failing appends.                                                        *)
(***************************************************************************)
EXTENDS LogicOnOrigin, TLAPS

(* The pool's queue holds calls that wait in it, each of them once.        *)
QueueInv ==
    \A m, n \in 1 .. Len(queue) : /\ pc[queue[m]] = "queued"
                                  /\ queue[m] = queue[n] => m = n

(* A live session carries the token its intent presented, and that intent  *)
(* is over: its token can no longer change under the session.              *)
SessionInv ==
    \A i \in Intents : sessions[i].live =>
        /\ negotiation[i] = "accepted"
        /\ auth # "none" => sessions[i].token = intentToken[i]

(* What an unanswered call has been checked for by the time it is at an    *)
(* await.  Neither its token nor its session's was revoked when it came.   *)
EntitledInv ==
    \A c \in Calls :
        /\ deniedAtStart[c] \subseteq revoked
        /\ pc[c] \in {"validate", "decapsulate", "queued", "running", "proxy", "scan"} =>
             /\ call[c].session \in Intents
             /\ auth # "none" => call[c].token \notin deniedAtStart[c]
        /\ pc[c] \in {"decapsulate", "queued", "running", "proxy", "scan"} =>
             /\ negotiation[call[c].session] = "accepted"
             /\ auth # "none" => intentToken[call[c].session] \notin deniedAtStart[c]

(* A call that has not ended has neither an answer nor an audit entry.     *)
OpenInv ==
    \A c \in Calls : pc[c] \notin {"answered", "lost"} => answer[c] = "none" /\ audit[c] = << >>

(* The proof mode was enforced before the output policy is looked at.      *)
ProofInv ==
    \A c \in Calls : (pc[c] \in {"proxy", "scan"} /\ call[c].mode = "blocking")
                       => call[c].proof = "native"

IInv ==
    /\ TypeOK /\ QueueInv /\ SessionInv /\ EntitledInv
    /\ OpenInv /\ ProofInv /\ ReleasedIsRecorded /\ BlockingHasProof
-----------------------------------------------------------------------------
LEMMA InitIInv == Init => IInv
  BY ServiceAssumption
     DEF Init, IInv, TypeOK, QueueInv, SessionInv, EntitledInv, OpenInv, ProofInv,
         ReleasedIsRecorded, BlockingHasProof, NoSession, NoCall, Modes

(* Steps of a negotiation leave the calls alone.                           *)
LEMMA NegotiationStep ==
  ASSUME IInv, NEW i \in Intents,
         \/ \E t \in Tokens \cup {NoToken} : Negotiate(i, t)
         \/ ValidateIntent(i) \/ CreateSession(i) \/ KeygenFails(i)
  PROVE  IInv'
  <1> USE ServiceAssumption
  <1>1. UNCHANGED << auth, clock, queue, revoked, pc, call, answer, audit, auditFaults, deniedAtStart >>
    BY DEF Negotiate, ValidateIntent, CreateSession, KeygenFails
  <1> DEFINE Keeps ==
        /\ TypeOK'
        /\ \A j \in Intents : negotiation[j] = "accepted" =>
             negotiation'[j] = "accepted" /\ intentToken'[j] = intentToken[j]
        /\ SessionInv'
  <1>2. Keeps
    <2>1. ASSUME NEW t \in Tokens \cup {NoToken}, Negotiate(i, t)
          PROVE  Keeps
      <3>1. (negotiation \in [Intents -> {"idle", "validate", "keygen", "accepted", "refused", "lost"}])'
        BY <2>1 DEF IInv, TypeOK, Negotiate, Admission
      <3> QED BY <1>1, <2>1, <3>1 DEF IInv, TypeOK, SessionInv, Negotiate
    <2>2. CASE ValidateIntent(i) \/ KeygenFails(i)
      <3>1. \E r \in {"keygen", "refused", "lost"} : negotiation' = [negotiation EXCEPT ![i] = r]
        BY <2>2 DEF ValidateIntent, KeygenFails
      <3> QED BY <1>1, <2>2, <3>1 DEF IInv, TypeOK, SessionInv, ValidateIntent, KeygenFails
    <2>3. CASE CreateSession(i)
      <3>1. (sessions \in [Intents -> [token : Tokens \cup {NoToken}, createdAt : Nat, live : BOOLEAN]])'
        BY <2>3 DEF IInv, TypeOK, CreateSession
      <3>2. SessionInv'
        BY <1>1, <2>3 DEF IInv, TypeOK, SessionInv, CreateSession
      <3> QED BY <1>1, <2>3, <3>1, <3>2 DEF IInv, TypeOK, CreateSession
    <2> QED BY <2>1, <2>2, <2>3
  <1>3. QueueInv' /\ OpenInv' /\ ProofInv' /\ ReleasedIsRecorded' /\ BlockingHasProof'
    BY <1>1 DEF IInv, QueueInv, OpenInv, ProofInv, ReleasedIsRecorded, BlockingHasProof
  <1>4. EntitledInv'
    BY <1>1, <1>2 DEF IInv, EntitledInv
  <1> QED BY <1>2, <1>3, <1>4 DEF IInv

(* A step of a call that does not wait in the queue leaves those that do.  *)
LEMMA WaitingKeep ==
  ASSUME IInv, UNCHANGED queue, NEW c \in Calls, pc[c] # "queued",
         NEW p, pc' = [pc EXCEPT ![c] = p]
  PROVE  QueueInv'
  <1>1. \A m \in 1 .. Len(queue) : queue[m] \in Calls
    BY DEF IInv, TypeOK
  <1>2. \A d \in Calls : pc[d] = "queued" => pc'[d] = "queued"
    BY DEF IInv, TypeOK
  <1> QED BY <1>1, <1>2 DEF IInv, QueueInv

(* A call that is refused ends with an error and without an audit entry.   *)
LEMMA RefuseStep ==
  ASSUME IInv, NEW c \in Calls, Refuse(c), pc[c] \in {"idle", "validate"},
         UNCHANGED << auth, queue, clock, revoked, negotiation, intentToken, audit, auditFaults >>,
         deniedAtStart' \in {deniedAtStart, [deniedAtStart EXCEPT ![c] = revoked]},
         \/ UNCHANGED sessions
         \/ \E i \in Intents : sessions' = [sessions EXCEPT ![i] = NoSession]
  PROVE  IInv'
  <1> USE ServiceAssumption DEF IInv
  <1>1. TypeOK'
    <2>1. (call \in [Calls -> [token : Tokens \cup {NoToken}, session : Intents \cup {"none"},
                              createdAt : Nat, mode : Modes,
                              proof : {"none", "hmac", "native", "placeholder"}]])'
      BY DEF TypeOK, Refuse, NoCall, Modes
    <2>2. (sessions \in [Intents -> [token : Tokens \cup {NoToken}, createdAt : Nat, live : BOOLEAN]])'
      <3>1. NoSession \in [token : Tokens \cup {NoToken}, createdAt : Nat, live : BOOLEAN]
        BY DEF NoSession
      <3> QED BY <3>1 DEF TypeOK
    <2>3. (deniedAtStart \in [Calls -> SUBSET Tokens])'
      BY DEF TypeOK
    <2>4. /\ (pc \in [Calls -> {"idle", "validate", "decapsulate", "queued", "running", "proxy",
                               "scan", "answered", "lost"}])'
          /\ (answer \in [Calls -> {"none", "error", "rejected", "blocked", "success"}])'
      BY DEF TypeOK, Refuse, Respond
    <2> QED BY <2>1, <2>2, <2>3, <2>4 DEF TypeOK
  <1>2. QueueInv'
    BY WaitingKeep DEF Refuse, Respond
  <1>3. SessionInv'
    <2>1. \A i \in Intents : sessions'[i] = sessions[i] \/ ~sessions'[i].live
      BY DEF TypeOK, NoSession
    <2> QED BY <2>1 DEF SessionInv
  <1>4. EntitledInv'
    BY DEF TypeOK, EntitledInv, Refuse, Respond
  <1>5. OpenInv' /\ ProofInv' /\ BlockingHasProof'
    BY DEF TypeOK, OpenInv, ProofInv, BlockingHasProof, Refuse, Respond
  <1>6. ReleasedIsRecorded'
    BY DEF TypeOK, OpenInv, ReleasedIsRecorded, Refuse, Respond
  <1> QED BY <1>1, <1>2, <1>3, <1>4, <1>5, <1>6

(* A call goes on to its next await before any logic runs.                 *)
LEMMA ProceedStep ==
  ASSUME IInv, NEW c \in Calls, pc[c] \in {"idle", "validate"},
         NEW k \in [token : Tokens \cup {NoToken}, session : Intents, createdAt : Nat, mode : Modes,
                    proof : {"none", "hmac", "native", "placeholder"}],
         Proceed(c, k),
         UNCHANGED << auth, queue, clock, revoked, negotiation, intentToken, audit, auditFaults >>,
         deniedAtStart' \in {deniedAtStart, [deniedAtStart EXCEPT ![c] = revoked]},
         auth # "none" => k.token \notin deniedAtStart'[c]
  PROVE  IInv'
  <1> USE ServiceAssumption DEF IInv
  <1>1. CASE Refuse(c)
    BY <1>1, RefuseStep DEF Proceed
  <1>2. CASE ~Refuse(c)
    <2> DEFINE s == sessions[k.session]
    <2>1. /\ s.live /\ s.token \notin revoked
          /\ call' = [call EXCEPT ![c] = [k EXCEPT !.createdAt = s.createdAt]]
          /\ pc' = [pc EXCEPT ![c] = "decapsulate"]
          /\ UNCHANGED << sessions, answer >>
      BY <1>2 DEF Proceed
    <2>2. TypeOK'
      BY <2>1 DEF TypeOK, Modes
    <2>3. QueueInv'
      BY <2>1, WaitingKeep
    <2>4. /\ SessionInv' /\ OpenInv' /\ ProofInv' /\ BlockingHasProof' /\ ReleasedIsRecorded'
      <3>1. SessionInv' /\ ReleasedIsRecorded'
        BY <2>1 DEF SessionInv, ReleasedIsRecorded
      <3>2. OpenInv'
        BY <2>1 DEF TypeOK, OpenInv
      <3>3. \A d \in Calls \ {c} : pc'[d] = pc[d] /\ call'[d] = call[d]
        BY <2>1 DEF TypeOK
      <3>4. pc'[c] = "decapsulate" /\ answer[c] = "none"
        BY <2>1 DEF TypeOK, OpenInv
      <3>5. ProofInv' /\ BlockingHasProof'
        BY <2>1, <3>3, <3>4 DEF ProofInv, BlockingHasProof
      <3> QED BY <3>1, <3>2, <3>5
    <2>5. EntitledInv'
      BY <2>1 DEF TypeOK, SessionInv, EntitledInv
    <2> QED BY <2>2, <2>3, <2>4, <2>5
  <1> QED BY <1>1, <1>2

LEMMA ReceiveCallStep ==
  ASSUME IInv, NEW c \in Calls, NEW t \in Tokens \cup {NoToken}, NEW i \in Intents, NEW m \in Modes,
         ReceiveCall(c, t, i, m)
  PROVE  IInv'
  <1> DEFINE k == [NoCall EXCEPT !.token = t, !.session = i, !.mode = m]
  <1> USE ServiceAssumption
  <1>1. /\ k \in [token : Tokens \cup {NoToken}, session : Intents, createdAt : Nat, mode : Modes,
                  proof : {"none", "hmac", "native", "placeholder"}]
        /\ k.token = t /\ k.session = i
    BY DEF NoCall
  <1>2. /\ pc[c] = "idle"
        /\ deniedAtStart' = [deniedAtStart EXCEPT ![c] = revoked]
        /\ UNCHANGED << auth, queue, clock, revoked, negotiation, intentToken, audit, auditFaults >>
    BY DEF ReceiveCall
  <1>3. deniedAtStart'[c] = revoked
    BY <1>2 DEF IInv, TypeOK
  <1>4. CASE Admission(t) = "refused"
    BY <1>2, <1>4, RefuseStep DEF ReceiveCall
  <1>5. CASE Admission(t) = "validate"
    <2>1. /\ pc' = [pc EXCEPT ![c] = "validate"]
          /\ call' = [call EXCEPT ![c] = k] /\ UNCHANGED << sessions, answer >>
      BY <1>5 DEF ReceiveCall
    <2>2. auth # "none" => t \notin revoked
      BY <1>5 DEF Admission
    <2> HIDE DEF k
    <2>3. TypeOK'
      BY <1>1, <1>2, <2>1 DEF IInv, TypeOK
    <2>4. QueueInv' /\ SessionInv' /\ ReleasedIsRecorded'
      BY <1>2, <2>1, WaitingKeep DEF IInv, SessionInv, ReleasedIsRecorded
    <2>5. OpenInv' /\ ProofInv' /\ BlockingHasProof'
      BY <1>2, <2>1 DEF IInv, TypeOK, OpenInv, ProofInv, BlockingHasProof
    <2>6. EntitledInv'
      BY <1>1, <1>2, <2>1, <2>2 DEF IInv, TypeOK, EntitledInv
    <2> QED BY <2>3, <2>4, <2>5, <2>6 DEF IInv
  <1>6. CASE Admission(t) = "accepted"
    <2>1. Proceed(c, k)
      BY <1>6 DEF ReceiveCall
    <2>2. auth # "none" => k.token \notin deniedAtStart'[c]
      BY <1>1, <1>3, <1>6 DEF Admission
    <2> HIDE DEF k
    <2> QED BY <1>1, <1>2, <2>1, <2>2, ProceedStep
  <1> QED BY <1>4, <1>5, <1>6 DEF Admission

LEMMA ValidateCallStep ==
  ASSUME IInv, NEW c \in Calls, ValidateCall(c)
  PROVE  IInv'
  <1>1. /\ pc[c] = "validate"
        /\ UNCHANGED << auth, queue, clock, revoked, negotiation, intentToken, audit, auditFaults,
                        deniedAtStart >>
    BY DEF ValidateCall
  <1>2. CASE Refuse(c) /\ UNCHANGED sessions
    BY <1>1, <1>2, RefuseStep
  <1>3. CASE Proceed(c, call[c])
    <2>1. /\ call[c] \in [token : Tokens \cup {NoToken}, session : Intents, createdAt : Nat, mode : Modes,
                          proof : {"none", "hmac", "native", "placeholder"}]
          /\ auth # "none" => call[c].token \notin deniedAtStart'[c]
      BY <1>1 DEF IInv, TypeOK, EntitledInv
    <2> QED BY <1>1, <1>3, <2>1, ProceedStep
  <1> QED BY <1>2, <1>3 DEF ValidateCall
-----------------------------------------------------------------------------
(* A step of a call that has passed its session: the other calls stay as   *)
(* they are, and what the call must have is known of its own row.          *)
Others(c) ==
    \A d \in Calls \ {c} : /\ pc'[d] = pc[d] /\ call'[d] = call[d]
                           /\ answer'[d] = answer[d] /\ audit'[d] = audit[d]

InSession == {"decapsulate", "queued", "running", "proxy", "scan"}

(* The answer and the entries of a call that ends.                         *)
EndsWell(c) ==
    \/ /\ answer'[c] \notin {"success", "blocked"}
       /\ audit'[c] \in {<< >>, << "ERROR" >>} \/ auditFaults' > 0
    \/ answer'[c] = "success" /\ audit'[c] = << "SUCCESS" >>
    \/ answer'[c] = "blocked" /\ audit'[c] = << "BLOCKED_EGRESS" >>

LEMMA CallStep ==
  ASSUME IInv, TypeOK', QueueInv',
         NEW c \in Calls, pc[c] \in InSession, Others(c),
         UNCHANGED << auth, revoked, sessions, negotiation, intentToken, deniedAtStart >>,
         auditFaults <= auditFaults',
         call'[c].token = call[c].token, call'[c].session = call[c].session,
         pc'[c] \in InSession => answer'[c] = "none" /\ audit'[c] = << >>,
         pc'[c] \notin InSession => pc'[c] \in {"answered", "lost"} /\ EndsWell(c),
         ((pc'[c] \in {"proxy", "scan"} \/ answer'[c] = "success") /\ call'[c].mode = "blocking")
           => call'[c].proof = "native"
  PROVE  IInv'
  <1> USE DEF InSession
  <1>1. SessionInv'
    BY DEF IInv, SessionInv
  <1>2. EntitledInv'
    <2>1. \A d \in Calls : call'[d].token = call[d].token /\ call'[d].session = call[d].session
      BY DEF Others
    <2>2. \A d \in Calls : pc'[d] = pc[d] \/ (pc[d] \in InSession /\ pc'[d] # "validate")
      BY DEF Others
    <2> QED BY <2>1, <2>2 DEF IInv, EntitledInv
  <1>3. OpenInv'
    BY DEF IInv, OpenInv, Others
  <1>4. ProofInv' /\ BlockingHasProof'
    BY DEF IInv, ProofInv, BlockingHasProof, Others
  <1>5. ReleasedIsRecorded'
    <2>1. auditFaults \in Nat /\ auditFaults' \in Nat
      BY ServiceAssumption DEF IInv, TypeOK
    <2>2. ASSUME NEW d \in Calls
          PROVE  /\ answer'[d] = "success" => audit'[d] = << "SUCCESS" >>
                 /\ answer'[d] = "blocked" => audit'[d] = << "BLOCKED_EGRESS" >>
                 /\ (auditFaults' = 0 /\ audit'[d] # << >>) =>
                      /\ Len(audit'[d]) = 1
                      /\ audit'[d] = << "SUCCESS" >> <=> answer'[d] = "success"
      <3>1. CASE d # c
        BY <2>1, <3>1 DEF IInv, ReleasedIsRecorded, Others
      <3>2. CASE d = c /\ pc'[c] \in InSession
        BY <3>2
      <3>3. CASE d = c /\ pc'[c] \notin InSession
        <4>1. CASE answer'[c] \notin {"success", "blocked"}
          BY <2>1, <3>3, <4>1 DEF EndsWell
        <4>2. CASE answer'[c] = "success"
          BY <3>3, <4>2 DEF EndsWell
        <4>3. CASE answer'[c] = "blocked"
          <5>1. << "BLOCKED_EGRESS" >>[1] # << "SUCCESS" >>[1] /\ Len(<< "BLOCKED_EGRESS" >>) = 1
            OBVIOUS
          <5>2. << "BLOCKED_EGRESS" >> # << "SUCCESS" >>
            BY <5>1
          <5> QED BY <3>3, <4>3, <5>1, <5>2 DEF EndsWell
        <4> QED BY <4>1, <4>2, <4>3
      <3> QED BY <3>1, <3>2, <3>3
    <2> QED BY <2>2 DEF ReleasedIsRecorded
  <1> QED BY <1>1, <1>2, <1>3, <1>4, <1>5 DEF IInv

(* The outer catch ends the call.                                          *)
LEMMA CatchErrorRow ==
  ASSUME IInv, NEW c \in Calls, NEW a \in Seq({"SUCCESS", "BLOCKED_EGRESS", "ERROR"}),
         NEW f \in auditFaults .. MaxAuditFaults, a = << >> \/ f > 0,
         pc[c] \in InSession, CatchError(c, a, f)
  PROVE  /\ (pc \in [Calls -> {"idle", "validate", "decapsulate", "queued", "running", "proxy",
                               "scan", "answered", "lost"}])'
         /\ (answer \in [Calls -> {"none", "error", "rejected", "blocked", "success"}])'
         /\ (audit \in [Calls -> Seq({"SUCCESS", "BLOCKED_EGRESS", "ERROR"})])'
         /\ auditFaults' \in 0 .. MaxAuditFaults /\ auditFaults <= auditFaults'
         /\ \E p \in {"answered", "lost"} : pc' = [pc EXCEPT ![c] = p]
         /\ pc'[c] \in {"answered", "lost"} /\ answer'[c] # "success" /\ EndsWell(c)
         /\ \A d \in Calls \ {c} : pc'[d] = pc[d] /\ answer'[d] = answer[d] /\ audit'[d] = audit[d]
  <1> USE ServiceAssumption
  <1>1. answer[c] = "none"
    BY DEF IInv, OpenInv, InSession
  <1>2. /\ \E p \in {"answered", "lost"} : pc' = [pc EXCEPT ![c] = p]
        /\ answer' = [answer EXCEPT ![c] = "error"] \/ UNCHANGED answer
        /\ audit' = [audit EXCEPT ![c] = Append(a, "ERROR")]
        /\ auditFaults' \in {f, f + 1} /\ auditFaults' <= MaxAuditFaults
    BY DEF CatchError, Respond, IInv, TypeOK
  <1>3. /\ auditFaults' \in 0 .. MaxAuditFaults /\ auditFaults <= auditFaults' /\ f <= auditFaults'
        /\ auditFaults' \in Nat /\ f \in Nat
    BY <1>2 DEF IInv, TypeOK
  <1>4. /\ (pc \in [Calls -> {"idle", "validate", "decapsulate", "queued", "running", "proxy",
                               "scan", "answered", "lost"}])'
        /\ (answer \in [Calls -> {"none", "error", "rejected", "blocked", "success"}])'
    <2>1. PICK p \in {"answered", "lost"} : pc' = [pc EXCEPT ![c] = p]
      BY <1>2
    <2>2. (answer \in [Calls -> {"none", "error", "rejected", "blocked", "success"}])'
      BY <1>2 DEF IInv, TypeOK
    <2> QED BY <2>1, <2>2 DEF IInv, TypeOK
  <1>5. Append(a, "ERROR") \in Seq({"SUCCESS", "BLOCKED_EGRESS", "ERROR"})
    OBVIOUS
  <1>6. /\ (audit \in [Calls -> Seq({"SUCCESS", "BLOCKED_EGRESS", "ERROR"})])'
        /\ audit'[c] = Append(a, "ERROR")
    BY <1>2, <1>5 DEF IInv, TypeOK
  <1>7. answer'[c] \in {"none", "error"} /\ pc'[c] \in {"answered", "lost"}
    BY <1>1, <1>2 DEF IInv, TypeOK
  <1>8. a = << >> => Append(a, "ERROR") = << "ERROR" >>
    OBVIOUS
  <1>9. EndsWell(c)
    BY <1>3, <1>6, <1>7, <1>8 DEF EndsWell
  <1>10. \A d \in Calls \ {c} : pc'[d] = pc[d] /\ answer'[d] = answer[d] /\ audit'[d] = audit[d]
    BY <1>2 DEF IInv, TypeOK
  <1> QED BY <1>2, <1>3, <1>4, <1>6, <1>7, <1>9, <1>10

(* Types of a step that ends in one of the stages of a call.               *)
CallRecords == [token : Tokens \cup {NoToken}, session : Intents \cup {"none"}, createdAt : Nat,
                mode : Modes, proof : {"none", "hmac", "native", "placeholder"}]

LEMMA RespondRow ==
  ASSUME IInv, NEW c \in Calls, NEW a \in {"error", "rejected", "blocked", "success"}, Respond(c, a)
  PROVE  /\ (pc \in [Calls -> {"idle", "validate", "decapsulate", "queued", "running", "proxy",
                               "scan", "answered", "lost"}])'
         /\ (answer \in [Calls -> {"none", "error", "rejected", "blocked", "success"}])'
         /\ pc' = [pc EXCEPT ![c] = "answered"]
         /\ pc'[c] = "answered" /\ answer'[c] = a
         /\ \A d \in Calls \ {c} : pc'[d] = pc[d] /\ answer'[d] = answer[d]
  BY DEF IInv, TypeOK, Respond

LEMMA EffectiveModeType == \A m \in Modes : EffectiveMode(m) \in Modes
  BY DEF EffectiveMode, Modes

LEMMA DecapsulateStep ==
  ASSUME IInv, NEW c \in Calls, Decapsulate(c)
  PROVE  IInv'
  <1> USE ServiceAssumption
  <1>1. /\ pc[c] = "decapsulate" /\ answer[c] = "none" /\ audit[c] = << >>
        /\ UNCHANGED << auth, clock, revoked, sessions, negotiation, intentToken, deniedAtStart >>
    BY DEF IInv, OpenInv, Decapsulate
  <1>2. auditFaults \in Nat /\ auditFaults \in auditFaults .. MaxAuditFaults
    BY DEF IInv, TypeOK
  <1>3. ASSUME NEW a \in {"error", "rejected"}, Respond(c, a), UNCHANGED << call, queue, audit, auditFaults >>
        PROVE  IInv'
    <2>1. Others(c)
      BY <1>3, RespondRow DEF Others
    <2>2. TypeOK'
      BY <1>1, <1>3, RespondRow DEF IInv, TypeOK
    <2>3. QueueInv'
      BY <1>1, <1>3, RespondRow, WaitingKeep
    <2>4. EndsWell(c) /\ pc'[c] = "answered" /\ answer'[c] # "success"
      BY <1>1, <1>3, RespondRow DEF EndsWell
    <2> QED BY <1>1, <1>2, <1>3, <2>1, <2>2, <2>3, <2>4, CallStep DEF InSession
  <1>4. ASSUME call' = [call EXCEPT ![c].mode = EffectiveMode(@)]
        PROVE  /\ (call \in [Calls -> CallRecords])'
               /\ call'[c].token = call[c].token /\ call'[c].session = call[c].session
               /\ \A d \in Calls \ {c} : call'[d] = call[d]
    <2>1. call \in [Calls -> CallRecords] /\ EffectiveMode(call[c].mode) \in Modes
      BY EffectiveModeType DEF IInv, TypeOK, CallRecords
    <2> QED BY <1>4, <2>1 DEF CallRecords
  <1>5. ASSUME call' = [call EXCEPT ![c].mode = EffectiveMode(@)], Fail(c), UNCHANGED queue
        PROVE  IInv'
    <2>1. CatchError(c, << >>, auditFaults)
      BY <1>1, <1>5 DEF Fail
    <2>2. << >> \in Seq({"SUCCESS", "BLOCKED_EGRESS", "ERROR"}) /\ pc[c] \in InSession
      BY <1>1 DEF InSession
    <2>3. Others(c)
      BY <1>2, <1>4, <1>5, <2>1, <2>2, CatchErrorRow DEF Others
    <2>4. TypeOK'
      BY <1>1, <1>2, <1>4, <1>5, <2>1, <2>2, CatchErrorRow DEF IInv, TypeOK, CallRecords
    <2>5. QueueInv'
      <3>1. PICK p \in {"answered", "lost"} : pc' = [pc EXCEPT ![c] = p]
        BY <1>2, <2>1, <2>2, CatchErrorRow
      <3> QED BY <1>1, <1>5, <3>1, WaitingKeep
    <2>6. EndsWell(c) /\ pc'[c] \in {"answered", "lost"} /\ answer'[c] # "success" /\ auditFaults <= auditFaults'
      BY <1>2, <2>1, <2>2, CatchErrorRow
    <2> QED BY <1>1, <1>4, <1>5, <2>2, <2>3, <2>4, <2>5, <2>6, CallStep DEF InSession
  <1>6. ASSUME call' = [call EXCEPT ![c].mode = EffectiveMode(@)], queue' = Append(queue, c),
               pc' = [pc EXCEPT ![c] = "queued"], UNCHANGED << answer, audit, auditFaults >>
        PROVE  IInv'
    <2>1. Others(c)
      BY <1>4, <1>6 DEF IInv, TypeOK, Others
    <2>2. TypeOK'
      <3>1. queue' \in Seq(Calls)
        BY <1>6 DEF IInv, TypeOK
      <3>2. (pc \in [Calls -> {"idle", "validate", "decapsulate", "queued", "running", "proxy",
                               "scan", "answered", "lost"}])'
        BY <1>6 DEF IInv, TypeOK
      <3> QED BY <1>1, <1>4, <1>6, <3>1, <3>2 DEF IInv, TypeOK, CallRecords
    <2>3. QueueInv'
      <3>1. /\ Len(queue') = Len(queue) + 1 /\ queue'[Len(queue) + 1] = c
            /\ Len(queue) \in Nat
            /\ \A m \in 1 .. Len(queue) : queue'[m] = queue[m] /\ queue[m] \in Calls
        BY <1>6 DEF IInv, TypeOK
      <3>2. \A m \in 1 .. Len(queue) : queue[m] # c
        BY <1>1 DEF IInv, QueueInv
      <3>3. pc'[c] = "queued" /\ \A d \in Calls : pc[d] = "queued" => pc'[d] = "queued"
        BY <1>6 DEF IInv, TypeOK
      <3> QED BY <3>1, <3>2, <3>3 DEF IInv, QueueInv
    <2>4. pc'[c] = "queued"
      BY <1>6 DEF IInv, TypeOK
    <2> QED BY <1>1, <1>2, <1>4, <1>6, <2>1, <2>2, <2>3, <2>4, CallStep DEF InSession
  <1> QED BY <1>3, <1>5, <1>6 DEF Decapsulate

LEMMA WorkerStartStep ==
  ASSUME IInv, NEW c \in Calls, WorkerStart(c)
  PROVE  IInv'
  <1> USE ServiceAssumption
  <1>1. /\ queue \in Seq(Calls) /\ queue # << >> /\ c = queue[1]
        /\ queue' = Tail(queue)
        /\ UNCHANGED << auth, clock, revoked, sessions, negotiation, intentToken, call, deniedAtStart >>
    BY DEF IInv, TypeOK, WorkerStart
  <1>2. pc[c] = "queued" /\ pc[c] \in InSession /\ answer[c] = "none" /\ audit[c] = << >>
    BY <1>1 DEF IInv, QueueInv, OpenInv, InSession
  <1>3. auditFaults \in Nat /\ auditFaults \in auditFaults .. MaxAuditFaults
    BY DEF IInv, TypeOK
  <1>4. ASSUME \A d \in Calls \ {c} : pc'[d] = pc[d]
        PROVE  QueueInv'
    <2>1. /\ Len(queue') = Len(queue) - 1 /\ Len(queue) \in Nat
          /\ \A m \in 1 .. Len(queue') : queue'[m] = queue[m + 1] /\ m + 1 \in 1 .. Len(queue)
      BY <1>1
    <2>2. \A m \in 1 .. Len(queue') : queue'[m] \in Calls \ {c}
      BY <1>1, <2>1 DEF IInv, QueueInv
    <2>3. \A m, n \in 1 .. Len(queue') : queue'[m] = queue'[n] => m = n
      <3>1. \A m, n \in 1 .. Len(queue) : queue[m] = queue[n] => m = n
        BY DEF IInv, QueueInv
      <3>2. ASSUME NEW m \in 1 .. Len(queue'), NEW n \in 1 .. Len(queue'), queue'[m] = queue'[n]
            PROVE  m = n
        <4>1. m + 1 = n + 1
          BY <2>1, <3>1, <3>2
        <4> QED BY <2>1, <4>1
      <3> QED BY <3>2
    <2>4. \A m \in 1 .. Len(queue') : pc'[queue'[m]] = "queued"
      <3>1. \A m \in 1 .. Len(queue) : pc[queue[m]] = "queued"
        BY DEF IInv, QueueInv
      <3>2. ASSUME NEW m \in 1 .. Len(queue')
            PROVE  pc'[queue'[m]] = "queued"
        <4>1. pc[queue'[m]] = "queued"
          BY <2>1, <3>1
        <4> QED BY <1>4, <2>2, <4>1
      <3> QED BY <3>2
    <2> QED BY <2>3, <2>4 DEF QueueInv
  <1>5. CASE Fail(c)
    <2>1. CatchError(c, << >>, auditFaults)
      BY <1>2, <1>5 DEF Fail
    <2>2. << >> \in Seq({"SUCCESS", "BLOCKED_EGRESS", "ERROR"})
      OBVIOUS
    <2>3. Others(c)
      BY <1>1, <1>2, <1>3, <2>1, <2>2, CatchErrorRow DEF Others
    <2>4. TypeOK'
      <3>1. queue' \in Seq(Calls)
        BY <1>1
      <3> QED BY <1>1, <1>2, <1>3, <2>1, <2>2, <3>1, CatchErrorRow DEF IInv, TypeOK
    <2>5. EndsWell(c) /\ pc'[c] \in {"answered", "lost"} /\ answer'[c] # "success" /\ auditFaults <= auditFaults'
      BY <1>2, <1>3, <2>1, <2>2, CatchErrorRow
    <2>6. QueueInv'
      BY <1>4, <2>3 DEF Others
    <2> QED BY <1>1, <1>2, <2>3, <2>4, <2>5, <2>6, CallStep DEF InSession
  <1>6. ASSUME pc' = [pc EXCEPT ![c] = "running"], UNCHANGED << answer, audit, auditFaults >>
        PROVE  IInv'
    <2>1. Others(c)
      BY <1>1, <1>6 DEF IInv, TypeOK, Others
    <2>2. TypeOK'
      <3>1. (pc \in [Calls -> {"idle", "validate", "decapsulate", "queued", "running", "proxy",
                               "scan", "answered", "lost"}])'
        BY <1>6 DEF IInv, TypeOK
      <3> QED BY <1>1, <1>6, <3>1 DEF IInv, TypeOK
    <2>3. pc'[c] = "running"
      BY <1>6 DEF IInv, TypeOK
    <2>4. QueueInv'
      BY <1>4, <2>1 DEF Others
    <2> QED BY <1>1, <1>2, <1>3, <1>6, <2>1, <2>2, <2>3, <2>4, CallStep DEF InSession
  <1> QED BY <1>5, <1>6 DEF WorkerStart

(* In blocking mode the worker ends with a native proof or not at all.     *)
LEMMA ProofsOfMode ==
  ASSUME NEW m \in Modes, NEW proof \in Proofs(m)
  PROVE  proof \in {"hmac", "native", "placeholder"} /\ (m = "blocking" => proof = "native")
  BY DEF Proofs, Modes

(* The catch, from an await at which nothing is queued.                    *)
LEMMA FailStep ==
  ASSUME IInv, NEW c \in Calls, pc[c] \in {"running", "proxy", "scan"},
         NEW a \in Seq({"SUCCESS", "BLOCKED_EGRESS", "ERROR"}),
         NEW f \in auditFaults .. MaxAuditFaults, a = << >> \/ f > 0,
         CatchError(c, a, f),
         UNCHANGED << auth, queue, clock, revoked, sessions, negotiation, intentToken, call, deniedAtStart >>
  PROVE  IInv'
  <1> USE ServiceAssumption
  <1>1. pc[c] \in InSession
    BY DEF InSession
  <1>2. Others(c)
    BY <1>1, CatchErrorRow DEF Others
  <1>3. TypeOK'
    BY <1>1, CatchErrorRow DEF IInv, TypeOK
  <1>4. QueueInv'
    <2>1. PICK p \in {"answered", "lost"} : pc' = [pc EXCEPT ![c] = p]
      BY <1>1, CatchErrorRow
    <2> QED BY <2>1, WaitingKeep
  <1>5. EndsWell(c) /\ pc'[c] \in {"answered", "lost"} /\ answer'[c] # "success" /\ auditFaults <= auditFaults'
    BY <1>1, CatchErrorRow
  <1> QED BY <1>1, <1>2, <1>3, <1>4, <1>5, CallStep DEF InSession

(* A call that ran ends without a result: rejected, or with an error.      *)
LEMMA RejectStep ==
  ASSUME IInv, NEW c \in Calls, pc[c] \in {"running", "proxy"},
         NEW a \in {"error", "rejected"}, Respond(c, a),
         call' \in [Calls -> CallRecords],
         call'[c].token = call[c].token, call'[c].session = call[c].session,
         \A d \in Calls \ {c} : call'[d] = call[d],
         UNCHANGED << auth, queue, clock, revoked, sessions, negotiation, intentToken, audit, auditFaults,
                      deniedAtStart >>
  PROVE  IInv'
  <1> USE ServiceAssumption
  <1>0. auditFaults \in Nat
    BY DEF IInv, TypeOK
  <1>1. pc[c] \in InSession /\ audit[c] = << >>
    BY DEF IInv, OpenInv, InSession
  <1>2. Others(c)
    BY RespondRow DEF Others
  <1>3. TypeOK'
    BY RespondRow DEF IInv, TypeOK, CallRecords
  <1>4. QueueInv'
    BY WaitingKeep DEF Respond
  <1>5. EndsWell(c) /\ pc'[c] = "answered" /\ answer'[c] # "success"
    BY <1>1, RespondRow DEF EndsWell
  <1> QED BY <1>0, <1>1, <1>2, <1>3, <1>4, <1>5, CallStep DEF InSession

(* A call that ran goes on to the proxied tool or to the scan.             *)
LEMMA GoOnStep ==
  ASSUME IInv, NEW c \in Calls, pc[c] \in {"running", "proxy"},
         NEW p \in {"proxy", "scan"}, pc' = [pc EXCEPT ![c] = p],
         call' \in [Calls -> CallRecords],
         call'[c].token = call[c].token, call'[c].session = call[c].session,
         call'[c].mode = "blocking" => call'[c].proof = "native",
         \A d \in Calls \ {c} : call'[d] = call[d],
         UNCHANGED << auth, queue, clock, revoked, sessions, negotiation, intentToken, answer, audit,
                      auditFaults, deniedAtStart >>
  PROVE  IInv'
  <1> USE ServiceAssumption
  <1>0. auditFaults \in Nat
    BY DEF IInv, TypeOK
  <1>1. pc[c] \in InSession /\ answer[c] = "none" /\ audit[c] = << >>
    BY DEF IInv, OpenInv, InSession
  <1>2. /\ (pc \in [Calls -> {"idle", "validate", "decapsulate", "queued", "running", "proxy",
                              "scan", "answered", "lost"}])'
        /\ pc'[c] = p /\ \A d \in Calls \ {c} : pc'[d] = pc[d]
    <2>1. CASE p = "proxy"
      BY <2>1 DEF IInv, TypeOK
    <2>2. CASE p = "scan"
      BY <2>2 DEF IInv, TypeOK
    <2> QED BY <2>1, <2>2
  <1>3. Others(c)
    BY <1>2 DEF Others
  <1>4. TypeOK'
    BY <1>2 DEF IInv, TypeOK, CallRecords
  <1>5. QueueInv'
    BY WaitingKeep
  <1> QED BY <1>0, <1>1, <1>2, <1>3, <1>4, <1>5, CallStep DEF InSession

LEMMA WorkerFinishStep ==
  ASSUME IInv, NEW c \in Calls, WorkerFinish(c)
  PROVE  IInv'
  <1> USE ServiceAssumption
  <1>1. /\ pc[c] = "running" /\ audit[c] = << >>
        /\ UNCHANGED << auth, queue, clock, revoked, sessions, negotiation, intentToken, deniedAtStart >>
    BY DEF IInv, OpenInv, WorkerFinish
  <1>2. CASE Fail(c) /\ UNCHANGED call
    <2>1. /\ << >> \in Seq({"SUCCESS", "BLOCKED_EGRESS", "ERROR"})
          /\ auditFaults \in auditFaults .. MaxAuditFaults
      BY DEF IInv, TypeOK
    <2> QED BY <1>1, <1>2, <2>1, FailStep DEF Fail
  <1>3. ASSUME NEW proof \in Proofs(call[c].mode),
               call' = [call EXCEPT ![c].proof = proof],
               UNCHANGED << audit, auditFaults >>
        PROVE  /\ call' \in [Calls -> CallRecords]
               /\ call'[c].token = call[c].token /\ call'[c].session = call[c].session
               /\ call'[c].mode = "blocking" => call'[c].proof = "native"
               /\ \A d \in Calls \ {c} : call'[d] = call[d]
    <2>1. call \in [Calls -> CallRecords] /\ call[c].mode \in Modes
      BY DEF IInv, TypeOK, CallRecords
    <2>2. proof \in {"hmac", "native", "placeholder"} /\ (call[c].mode = "blocking" => proof = "native")
      BY <1>3, <2>1, ProofsOfMode
    <2> QED BY <1>3, <2>1, <2>2 DEF CallRecords
  <1>4. ASSUME NEW proof \in Proofs(call[c].mode),
               call' = [call EXCEPT ![c].proof = proof],
               UNCHANGED << audit, auditFaults >>,
               \/ Respond(c, "rejected")
               \/ pc' = [pc EXCEPT ![c] = "proxy"] /\ UNCHANGED answer
               \/ OutputPolicy(c)
        PROVE  IInv'
    <2>1. CASE Respond(c, "rejected")
      BY <1>1, <1>3, <1>4, <2>1, RejectStep
    <2>2. CASE (\E p \in {"proxy", "scan"} : pc' = [pc EXCEPT ![c] = p]) /\ UNCHANGED answer
      BY <1>1, <1>3, <1>4, <2>2, GoOnStep
    <2> QED BY <1>4, <2>1, <2>2 DEF OutputPolicy
  <1> QED BY <1>1, <1>2, <1>4 DEF WorkerFinish

LEMMA ProxyReturnsStep ==
  ASSUME IInv, NEW c \in Calls, ProxyReturns(c)
  PROVE  IInv'
  <1>1. /\ pc[c] = "proxy"
        /\ UNCHANGED << auth, queue, clock, revoked, sessions, negotiation, intentToken, call, audit,
                        auditFaults, deniedAtStart >>
    BY DEF ProxyReturns
  <1>2. /\ call' \in [Calls -> CallRecords]
        /\ call'[c].mode = "blocking" => call'[c].proof = "native"
    BY <1>1 DEF IInv, TypeOK, ProofInv, CallRecords
  <1>3. CASE \E a \in {"error", "rejected"} : Respond(c, a)
    BY <1>1, <1>2, <1>3, RejectStep
  <1>4. CASE pc' = [pc EXCEPT ![c] = "scan"] /\ UNCHANGED answer
    BY <1>1, <1>2, <1>4, GoOnStep
  <1> QED BY <1>3, <1>4 DEF ProxyReturns, OutputPolicy

LEMMA ScanStep ==
  ASSUME IInv, NEW c \in Calls, Scan(c)
  PROVE  IInv'
  <1> USE ServiceAssumption
  <1>1. /\ pc[c] = "scan" /\ pc[c] \in InSession /\ audit[c] = << >>
        /\ UNCHANGED << auth, queue, clock, revoked, sessions, negotiation, intentToken, call, deniedAtStart >>
    BY DEF IInv, OpenInv, Scan, InSession
  <1>2. /\ << >> \in Seq({"SUCCESS", "BLOCKED_EGRESS", "ERROR"})
        /\ auditFaults \in Nat /\ auditFaults \in auditFaults .. MaxAuditFaults
    BY DEF IInv, TypeOK
  <1>3. CASE Fail(c)
    BY <1>1, <1>2, <1>3, FailStep DEF Fail
  <1>4. ASSUME NEW status \in {"SUCCESS", "BLOCKED_EGRESS"}, auditFaults < MaxAuditFaults,
               CatchError(c, Append(audit[c], status), auditFaults + 1)
        PROVE  IInv'
    <2>1. /\ Append(audit[c], status) \in Seq({"SUCCESS", "BLOCKED_EGRESS", "ERROR"})
          /\ auditFaults + 1 \in auditFaults .. MaxAuditFaults /\ auditFaults + 1 > 0
      BY <1>1, <1>2, <1>4
    <2> QED BY <1>1, <1>4, <2>1, FailStep
  <1>5. ASSUME NEW status \in {"SUCCESS", "BLOCKED_EGRESS"}, NEW a \in {"blocked", "success"},
               a = "success" <=> status = "SUCCESS",
               audit' = [audit EXCEPT ![c] = Append(@, status)], UNCHANGED auditFaults, Respond(c, a)
        PROVE  IInv'
    <2>1. Append(audit[c], status) = << status >> /\ << status >> \in Seq({"SUCCESS", "BLOCKED_EGRESS", "ERROR"})
      BY <1>1
    <2>2. /\ (audit \in [Calls -> Seq({"SUCCESS", "BLOCKED_EGRESS", "ERROR"})])'
          /\ audit'[c] = << status >> /\ \A d \in Calls \ {c} : audit'[d] = audit[d]
      BY <1>5, <2>1 DEF IInv, TypeOK
    <2>3. Others(c)
      BY <1>1, <1>5, <2>2, RespondRow DEF Others
    <2>4. TypeOK'
      BY <1>1, <1>5, <2>2, RespondRow DEF IInv, TypeOK
    <2>5. QueueInv'
      BY <1>1, <1>5, WaitingKeep DEF Respond
    <2>6. pc'[c] = "answered" /\ EndsWell(c)
      BY <1>5, <2>2, RespondRow DEF EndsWell
    <2>7. call[c].mode = "blocking" => call[c].proof = "native"
      BY <1>1 DEF IInv, ProofInv
    <2> QED BY <1>1, <1>2, <1>5, <2>3, <2>4, <2>5, <2>6, <2>7, CallStep DEF InSession
  <1> QED BY <1>3, <1>4, <1>5 DEF Scan

LEMMA OtherStep ==
  ASSUME IInv, (\E t \in Tokens : RevokeToken(t)) \/ Tick \/ UNCHANGED vars
  PROVE  IInv'
  <1> USE ServiceAssumption
  <1>1. UNCHANGED << auth, queue, sessions, negotiation, intentToken, pc, call, answer, audit, auditFaults,
                     deniedAtStart >>
    BY DEF RevokeToken, Tick, vars
  <1>2. revoked \subseteq revoked' /\ revoked' \subseteq Tokens /\ clock' \in 0 .. MaxClock
    BY DEF IInv, TypeOK, RevokeToken, Tick, vars
  <1>3. TypeOK'
    BY <1>1, <1>2 DEF IInv, TypeOK
  <1>4. QueueInv' /\ SessionInv' /\ OpenInv' /\ ProofInv' /\ ReleasedIsRecorded' /\ BlockingHasProof'
    BY <1>1 DEF IInv, QueueInv, SessionInv, OpenInv, ProofInv, ReleasedIsRecorded, BlockingHasProof
  <1>5. EntitledInv'
    BY <1>1, <1>2 DEF IInv, EntitledInv
  <1> QED BY <1>3, <1>4, <1>5 DEF IInv

(* What a step is, with the ranges of the inputs it takes.                 *)
LEMMA StepCases ==
  ASSUME [Next]_vars
  PROVE  \/ \E i \in Intents : \/ \E t \in Tokens \cup {NoToken} : Negotiate(i, t)
                               \/ ValidateIntent(i) \/ CreateSession(i) \/ KeygenFails(i)
         \/ \E c \in Calls : \/ \E t \in Tokens \cup {NoToken}, i \in Intents, m \in Modes :
                                  ReceiveCall(c, t, i, m)
                             \/ Resume(c)
         \/ (\E t \in Tokens : RevokeToken(t)) \/ Tick \/ UNCHANGED vars
  <1>1. /\ \A i \in Intents : Presents[i] \subseteq Tokens \cup {NoToken}
        /\ \A c \in Calls : \A r \in Requests[c] :
             r.token \in Tokens \cup {NoToken} /\ r.session \in Intents /\ r.mode \in Modes
    BY ServiceAssumption DEF Modes
  <1> QED BY <1>1 DEF Next, Step

LEMMA NextIInv == IInv /\ [Next]_vars => IInv'
  <1> SUFFICES ASSUME IInv, [Next]_vars PROVE IInv'
    OBVIOUS
  <1>1. ASSUME NEW c \in Calls, Resume(c) PROVE IInv'
    BY <1>1, ValidateCallStep, DecapsulateStep, WorkerStartStep, WorkerFinishStep, ProxyReturnsStep, ScanStep
       DEF Resume
  <1> QED BY <1>1, StepCases, NegotiationStep, ReceiveCallStep, OtherStep

LEMMA IInvHolds == Spec => []IInv
  BY InitIInv, NextIInv, PTL DEF Spec
-----------------------------------------------------------------------------
(* Both handlers keep their state well typed.                              *)
THEOREM TypeCorrect == Spec => []TypeOK
  <1>1. IInv => TypeOK
    BY DEF IInv
  <1> QED BY <1>1, IInvHolds, PTL

(* A released or blocked result has its own entry in the audit chain, for  *)
(* any number of concurrent calls and failing appends.                     *)
THEOREM ReleasedIsRecordedHolds == Spec => []ReleasedIsRecorded
  <1>1. IInv => ReleasedIsRecorded
    BY DEF IInv
  <1> QED BY <1>1, IInvHolds, PTL

(* In blocking mode nothing is released without a native proof.            *)
THEOREM BlockingHasProofHolds == Spec => []BlockingHasProof
  <1>1. IInv => BlockingHasProof
    BY DEF IInv
  <1> QED BY <1>1, IInvHolds, PTL

(* Logic starts only within the lifetime of its session.                   *)
LEMMA StartsFresh ==
  ASSUME IInv, [Next]_vars, NEW c \in Calls, pc[c] # "running", pc'[c] = "running"
  PROVE  clock - call[c].createdAt <= TTL
  <1> USE ServiceAssumption
  <1>1. pc \in [Calls -> {"idle", "validate", "decapsulate", "queued", "running", "proxy", "scan",
                          "answered", "lost"}]
    BY DEF IInv, TypeOK
  <1>2. clock \in Nat /\ call[c].createdAt \in Nat
    BY DEF IInv, TypeOK
  <1>3. ASSUME NEW d \in Calls, WorkerStart(d)
        PROVE  clock - call[c].createdAt <= TTL
    <2>1. d = c /\ ~Expired(call[c].createdAt)
      BY <1>1, <1>3 DEF WorkerStart, Fail, CatchError, Respond
    <2> QED BY <1>2, <2>1 DEF Expired
  <1>4. ASSUME NEW d \in Calls, NEW p, p # "running", pc' = [pc EXCEPT ![d] = p]
        PROVE  FALSE
    BY <1>1, <1>4
  <1>5. UNCHANGED pc => FALSE
    OBVIOUS
  <1>6. ASSUME NEW d \in Calls,
               \/ \E t \in Tokens \cup {NoToken}, i \in Intents, m \in Modes : ReceiveCall(d, t, i, m)
               \/ ValidateCall(d)
        PROVE  FALSE
    <2>1. \E p \in {"answered", "validate", "decapsulate"} : pc' = [pc EXCEPT ![d] = p]
      <3>1. CASE ValidateCall(d)
        BY <3>1 DEF ValidateCall, Proceed, Refuse, Respond
      <3>2. ASSUME NEW t, NEW i, NEW m, ReceiveCall(d, t, i, m)
            PROVE  <2>1
        <4> DEFINE k == [NoCall EXCEPT !.token = t, !.session = i, !.mode = m]
        <4>1. Refuse(d) \/ pc' = [pc EXCEPT ![d] = "validate"] \/ Proceed(d, k)
          BY <3>2 DEF ReceiveCall
        <4> HIDE DEF k
        <4> QED BY <4>1 DEF Proceed, Refuse, Respond
      <3> QED BY <1>6, <3>1, <3>2
    <2> QED BY <1>4, <2>1
  <1>7. ASSUME NEW d \in Calls, Decapsulate(d) \/ WorkerFinish(d) \/ ProxyReturns(d) \/ Scan(d)
        PROVE  FALSE
    <2>1. CASE Decapsulate(d)
      BY <1>4, <2>1 DEF Decapsulate, Fail, CatchError, Respond
    <2>2. CASE WorkerFinish(d) \/ ProxyReturns(d)
      BY <1>4, <2>2 DEF WorkerFinish, ProxyReturns, OutputPolicy, Fail, CatchError, Respond
    <2>3. CASE Scan(d)
      BY <1>4, <2>3 DEF Scan, Fail, CatchError, Respond
    <2> QED BY <1>7, <2>1, <2>2, <2>3
  <1>8. UNCHANGED pc \/ \E d \in Calls :
            \/ \E t \in Tokens \cup {NoToken}, i \in Intents, m \in Modes : ReceiveCall(d, t, i, m)
            \/ Resume(d)
    BY StepCases DEF vars, Negotiate, ValidateIntent, CreateSession, KeygenFails, RevokeToken, Tick
  <1> QED BY <1>3, <1>5, <1>6, <1>7, <1>8 DEF Resume

(* No logic runs in a session negotiated with a token that was revoked     *)
(* before the call came in, none on behalf of such a token, and none past  *)
(* the lifetime of its session, however the handlers interleave.           *)
THEOREM OnlyEntitledLogicRunsHolds == Spec => OnlyEntitledLogicRuns
  <1>1. IInv => TypeOK /\ RevocationIsHonoured
    BY DEF IInv, EntitledInv, RevocationIsHonoured
  <1>2. IInv /\ [Next]_vars =>
          [\A c \in Calls : (pc[c] # "running" /\ pc'[c] = "running")
                              => clock - call[c].createdAt <= TTL]_vars
    BY StartsFresh
  <1> QED BY <1>1, <1>2, IInvHolds, PTL DEF Spec, OnlyEntitledLogicRuns, RunsOnlyFresh
==============================================================================
