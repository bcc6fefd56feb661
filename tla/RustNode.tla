------------------------------ MODULE RustNode ------------------------------
(***************************************************************************)
(* The Rust data node (servers/liop-node) and its sample client            *)
(* (sdks/rust/crates/client): handshakes limited per agent, one-time       *)
(* sessions with a lifetime, and executions in blocking threads that send  *)
(* their answers through a bounded channel to the response stream.         *)
(*                                                                         *)
(* A handshake makes a key; a payload opens only under the key it was      *)
(* sealed for.  Tokens are random 32-bit numbers and may repeat.  Time is  *)
(* counted in ticks since the event, no further than it matters.  The      *)
(* build is a release build: the sum of a pointer and a length wraps.      *)
(***************************************************************************)
EXTENDS Naturals, Sequences, FiniteSets

CONSTANTS
    Calls,             \* runs of the client
    AgentOf,           \* the agent_did of each
    Modules,           \* what a client injects: see Analyze and Execute
    Tokens,
    MaxRequests,       \* RATE_LIMIT_MAX_REQUESTS
    Window,            \* RATE_LIMIT_WINDOW, in ticks
    Ttl,               \* session_ttl, in ticks
    Capacity           \* of the response channel

ASSUME RustNodeAssumption ==
    /\ {MaxRequests, Window, Ttl, Capacity} \subseteq Nat \ {0}
    /\ Calls \subseteq Nat
    /\ Modules \subseteq [parses : BOOLEAN, bomb : BOOLEAN, imports : SUBSET STRING,
                          events : Nat, ends : {"return", "trap", "fuel"}]

VARIABLES
    sessions,          \* token -> key and age
    rateLimits,        \* agent -> the calls whose handshakes its queue of time stamps holds
    since,             \* ticks since a call's handshake was accepted, if within Window
    call,              \* the client's side of each call
    run,               \* the node's side of each call
    channel            \* the answers under way

rustVars == <<sessions, rateLimits, since, call, run, channel>>

LongAgo == Window + 1    \* or never
Agents == {AgentOf[c] : c \in Calls}
Answers == {"event", "error", "success"}
NoRun == [stage |-> "none", left |-> 0, key |-> 0, age |-> 0, verdict |-> "none"]
Open(c) == call[c].stage = "reading"

(***************************************************************************)
(* Handshake.                                                              *)
(***************************************************************************)
\* Time stamps outside the sliding window are dropped; the oldest is first.
Recent(c) == since[c] <= Window
Purged(a) == {c \in rateLimits[a] : Recent(c)}

Expired(entry) == entry.age > Ttl

\* purge_expired_sessions, then insert: a repeated token replaces the entry.
Enter(t, key) ==
    LET live == {u \in DOMAIN sessions : ~Expired(sessions[u])}
    IN [u \in live \cup {t} |-> IF u = t THEN [key |-> key, age |-> 0] ELSE sessions[u]]

NegotiateIntent(c, t) ==
    /\ call[c].stage = "start"
    /\ LET a == AgentOf[c]
       IN IF Cardinality(Purged(a)) >= MaxRequests
          THEN /\ rateLimits' = [rateLimits EXCEPT ![a] = Purged(a)]
               /\ call' = [call EXCEPT ![c] = [@ EXCEPT !.stage = "failed"]]
               /\ UNCHANGED <<sessions, since>>
          ELSE /\ rateLimits' = [rateLimits EXCEPT ![a] = Purged(a) \cup {c}]
               /\ since' = [since EXCEPT ![c] = 0]
               /\ sessions' = Enter(t, c)
               /\ call' = [call EXCEPT ![c] = [@ EXCEPT !.stage = "negotiated", !.token = t, !.key = c]]
    /\ UNCHANGED <<run, channel>>

\* A request that reaches the node a second time.
Resend(c, d) ==
    /\ call[c].stage = "start" /\ call[d].stage \notin {"start", "failed"}
    /\ call' = [call EXCEPT ![c] = [@ EXCEPT !.stage = "negotiated", !.token = call[d].token, !.key = call[d].key]]
    /\ UNCHANGED <<sessions, rateLimits, since, run, channel>>

(***************************************************************************)
(* Execution.                                                              *)
(***************************************************************************)
Without(t) == [u \in DOMAIN sessions \ {t} |-> sessions[u]]
Found(c) == call[c].token \in DOMAIN sessions
\* The client sealed its module for the key of its own handshake.
Opens(c, entry) == entry.key = call[c].key
Fits(c) == Found(c) /\ LET entry == sessions[call[c].token] IN ~Expired(entry) /\ Opens(c, entry)

(* Mutant: the session is read and stays.                                  *)
ExecuteLogicKeeps(c, m) ==
    /\ call[c].stage = "negotiated"
    /\ IF Fits(c)
       THEN /\ run' = [run EXCEPT ![c] = [NoRun EXCEPT !.stage = "running", !.left = m.events, !.key = call[c].key,
                                                     !.age = sessions[call[c].token].age]]
            /\ call' = [call EXCEPT ![c] = [@ EXCEPT !.stage = "reading", !.module = m]]
       ELSE call' = [call EXCEPT ![c] = [@ EXCEPT !.stage = "failed"]] /\ UNCHANGED run
    /\ UNCHANGED <<sessions, rateLimits, since, channel>>

\* execute_logic removes the session whatever comes of the request: it is unknown,
\* expired, or of another key so that the payload does not open.
ExecuteLogic(c, m) ==
    /\ call[c].stage = "negotiated"
    /\ sessions' = IF Found(c) THEN Without(call[c].token) ELSE sessions
    /\ IF Fits(c)
       THEN /\ run' = [run EXCEPT ![c] = [NoRun EXCEPT !.stage = "running", !.left = m.events, !.key = call[c].key,
                                                     !.age = sessions[call[c].token].age]]
            /\ call' = [call EXCEPT ![c] = [@ EXCEPT !.stage = "reading", !.module = m]]
       ELSE call' = [call EXCEPT ![c] = [@ EXCEPT !.stage = "failed"]] /\ UNCHANGED run
    /\ UNCHANGED <<rateLimits, since, channel>>

\* blocking_send waits for room and gives up, ignored, when the receiver is gone.
CanSend(c) == ~Open(c) \/ Len(channel[c]) < Capacity
Send(c, answer) == channel' = IF Open(c) THEN [channel EXCEPT ![c] = Append(@, answer)] ELSE channel
Runs(c, stage) == run[c].stage = stage /\ CanSend(c)

\* analyze_ast: only WASI and liop imports, and a bounded number of functions.
AnalyzeAst(m) == m.parses /\ m.imports \subseteq {"wasi_snapshot_preview1", "liop"} /\ ~m.bomb

\* The guardian, the compiler or the linker refuses the module.
Refuse(c) ==
    /\ Runs(c, "running") /\ ~AnalyzeAst(call[c].module)
    /\ Send(c, "error")
    /\ run' = [run EXCEPT ![c] = [@ EXCEPT !.stage = "ended", !.verdict = "error"]]
    /\ UNCHANGED <<sessions, rateLimits, since, call>>

\* push_event.
PushEvent(c) ==
    /\ Runs(c, "running") /\ AnalyzeAst(call[c].module) /\ run[c].left > 0
    /\ Send(c, "event")
    /\ run' = [run EXCEPT ![c] = [@ EXCEPT !.left = run[c].left - 1]]
    /\ UNCHANGED <<sessions, rateLimits, since, call>>

Finishing(c) == Runs(c, "running") /\ AnalyzeAst(call[c].module) /\ run[c].left = 0

Trap(c) ==
    /\ Finishing(c) /\ call[c].module.ends = "trap"
    /\ Send(c, "error")
    /\ run' = [run EXCEPT ![c] = [@ EXCEPT !.stage = "ended", !.verdict = "error"]]
    /\ UNCHANGED <<sessions, rateLimits, since, call>>

(* Mutant: the halt is reported by the caller of the executor only.        *)
HaltQuietly(c) ==
    /\ Finishing(c) /\ call[c].module.ends = "fuel"
    /\ run' = [run EXCEPT ![c] = [@ EXCEPT !.stage = "completed", !.verdict = "error"]]
    /\ UNCHANGED <<sessions, rateLimits, since, call, channel>>

\* Out of fuel: an error is sent, and the executor returns as if all were well.
Halt(c) ==
    /\ Finishing(c) /\ call[c].module.ends = "fuel"
    /\ Send(c, "error")
    /\ run' = [run EXCEPT ![c] = [@ EXCEPT !.stage = "completed", !.verdict = "error"]]
    /\ UNCHANGED <<sessions, rateLimits, since, call>>

Complete(c) ==
    /\ Finishing(c) /\ call[c].module.ends = "return"
    /\ run' = [run EXCEPT ![c] = [@ EXCEPT !.stage = "completed", !.verdict = "success"]]
    /\ UNCHANGED <<sessions, rateLimits, since, call, channel>>

(* Mutant: the answer is sent again until somebody takes it.               *)
ProveUntilTaken(c) ==
    /\ Runs(c, "completed") /\ Open(c)
    /\ Send(c, "success")
    /\ run' = [run EXCEPT ![c] = [@ EXCEPT !.stage = "ended"]]
    /\ UNCHANGED <<sessions, rateLimits, since, call>>

\* The receipt, and with it the last answer, which says success.
Prove(c) ==
    /\ Runs(c, "completed")
    /\ Send(c, "success")
    /\ run' = [run EXCEPT ![c] = [@ EXCEPT !.stage = "ended"]]
    /\ UNCHANGED <<sessions, rateLimits, since, call>>

(***************************************************************************)
(* The client's end of the stream.                                         *)
(***************************************************************************)
Receive(c) ==
    /\ Open(c) /\ channel[c] # <<>>
    /\ call' = [call EXCEPT ![c] = [@ EXCEPT !.evidence = Append(call[c].evidence, Head(channel[c]))]]
    /\ channel' = [channel EXCEPT ![c] = Tail(@)]
    /\ UNCHANGED <<sessions, rateLimits, since, run>>

EndOfStream(c) ==
    /\ Open(c) /\ channel[c] = <<>> /\ run[c].stage = "ended"
    /\ call' = [call EXCEPT ![c] = [@ EXCEPT !.stage = "done"]]
    /\ UNCHANGED <<sessions, rateLimits, since, run, channel>>

Disconnect(c) ==
    /\ Open(c)
    /\ call' = [call EXCEPT ![c] = [@ EXCEPT !.stage = "failed"]]
    /\ channel' = [channel EXCEPT ![c] = <<>>]
    /\ UNCHANGED <<sessions, rateLimits, since, run>>

Older(age, limit) == IF age > limit THEN age ELSE age + 1

Tick ==
    /\ (\E t \in DOMAIN sessions : ~Expired(sessions[t])) \/ \E c \in Calls : Recent(c)
    /\ sessions' = [t \in DOMAIN sessions |-> [sessions[t] EXCEPT !.age = Older(sessions[t].age, Ttl)]]
    /\ since' = [c \in Calls |-> Older(since[c], Window)]
    /\ UNCHANGED <<rateLimits, call, run, channel>>

RustInit ==
    /\ sessions = <<>>
    /\ rateLimits = [a \in Agents |-> {}] /\ since = [c \in Calls |-> LongAgo]
    /\ call = [c \in Calls |-> [stage |-> "start", token |-> "none", key |-> 0, module |-> <<>>, evidence |-> <<>>]]
    /\ run = [c \in Calls |-> NoRun]
    /\ channel = [c \in Calls |-> <<>>]

Thread(c) == Refuse(c) \/ PushEvent(c) \/ Trap(c) \/ Halt(c) \/ Complete(c) \/ Prove(c)
Reader(c) == Receive(c) \/ EndOfStream(c) \/ Disconnect(c)

RustNext ==
    \/ \E c \in Calls, t \in Tokens : NegotiateIntent(c, t)
    \/ \E c, d \in Calls : Resend(c, d)
    \/ \E c \in Calls, m \in Modules : ExecuteLogic(c, m)
    \/ \E c \in Calls : Thread(c) \/ Reader(c)
    \/ Tick

\* A thread goes on, within its fuel, whenever it is not blocked, and a client reads
\* on or is found to be gone.
RustFairness == \A c \in Calls : WF_rustVars(Thread(c)) /\ WF_rustVars(Reader(c))

RustSpec == RustInit /\ [][RustNext]_rustVars /\ RustFairness

(***************************************************************************)
(* Properties.                                                             *)
(***************************************************************************)
(* No handshake is good for two executions, however requests repeat and    *)
(* overlap, nor for one after the lifetime of its session, though expired  *)
(* sessions stay in the table until the next handshake.                    *)
SingleUse ==
    \A c \in Calls : run[c].stage # "none" =>
        /\ run[c].age <= Ttl
        /\ \A d \in Calls \ {c} : run[d].stage # "none" => run[d].key # run[c].key

(* No agent completes more than MaxRequests handshakes within any window.  *)
SlidingWindow ==
    \A a \in Agents : Cardinality({c \in Calls : AgentOf[c] = a /\ Recent(c)}) <= MaxRequests

(* Sessions are handed out and used up as the limits say.                  *)
SessionsAreLimited == SingleUse /\ SlidingWindow

\* The answers read before the first verdict are events.
FirstVerdict(s, i) == i \in DOMAIN s /\ s[i] # "event" /\ \A j \in 1 .. i - 1 : s[j] = "event"

(* The first verdict a client reads is what became of the run, and a       *)
(* stream that ends has one: a halt is reported as an error before the     *)
(* closing message that speaks of success.                                 *)
FirstVerdictIsTrue ==
    \A c \in Calls :
        LET read == call[c].evidence
        IN /\ \A i \in DOMAIN read : FirstVerdict(read, i) => read[i] = run[c].verdict
           /\ call[c].stage = "done" => \E i \in DOMAIN read : FirstVerdict(read, i)

(* Every run ends and its thread is given back, also when the channel is   *)
(* full and the client leaves.                                             *)
EveryRunEnds == []<>(\A c \in Calls : run[c].stage \in {"none", "ended"})
=============================================================================
