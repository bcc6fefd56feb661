--------------------------- MODULE LocalExecution ---------------------------
(***************************************************************************)
(* LiopServer.executeInWorkerPool (server/index.ts): an envelope that came *)
(* through callTool runs in a worker thread (workers/logic-execution.ts),  *)
(* inside a sandbox with a directory and two log files of its own          *)
(* (sandbox/wasi.ts), and its output passes the egress checks, or does not.*)
(*                                                                         *)
(* The data belongs to the server: setSandboxData replaces it at any time. *)
(* A call runs on the data of its beginning; the egress checks, one before *)
(* and one after the PII scan, ask how many records there are by then.     *)
(*                                                                         *)
(* Noise and rounding change the numbers of an output, not its shape, and  *)
(* numbers are not told apart here.                                        *)
(***************************************************************************)
EXTENDS EgressPolicy, FiniteSets

CONSTANTS
    Jobs,
    Policies,    \* Policies[t]: the policy of tool t
    Menus,       \* bounds: the calls to be made, of which tools, what they run ("js",
                 \* "wasm") and produce, and how often the data is replaced
    Sizes,       \* numbers of records
    Threads,     \* maxThreads of the pool
    MaxQueue     \* calls that may wait for a thread

ASSUME ExecutionAssumption ==
    /\ Sizes \subseteq Nat
    /\ {Threads, MaxQueue} \subseteq Nat
    /\ \A t \in DOMAIN Policies : Policies[t].rows \in Nat
    /\ \A m \in DOMAIN Menus :
          Menus[m] \in [calls : SUBSET Jobs, tools : SUBSET DOMAIN Policies,
                        logics : SUBSET {"js", "wasm"}, outputs : SUBSET Values, changes : Nat]

VARIABLES
    records,   \* sandboxRecords.length
    replaced,  \* how often setSandboxData was called
    job,       \* job[c]: a call of executeInWorkerPool
    sandbox,   \* sandbox[c]: what exists of the sandbox of c
    pool,      \* "open" or "closed"
    menu       \* which of the Menus

execVars == <<records, replaced, job, sandbox, pool, menu>>

NoJob == [phase |-> "none"]
NoSandbox == [dir |-> FALSE, handles |-> 0]

InPhase(phases) == {c \in Jobs : job[c].phase \in phases}

\* Phases in which a worker thread is taken.
Working == {"started", "ready", "ran", "proving", "teardown", "hung"}

PolicyOf(c) == Policies[job[c].tool]

Goes(c, phase) == job' = [job EXCEPT ![c].phase = phase]

\* The answer with isError.
Refuses(c) == Goes(c, "refused")

-----------------------------------------------------------------------------
(* The pool.                                                               *)
-----------------------------------------------------------------------------
(* workerPool.run: a closed pool, or one with a full queue, rejects.       *)
ExecuteInWorkerPool(c, t, logic) ==
    /\ c \in Menus[menu].calls
    /\ t \in Menus[menu].tools
    /\ logic \in Menus[menu].logics
    /\ job[c] = NoJob
    /\ LET waits == /\ pool = "open"
                    /\ Cardinality(InPhase({"queued"})) < MaxQueue
       IN job' = [job EXCEPT ![c] =
              [phase |-> IF waits THEN "queued" ELSE "refused", tool |-> t, logic |-> logic,
               n |-> records, at |-> replaced, output |-> Str, proof |-> "hmac"]]
    /\ UNCHANGED <<records, replaced, sandbox, pool, menu>>

(* A thread takes the call; a module is inspected before there is a        *)
(* sandbox (ASTGuardian.analyze).                                          *)
TakeThread(c) ==
    /\ job[c].phase = "queued"
    /\ Cardinality(InPhase(Working)) < Threads
    /\ \/ Goes(c, "started")
       \/ job[c].logic = "wasm" /\ Refuses(c)
    /\ UNCHANGED <<records, replaced, sandbox, pool, menu>>

(* The worker exceeds its heap and is terminated: nobody tears down.       *)
WorkerDies(c) ==
    /\ job[c].phase \in {"ready", "ran", "proving", "hung"}
    /\ Refuses(c)
    /\ sandbox' = [sandbox EXCEPT ![c] = [dir |-> @.dir, handles |-> 0]]
    /\ UNCHANGED <<records, replaced, pool, menu>>

(* Mutant: what waits is forgotten and its promise left open.              *)
CloseForgets ==
    /\ pool = "open"
    /\ pool' = "closed"
    /\ job' = [c \in Jobs |-> IF job[c].phase = "queued"
                               THEN [job[c] EXCEPT !.phase = "lost"] ELSE job[c]]
    /\ UNCHANGED <<records, replaced, sandbox, menu>>

(* close(): what waits is aborted, what runs goes on.                      *)
Close ==
    /\ pool = "open"
    /\ pool' = "closed"
    /\ job' = [c \in Jobs |-> IF job[c].phase = "queued"
                               THEN [job[c] EXCEPT !.phase = "refused"] ELSE job[c]]
    /\ UNCHANGED <<records, replaced, sandbox, menu>>

-----------------------------------------------------------------------------
(* The worker.                                                             *)
-----------------------------------------------------------------------------
(* sandbox.init: mkdir and two fs.open.  It stands before the try, so that *)
(* a failure leaves what was already made.                                 *)
SandboxInit(c) ==
    /\ job[c].phase = "started"
    /\ \/ /\ sandbox' = [sandbox EXCEPT ![c] = [dir |-> TRUE, handles |-> 2]]
          /\ Goes(c, "ready")
       \/ /\ sandbox' \in {[sandbox EXCEPT ![c] = s] :
                              s \in {NoSandbox, [dir |-> TRUE, handles |-> 0], [dir |-> TRUE, handles |-> 1]}}
          /\ Refuses(c)
    /\ UNCHANGED <<records, replaced, pool, menu>>

Returns(c) ==
    \E v \in Menus[menu].outputs : job' = [job EXCEPT ![c].phase = "ran", ![c].output = v]

(* script.runInContext: a value (an exception of the logic is one too), or *)
(* an exception of the host after a syntax error, five seconds or too much *)
(* fuel.                                                                   *)
RunScript(c) ==
    /\ job[c].phase = "ready" /\ job[c].logic = "js"
    /\ Returns(c) \/ Goes(c, "teardown")
    /\ UNCHANGED <<records, replaced, sandbox, pool, menu>>

(* wasi.start: what the module wrote, an exception, or no end at all.      *)
RunModule(c) ==
    /\ job[c].phase = "ready" /\ job[c].logic = "wasm"
    /\ Returns(c) \/ Goes(c, "teardown") \/ Goes(c, "hung")
    /\ UNCHANGED <<records, replaced, sandbox, pool, menu>>

(* With zkMode "required" there is a Groth16 proof or no result at all;    *)
(* "optimistic" takes a placeholder for one.                               *)
Prove(c) ==
    /\ job[c].phase = "ran"
    /\ \/ job' = [job EXCEPT ![c].phase = "proving",
                             ![c].proof = IF PolicyOf(c).zk = "none" THEN "hmac" ELSE "groth16"]
       \/ PolicyOf(c).zk = "required" /\ Goes(c, "teardown")
    /\ UNCHANGED <<records, replaced, sandbox, pool, menu>>

(* finally { sandbox.teardown() }, after a result and after an exception.  *)
Teardown(c) ==
    /\ job[c].phase \in {"proving", "teardown"}
    /\ sandbox' = [sandbox EXCEPT ![c] = NoSandbox]
    /\ Goes(c, IF job[c].phase = "proving" THEN "returned" ELSE "refused")
    /\ UNCHANGED <<records, replaced, pool, menu>>

-----------------------------------------------------------------------------
(* The egress checks.                                                      *)
-----------------------------------------------------------------------------
(* The proof, the output schema and the policy on the unwrapped output.    *)
CheckOutput(c) ==
    /\ job[c].phase = "returned"
    /\ LET blocked == \/ PolicyOf(c).zk = "required" /\ job[c].proof # "groth16"
                      \/ validateOutputPolicy(job[c].output, PolicyOf(c), records)
       IN Goes(c, IF blocked THEN "refused" ELSE "scanning")
    /\ UNCHANGED <<records, replaced, sandbox, pool, menu>>

(* Mutant: the policy is left to the check before the scan.                *)
ScanOnly(c) ==
    /\ job[c].phase = "scanning"
    /\ \E found \in BOOLEAN : Goes(c, IF found THEN "refused" ELSE "released")
    /\ UNCHANGED <<records, replaced, sandbox, pool, menu>>

(* The PII scanner has answered; the policy on the output as it is.        *)
ScanOutput(c) ==
    /\ job[c].phase = "scanning"
    /\ \E found \in BOOLEAN :
          LET blocked == \/ found
                         \/ violatesAggregationFirstPolicy(job[c].output, PolicyOf(c), records)
          IN Goes(c, IF blocked THEN "refused" ELSE "released")
    /\ UNCHANGED <<records, replaced, sandbox, pool, menu>>

SetSandboxData(n) ==
    /\ replaced < Menus[menu].changes
    /\ records' = n
    /\ replaced' = replaced + 1
    /\ UNCHANGED <<job, sandbox, pool, menu>>

-----------------------------------------------------------------------------
ExecInit ==
    /\ records \in Sizes
    /\ replaced = 0
    /\ job = [c \in Jobs |-> NoJob]
    /\ sandbox = [c \in Jobs |-> NoSandbox]
    /\ pool = "open"
    /\ menu \in DOMAIN Menus

Worker(c) == TakeThread(c) \/ SandboxInit(c) \/ RunScript(c) \/ RunModule(c) \/ Prove(c) \/ Teardown(c)

Egress(c) == CheckOutput(c) \/ ScanOutput(c)

ExecNext ==
    \/ \E c \in Jobs, t \in DOMAIN Policies, logic \in {"js", "wasm"} : ExecuteInWorkerPool(c, t, logic)
    \/ \E c \in Jobs : Worker(c) \/ WorkerDies(c) \/ Egress(c)
    \/ \E n \in Sizes : SetSandboxData(n)
    \/ Close

\* Threads and the event loop go on; a module may loop for ever.
ExecFairness == \A c \in Jobs : WF_execVars(Worker(c)) /\ WF_execVars(Egress(c))

ExecSpec == ExecInit /\ [][ExecNext]_execVars /\ ExecFairness

-----------------------------------------------------------------------------
(* Properties.                                                             *)
-----------------------------------------------------------------------------
(* An output that leaves executeInWorkerPool under the aggregation-first   *)
(* policy is aggregated at every depth the policy looks at, for the number *)
(* of records it was computed from: whatever it is wrapped in, and even if *)
(* it looks like an error result, which validateOutputPolicy lets pass.    *)
(* The exception is data replaced while the call was under way.            *)
ReleasedIsAggregated ==
    \A c \in InPhase({"released"}) :
        PolicyOf(c).aggregate /\ job[c].at = replaced
            => Aggregated(job[c].output, PolicyOf(c), job[c].n)

(* Every call is answered, unless a module that never returns holds a      *)
(* thread: nothing limits its time.                                        *)
Hanging == InPhase({"hung"}) # {}
CallsAreAnswered ==
    []<>(Hanging \/ \A c \in Jobs : job[c].phase \in {"none", "refused", "released"})
=============================================================================
