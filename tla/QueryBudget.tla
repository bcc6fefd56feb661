----------------------------- MODULE QueryBudget -----------------------------
(***************************************************************************)
(* The query budget of LiopServer: how many times a client may touch a     *)
(* field through a tool.  Counts live in a JSON store on disk, shared by   *)
(* every server process configured with the same path and guarded by a     *)
(* lock file, and in a private map of each process that is used when no    *)
(* store is configured or when the store cannot be used.                   *)
(*                                                                         *)
(* A process runs one budget operation at a time (the code is synchronous) *)
(* but every file-system call of it is a step of its own, because other    *)
(* processes run between any two of them.                                  *)
(***************************************************************************)
EXTENDS Naturals, FiniteSets

CONSTANTS
    Procs, Clients, Tools, Fields,   \* server processes, client identities, tools, record fields
    Stores, NoStore,                 \* budget files; NoStore stands for an unset path
    ConfigStore,                     \* config.budgetStorePath
    PolicyStore,                     \* policy.budgetStorePath of each tool
    Sensitivity,                     \* what classifyField answers for a field of a tool
    Override, NoOverride,            \* policy.queryBudgetPerField of each tool
    ForbiddenLimit, SensitiveLimit, PublicLimit,   \* 3, 8 and 25 in the code
    Free,                            \* the lock file does not exist
    MaxRetries,                      \* maxRetries, 100 in the code
    MaxOps, MaxCrashes, MaxFaults    \* bounds: operations started, crashes, I/O errors

ASSUME StoresAssumption ==
    /\ NoStore \notin Stores
    /\ ConfigStore \in Stores \cup {NoStore}
    /\ PolicyStore \in [Tools -> Stores \cup {NoStore}]
    /\ Free \notin Procs

ASSUME LimitsAssumption ==
    /\ Sensitivity \in [Tools \X Fields -> {"forbidden", "sensitive", "public"}]
    /\ NoOverride \notin Nat
    /\ Override \in [Tools -> Nat \cup {NoOverride}]
    /\ ForbiddenLimit \in Nat /\ SensitiveLimit \in Nat /\ PublicLimit \in Nat

ASSUME BoundsAssumption ==
    MaxRetries \in Nat \ {0} /\ MaxOps \in Nat /\ MaxCrashes \in Nat /\ MaxFaults \in Nat

VARIABLES
    store,      \* store[s]: the counts in file s; a missing file is all zeros
    tmp,        \* tmp[s]: what the file s.tmp holds
    lock,       \* lock[s]: the pid written in s.lock, or Free
    mem,        \* mem[p]: fieldQueryBudget of process p
    pc,         \* pc[p]: where p is in its current operation
    op,         \* op[p]: that operation
    snap,       \* snap[p]: the budget object p holds inside the lock
    attempts,   \* attempts[p]: failed attempts to create the lock file
    outcome,    \* outcome[p]: how the locked section of p ended
    started,    \* operations started so far
    crashes,    \* crashes[p]: how often p has crashed and restarted
    faults,     \* I/O errors so far
    lapses,     \* lapses[s]: how often s was unreadable and taken for empty
    granted,    \* granted[x]: queries admitted against a store since the slot's last reset
    fellBack    \* fellBack[p][x]: queries p admitted against its memory since its last reset

vars == << store, tmp, lock, mem, pc, op, snap, attempts, outcome, started,
           crashes, faults, lapses, granted, fellBack >>

(* One counter of a budget: budget[clientId][toolName][field].             *)
Slots == Clients \X Tools \X Fields

SlotsOf(c, T, F) == {c} \X T \X F

Budgets == [Slots -> Nat]

Empty == [x \in Slots |-> 0]

(* The limit of a slot: the tool's override, or the one of its class.      *)
QueryLimit(x) ==
    LET class == Sensitivity[<<x[2], x[3]>>] IN
    IF Override[x[2]] # NoOverride THEN Override[x[2]]
    ELSE IF class = "forbidden" THEN ForbiddenLimit
    ELSE IF class = "sensitive" THEN SensitiveLimit
    ELSE PublicLimit

(* policy?.budgetStorePath || this.config?.budgetStorePath                 *)
StorePath(t) == IF PolicyStore[t] # NoStore THEN PolicyStore[t] ELSE ConfigStore

(* Mutant: the limit is tested with > instead of >=.                       *)
WithinBudgetOffByOne(b, X) == \A x \in X : b[x] <= QueryLimit(x)

WithinBudget(b, X) == \A x \in X : b[x] < QueryLimit(x)

Charge(b, X) == [x \in Slots |-> IF x \in X THEN b[x] + 1 ELSE b[x]]

Clear(b, X) == [x \in Slots |-> IF x \in X THEN 0 ELSE b[x]]

Operations == [kind : {"query", "reset"}, path : Stores, slots : SUBSET Slots]

Idle == [kind |-> "none"]

Locked == {"read", "write", "rename", "unlock"}

Init ==
    /\ store = [s \in Stores |-> Empty]
    /\ tmp = [s \in Stores |-> Empty]
    /\ lock = [s \in Stores |-> Free]
    /\ mem = [p \in Procs |-> Empty]
    /\ pc = [p \in Procs |-> "idle"]
    /\ op = [p \in Procs |-> Idle]
    /\ snap = [p \in Procs |-> Empty]
    /\ attempts = [p \in Procs |-> 0]
    /\ outcome = [p \in Procs |-> "none"]
    /\ started = 0
    /\ crashes = [p \in Procs |-> 0]
    /\ faults = 0
    /\ lapses = [s \in Stores |-> 0]
    /\ granted = Empty
    /\ fellBack = [p \in Procs |-> Empty]

-----------------------------------------------------------------------------
(* applyInMemoryBudget: check every field, then count every field.         *)
ApplyInMemoryBudget(p, X) ==
    IF WithinBudget(mem[p], X)
    THEN /\ mem' = [mem EXCEPT ![p] = Charge(mem[p], X)]
         /\ fellBack' = [fellBack EXCEPT ![p] = Charge(fellBack[p], X)]
    ELSE UNCHANGED << mem, fellBack >>

(* A query of client c on fields F of tool t reaches phase 3 of            *)
(* runPreflightPolicy.  The names that the prototype-pollution guard       *)
(* refuses change no state and are not among Clients and Tools.            *)
StartQuery(p, c, t, F) ==
    LET X == SlotsOf(c, {t}, F) IN
    /\ pc[p] = "idle" /\ started < MaxOps
    /\ started' = started + 1
    /\ IF StorePath(t) # NoStore
       THEN /\ pc' = [pc EXCEPT ![p] = "lock"]
            /\ op' = [op EXCEPT ![p] = [kind |-> "query", path |-> StorePath(t), slots |-> X]]
            /\ attempts' = [attempts EXCEPT ![p] = 0]
            /\ UNCHANGED << mem, fellBack >>
       ELSE /\ ApplyInMemoryBudget(p, X)
            /\ UNCHANGED << pc, op, attempts >>
    /\ UNCHANGED << store, tmp, lock, snap, outcome, crashes, faults, lapses, granted >>

(* resetFieldBudget(c, toolName): T is one tool, or all of them when       *)
(* toolName is omitted.  The memory of this process is cleared before the  *)
(* store named by the configuration is locked.                             *)
StartReset(p, c, T) ==
    LET X == SlotsOf(c, T, Fields) IN
    /\ pc[p] = "idle" /\ started < MaxOps
    /\ started' = started + 1
    /\ mem' = [mem EXCEPT ![p] = Clear(mem[p], X)]
    /\ fellBack' = [fellBack EXCEPT ![p] = Clear(fellBack[p], X)]
    /\ IF ConfigStore # NoStore
       THEN /\ pc' = [pc EXCEPT ![p] = "lock"]
            /\ op' = [op EXCEPT ![p] = [kind |-> "reset", path |-> ConfigStore, slots |-> X]]
            /\ attempts' = [attempts EXCEPT ![p] = 0]
       ELSE UNCHANGED << pc, op, attempts >>
    /\ UNCHANGED << store, tmp, lock, snap, outcome, crashes, faults, lapses, granted >>

(* Mutant: the lock file is written without the "wx" flag.                 *)
AcquireLockShared(p) ==
    /\ pc[p] = "lock"
    /\ lock' = [lock EXCEPT ![op[p].path] = p]
    /\ pc' = [pc EXCEPT ![p] = "read"]
    /\ UNCHANGED << store, tmp, mem, op, snap, attempts, outcome, started, crashes,
                    faults, lapses, granted, fellBack >>

(* writeFileSync(lockPath, pid, {flag: "wx"}) succeeds.                    *)
AcquireLock(p) ==
    /\ pc[p] = "lock" /\ lock[op[p].path] = Free
    /\ lock' = [lock EXCEPT ![op[p].path] = p]
    /\ pc' = [pc EXCEPT ![p] = "read"]
    /\ UNCHANGED << store, tmp, mem, op, snap, attempts, outcome, started, crashes,
                    faults, lapses, granted, fellBack >>

(* Mutant: retry for ever.                                                 *)
LockBusyForever(p) ==
    /\ pc[p] = "lock" /\ lock[op[p].path] # Free
    /\ UNCHANGED vars

(* EEXIST: count the attempt and spin; the last attempt throws "Timeout    *)
(* acquiring lock".                                                        *)
LockBusy(p) ==
    /\ pc[p] = "lock" /\ lock[op[p].path] # Free
    /\ attempts' = [attempts EXCEPT ![p] = @ + 1]
    /\ pc' = [pc EXCEPT ![p] = IF attempts[p] + 1 >= MaxRetries THEN "caught" ELSE "lock"]
    /\ UNCHANGED << store, tmp, lock, mem, op, snap, outcome, started, crashes,
                    faults, lapses, granted, fellBack >>

(* Creating the lock file fails for another reason: the error is rethrown. *)
LockFault(p) ==
    /\ pc[p] = "lock" /\ faults < MaxFaults
    /\ faults' = faults + 1
    /\ pc' = [pc EXCEPT ![p] = "caught"]
    /\ UNCHANGED << store, tmp, lock, mem, op, snap, attempts, outcome, started,
                    crashes, lapses, granted, fellBack >>

(* The callback given to executeWithBudgetLock, run on the budget b that   *)
(* was read: a query within budget and a reset return an updated budget.   *)
RunCallback(p, b) ==
    LET X == op[p].slots IN
    \/ /\ op[p].kind = "query" /\ ~WithinBudget(b, X)
       /\ pc' = [pc EXCEPT ![p] = "unlock"]
       /\ outcome' = [outcome EXCEPT ![p] = "rejected"]
       /\ UNCHANGED snap
    \/ /\ op[p].kind = "query" /\ WithinBudget(b, X)
       /\ pc' = [pc EXCEPT ![p] = "write"]
       /\ snap' = [snap EXCEPT ![p] = Charge(b, X)]
       /\ UNCHANGED outcome
    \/ /\ op[p].kind = "reset"
       /\ pc' = [pc EXCEPT ![p] = "write"]
       /\ snap' = [snap EXCEPT ![p] = Clear(b, X)]
       /\ UNCHANGED outcome

(* getPersistentBudget, then the callback, which makes no file-system call *)
ReadStore(p) ==
    /\ pc[p] = "read"
    /\ RunCallback(p, store[op[p].path])
    /\ UNCHANGED << store, tmp, lock, mem, op, attempts, started, crashes, faults,
                    lapses, granted, fellBack >>

(* getPersistentBudget swallows a read or parse error: the store is taken  *)
(* for an empty one.                                                       *)
ReadFault(p) ==
    /\ pc[p] = "read" /\ faults < MaxFaults
    /\ faults' = faults + 1
    /\ lapses' = [lapses EXCEPT ![op[p].path] = @ + 1]
    /\ RunCallback(p, Empty)
    /\ UNCHANGED << store, tmp, lock, mem, op, attempts, started, crashes, granted, fellBack >>

(* savePersistentBudget, first half: write store.tmp.                      *)
WriteTmp(p) ==
    /\ pc[p] = "write"
    /\ tmp' = [tmp EXCEPT ![op[p].path] = snap[p]]
    /\ snap' = [snap EXCEPT ![p] = Empty]
    /\ pc' = [pc EXCEPT ![p] = "rename"]
    /\ UNCHANGED << store, lock, mem, op, attempts, outcome, started, crashes,
                    faults, lapses, granted, fellBack >>

(* savePersistentBudget, second half: store.tmp replaces the store.        *)
Rename(p) ==
    /\ pc[p] = "rename"
    /\ store' = [store EXCEPT ![op[p].path] = tmp[op[p].path]]
    /\ granted' = IF op[p].kind = "reset"
                  THEN [x \in Slots |-> IF x \in op[p].slots /\ StorePath(x[2]) = op[p].path
                                        THEN 0 ELSE granted[x]]
                  ELSE granted
    /\ pc' = [pc EXCEPT ![p] = "unlock"]
    /\ outcome' = [outcome EXCEPT ![p] = "done"]
    /\ UNCHANGED << tmp, lock, mem, op, snap, attempts, started, crashes, faults,
                    lapses, fellBack >>

(* Writing or renaming throws: the store is as it was; the error goes to   *)
(* the caller once the lock is released.                                   *)
SaveFault(p) ==
    /\ pc[p] \in {"write", "rename"} /\ faults < MaxFaults
    /\ faults' = faults + 1
    /\ pc' = [pc EXCEPT ![p] = "unlock"]
    /\ outcome' = [outcome EXCEPT ![p] = "threw"]
    /\ UNCHANGED << store, tmp, lock, mem, op, snap, attempts, started, crashes,
                    lapses, granted, fellBack >>

(* What the end of the locked section means to its caller: the budget      *)
(* check is answered, or the error is caught.                              *)
Return(p) ==
    /\ pc' = [pc EXCEPT ![p] = IF outcome[p] = "threw" THEN "caught" ELSE "idle"]
    /\ op' = IF outcome[p] = "threw" THEN op ELSE [op EXCEPT ![p] = Idle]
    /\ outcome' = [outcome EXCEPT ![p] = "none"]
    /\ granted' = IF outcome[p] = "done" /\ op[p].kind = "query"
                  THEN Charge(granted, op[p].slots) ELSE granted

(* finally: remove the lock file.                                          *)
ReleaseLock(p) ==
    /\ pc[p] = "unlock"
    /\ lock' = [lock EXCEPT ![op[p].path] = Free]
    /\ Return(p)
    /\ UNCHANGED << store, tmp, mem, snap, attempts, started, crashes, faults,
                    lapses, fellBack >>

(* "Ignore lock removal errors": the lock file stays.                      *)
ReleaseFault(p) ==
    /\ pc[p] = "unlock" /\ faults < MaxFaults
    /\ faults' = faults + 1
    /\ Return(p)
    /\ UNCHANGED << store, tmp, lock, mem, snap, attempts, started, crashes,
                    lapses, fellBack >>

(* The caller's catch: a query falls back to memory; a reset only logs.    *)
HandleError(p) ==
    /\ pc[p] = "caught"
    /\ IF op[p].kind = "query" THEN ApplyInMemoryBudget(p, op[p].slots)
       ELSE UNCHANGED << mem, fellBack >>
    /\ pc' = [pc EXCEPT ![p] = "idle"]
    /\ op' = [op EXCEPT ![p] = Idle]
    /\ UNCHANGED << store, tmp, lock, snap, attempts, outcome, started, crashes,
                    faults, lapses, granted >>

(* The process dies between two file-system calls and is started again:    *)
(* its memory is gone, the files stay, and nothing removes its lock.       *)
Crash(p) ==
    /\ crashes[p] < MaxCrashes
    /\ crashes' = [crashes EXCEPT ![p] = @ + 1]
    /\ mem' = [mem EXCEPT ![p] = Empty]
    /\ pc' = [pc EXCEPT ![p] = "idle"]
    /\ op' = [op EXCEPT ![p] = Idle]
    /\ outcome' = [outcome EXCEPT ![p] = "none"]
    /\ snap' = [snap EXCEPT ![p] = Empty]
    /\ attempts' = [attempts EXCEPT ![p] = 0]
    /\ UNCHANGED << store, tmp, lock, started, faults, lapses, granted, fellBack >>

-----------------------------------------------------------------------------
(* The promise of the budget, with the lock, the temporary file and the    *)
(* retries hidden.                                                         *)
Abstract == INSTANCE AtomicBudget WITH
    shared <- store, private <- mem,
    Limit <- [x \in Slots |-> QueryLimit(x)], MayForget <- MaxFaults > 0

(* What a process does by itself once an operation has started.            *)
Step(p) ==
    \/ AcquireLock(p) \/ LockBusy(p) \/ ReadStore(p) \/ WriteTmp(p)
    \/ Rename(p) \/ ReleaseLock(p) \/ HandleError(p)

Fault(p) == LockFault(p) \/ ReadFault(p) \/ SaveFault(p) \/ ReleaseFault(p)

Start(p) ==
    \/ \E c \in Clients, t \in Tools, F \in SUBSET Fields \ {{}} : StartQuery(p, c, t, F)
    \/ \E c \in Clients, T \in {Tools} \cup {{t} : t \in Tools} : StartReset(p, c, T)

Next == \E p \in Procs : Start(p) \/ Step(p) \/ Fault(p) \/ Crash(p)

(* A synchronous call runs to its end unless the process dies.             *)
Fairness == \A p \in Procs : WF_vars(Step(p))

Spec == Init /\ [][Next]_vars /\ Fairness

-----------------------------------------------------------------------------
(* Types: every file, memory and snapshot is a complete budget, and every  *)
(* process is at a file-system call of the protocol.                       *)
TypeOK ==
    /\ store \in [Stores -> Budgets] /\ tmp \in [Stores -> Budgets]
    /\ lock \in [Stores -> Procs \cup {Free}]
    /\ mem \in [Procs -> Budgets] /\ snap \in [Procs -> Budgets]
    /\ pc \in [Procs -> {"idle", "lock", "caught"} \cup Locked]
    /\ op \in [Procs -> Operations \cup {Idle}]
    /\ attempts \in [Procs -> Nat]
    /\ outcome \in [Procs -> {"none", "rejected", "done", "threw"}]
    /\ started \in Nat /\ faults \in Nat
    /\ crashes \in [Procs -> Nat] /\ lapses \in [Stores -> Nat]
    /\ granted \in Budgets /\ fellBack \in [Procs -> Budgets]

(* executeWithBudgetLock: two processes are never inside the locked        *)
(* section of one store, and the one inside owns the lock file.            *)
MutualExclusion ==
    \A p \in Procs : pc[p] \in Locked => lock[op[p].path] = p

(* The stored counts never exceed the limits, so no interleaving of        *)
(* check and increment by several processes overdraws a store.             *)
StoreWithinLimits ==
    \A s \in Stores : \A x \in Slots : store[s][x] <= QueryLimit(x)

Allowance(x, n) == QueryLimit(x) * n

(* No lost update: every query that runPreflightPolicy let through on the  *)
(* strength of a store is still counted there, up to one allowance for     *)
(* every time the store could not be read.                                 *)
GrantsAreCounted ==
    \A x \in Slots : StorePath(x[2]) # NoStore =>
        granted[x] <= store[StorePath(x[2])][x] + Allowance(x, lapses[StorePath(x[2])])

(* The in-memory fallback gives a client at most one allowance per         *)
(* incarnation of the process.                                             *)
FallbackIsLimited ==
    \A p \in Procs : \A x \in Slots :
        fellBack[p][x] <= Allowance(x, 1 + crashes[p])

KeepsCounts ==
    \A s \in Stores : \A x \in Slots :
        store'[s][x] < store[s][x] =>
          \/ lapses[s] > 0
          \/ \E p \in Procs : op[p].kind = "reset" /\ op[p].path = s /\ x \in op[p].slots

(* A stored count drops only when an administrator resets it or when the   *)
(* store was unreadable: neither a crash nor a racing query loses counts.  *)
CountsDropOnlyByReset == [][KeepsCounts]_vars

(* Locking, reading, writing a temporary file and renaming it implements   *)
(* an atomic check-and-charge: at every moment of every interleaving.      *)
BudgetIsAtomic == Abstract!Spec

(* Every budget operation returns, even behind a lock file that a crashed  *)
(* process left for ever: the retries are bounded.                         *)
OperationsReturn ==
    \A p \in Procs : pc[p] # "idle" ~> pc[p] = "idle"

(* "Enforcement at all times": all processes together admit no more        *)
(* queries on a slot than its limit between two resets.                    *)
AdmittedWithinLimit ==
    \A x \in Slots : \A p \in Procs : granted[x] + fellBack[p][x] <= QueryLimit(x)
==============================================================================
