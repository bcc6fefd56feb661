---------------------------- MODULE Limits_proofs ----------------------------
(***************************************************************************)
(* Proofs about what bounds the queries and the calls of a server: the     *)
(* budget of QueryBudget, for every number of processes, clients, tools,   *)
(* fields and stores, every limit and every retry, crash and fault bound;  *)
(* the sliding windows of ToolCallLimits, for every set of tools, every    *)
(* window, limit and cool-down, and any time between the two checks; and   *)
(* the egress policy of LocalExecution, for outputs of any shape and depth *)
(* and every interleaving of calls with the replacement of the data.       *)
(***************************************************************************)
EXTENDS QueryBudget, ToolCallLimits, LocalExecution, FiniteSetTheorems, WellFoundedInduction, TLAPS

(* What a process is in the middle of is well formed: the operation exists *)
(* and a query's slots are all charged to the store it names.              *)
OperationsInv ==
    \A p \in Procs :
        /\ pc[p] # "idle" => op[p] \in Operations
        /\ (pc[p] # "idle" /\ op[p].kind = "query") =>
             \A x \in op[p].slots : StorePath(x[2]) = op[p].path

(* r is what the callback of p makes of budget b.                          *)
Updates(p, b, r) ==
    \/ op[p].kind = "query" /\ WithinBudget(b, op[p].slots) /\ r = Charge(b, op[p].slots)
    \/ op[p].kind = "reset" /\ r = Clear(b, op[p].slots)

(* r is an update of the store as it is now, or of nothing after a lapse.  *)
Legitimate(p, r) ==
    \/ Updates(p, store[op[p].path], r)
    \/ MaxFaults > 0 /\ lapses[op[p].path] > 0 /\ Updates(p, Empty, r)

(* Installing r as the store of p would keep every grant counted.          *)
KeepsGrants(p, r) ==
    \A x \in Slots : StorePath(x[2]) = op[p].path =>
        /\ x \notin op[p].slots =>
             granted[x] <= r[x] + Allowance(x, lapses[op[p].path])
        /\ (x \in op[p].slots /\ op[p].kind = "query") =>
             granted[x] + 1 <= r[x] + Allowance(x, lapses[op[p].path])

(* The budget a process is about to install.                               *)
Pending(p) ==
    /\ pc[p] = "write" => Legitimate(p, snap[p]) /\ KeepsGrants(p, snap[p])
    /\ pc[p] = "rename" => /\ Legitimate(p, tmp[op[p].path])
                           /\ KeepsGrants(p, tmp[op[p].path])

(* A charged query that has not been answered yet is already counted.      *)
Unanswered(p) ==
    (pc[p] = "unlock" /\ outcome[p] = "done" /\ op[p].kind = "query") =>
        \A x \in op[p].slots :
            granted[x] + 1 <= store[op[p].path][x] + Allowance(x, lapses[op[p].path])

ProgressInv == \A p \in Procs : Pending(p) /\ Unanswered(p)

MemoryInv ==
    \A p \in Procs : \A x \in Slots :
        /\ mem[p][x] <= QueryLimit(x)
        /\ fellBack[p][x] <= mem[p][x] + Allowance(x, crashes[p])

IInv ==
    /\ TypeOK /\ MutualExclusion /\ StoreWithinLimits /\ GrantsAreCounted
    /\ OperationsInv /\ ProgressInv /\ MemoryInv
-----------------------------------------------------------------------------
(* The operators the model is built from return what they should.          *)

(* A slot names a tool and a field, so its limit is a number.              *)
LEMMA LimitIsNat == \A x \in Slots : QueryLimit(x) \in Nat
  BY LimitsAssumption DEF Slots, QueryLimit

LEMMA StorePathType == \A t \in Tools : StorePath(t) \in Stores \cup {NoStore}
  BY StoresAssumption DEF StorePath

LEMMA SlotTool == \A x \in Slots : x[2] \in Tools
  BY DEF Slots

(* The slots of a query and of a reset.                                    *)
LEMMA SlotsOfType ==
  ASSUME NEW c \in Clients, NEW T \in SUBSET Tools, NEW F \in SUBSET Fields
  PROVE  /\ SlotsOf(c, T, F) \subseteq Slots
         /\ \A x \in SlotsOf(c, T, F) : x[2] \in T
  BY DEF Slots, SlotsOf

LEMMA BudgetTypes ==
  ASSUME NEW b \in Budgets, NEW X
  PROVE  /\ Charge(b, X) \in Budgets
         /\ Clear(b, X) \in Budgets
  BY DEF Budgets, Charge, Clear

LEMMA EmptyIsBudget == Empty \in Budgets
  BY DEF Budgets, Empty

(* One more lapse or crash is one more allowance.                          *)
LEMMA AllowanceStep ==
  ASSUME NEW x \in Slots, NEW n \in Nat
  PROVE  /\ Allowance(x, n) \in Nat
         /\ Allowance(x, n + 1) = Allowance(x, n) + QueryLimit(x)
         /\ Allowance(x, 1 + n) = Allowance(x, n) + QueryLimit(x)
         /\ Allowance(x, 0) = 0
  <1>1. QueryLimit(x) \in Nat
    BY LimitIsNat
  <1>2. \A l, k \in Nat : /\ l * k \in Nat /\ l * (k + 1) = l * k + l
                          /\ l * (1 + k) = l * k + l /\ l * 0 = 0
    OBVIOUS
  <1> QED
    BY <1>1, <1>2 DEF Allowance

-----------------------------------------------------------------------------
(* Types, and the shape of the operations in progress.                     *)
WellFormed == TypeOK /\ OperationsInv

LEMMA WellFormedInit == Init => WellFormed
  BY StoresAssumption DEF Init, WellFormed, TypeOK, OperationsInv, Budgets, Empty

LEMMA WellFormedStep == WellFormed /\ [Next]_vars => WellFormed'
  <1> SUFFICES ASSUME WellFormed, [Next]_vars PROVE WellFormed'
    OBVIOUS
  <1> USE DEF WellFormed
  <1>1. ASSUME NEW p \in Procs, NEW c \in Clients, NEW t \in Tools,
               NEW F \in SUBSET Fields, StartQuery(p, c, t, F)
        PROVE  WellFormed'
    <2> DEFINE X == SlotsOf(c, {t}, F)
    <2>1. X \subseteq Slots /\ \A x \in X : x[2] = t
      BY SlotsOfType
    <2>2. CASE StorePath(t) # NoStore
      <3> DEFINE r == [kind |-> "query", path |-> StorePath(t), slots |-> X]
      <3>1. r \in Operations
        BY <2>1, <2>2, StorePathType DEF Operations
      <3>2. /\ pc' = [pc EXCEPT ![p] = "lock"] /\ op' = [op EXCEPT ![p] = r]
            /\ attempts' = [attempts EXCEPT ![p] = 0] /\ started' = started + 1
            /\ UNCHANGED << mem, fellBack, store, tmp, lock, snap, outcome, crashes,
                            faults, lapses, granted >>
        BY <1>1, <2>2 DEF StartQuery
      <3>3. r.kind = "query" /\ r.slots = X /\ r.path = StorePath(t)
        OBVIOUS
      <3> HIDE DEF r
      <3>4. TypeOK'
        BY <3>1, <3>2 DEF TypeOK
      <3>5. OperationsInv'
        BY <2>1, <3>1, <3>2, <3>3 DEF TypeOK, OperationsInv
      <3> QED BY <3>4, <3>5
    <2>3. CASE StorePath(t) = NoStore
      BY <1>1, <2>3, BudgetTypes DEF StartQuery, ApplyInMemoryBudget, TypeOK, OperationsInv
    <2> QED BY <2>2, <2>3
  <1>2. ASSUME NEW p \in Procs, NEW c \in Clients, NEW T \in SUBSET Tools,
               StartReset(p, c, T)
        PROVE  WellFormed'
    <2> DEFINE X == SlotsOf(c, T, Fields)
    <2>1. X \subseteq Slots
      BY SlotsOfType
    <2>2. CASE ConfigStore # NoStore
      <3>1. [kind |-> "reset", path |-> ConfigStore, slots |-> X] \in Operations
        BY <2>1, <2>2, StoresAssumption DEF Operations
      <3>2. TypeOK'
        BY <1>2, <2>2, <3>1, BudgetTypes DEF StartReset, TypeOK
      <3>3. OperationsInv'
        BY <1>2, <2>1, <2>2, <3>1 DEF StartReset, TypeOK, OperationsInv
      <3> QED BY <3>2, <3>3
    <2>3. CASE ConfigStore = NoStore
      BY <1>2, <2>3, BudgetTypes DEF StartReset, TypeOK, OperationsInv
    <2> QED BY <2>2, <2>3
  <1>3. ASSUME NEW p \in Procs, Step(p)
        PROVE  WellFormed'
    <2>1. CASE AcquireLock(p)
      BY <2>1 DEF AcquireLock, TypeOK, OperationsInv, Locked
    <2>2. CASE LockBusy(p)
      BY <2>2 DEF LockBusy, TypeOK, OperationsInv
    <2>3. CASE ReadStore(p)
      BY <2>3, BudgetTypes DEF ReadStore, RunCallback, TypeOK, OperationsInv, Operations, Locked
    <2>4. CASE WriteTmp(p)
      BY <2>4, EmptyIsBudget DEF WriteTmp, TypeOK, OperationsInv, Operations, Locked
    <2>5. CASE Rename(p)
      <3>1. granted' \in Budgets
        BY <2>5 DEF Rename, TypeOK, Budgets
      <3> QED
        BY <2>5, <3>1 DEF Rename, TypeOK, OperationsInv, Operations, Locked
    <2>6. CASE ReleaseLock(p)
      BY <2>6, BudgetTypes DEF ReleaseLock, Return, TypeOK, OperationsInv, Operations
    <2>7. CASE HandleError(p)
      BY <2>7, BudgetTypes DEF HandleError, ApplyInMemoryBudget, TypeOK, OperationsInv
    <2> QED BY <1>3, <2>1, <2>2, <2>3, <2>4, <2>5, <2>6, <2>7 DEF Step
  <1>4. ASSUME NEW p \in Procs, Fault(p)
        PROVE  WellFormed'
    <2>1. CASE LockFault(p)
      BY <2>1 DEF LockFault, TypeOK, OperationsInv
    <2>2. CASE ReadFault(p)
      BY <2>2, BudgetTypes, EmptyIsBudget DEF ReadFault, RunCallback, TypeOK, OperationsInv, Operations, Locked
    <2>3. CASE SaveFault(p)
      BY <2>3 DEF SaveFault, TypeOK, OperationsInv, Locked
    <2>4. CASE ReleaseFault(p)
      BY <2>4, BudgetTypes DEF ReleaseFault, Return, TypeOK, OperationsInv, Operations
    <2> QED BY <1>4, <2>1, <2>2, <2>3, <2>4 DEF Fault
  <1>5. ASSUME NEW p \in Procs, Crash(p)
        PROVE  WellFormed'
    BY <1>5, EmptyIsBudget DEF Crash, TypeOK, OperationsInv
  <1>6. CASE UNCHANGED vars
    BY <1>6 DEF vars, TypeOK, OperationsInv
  <1> QED
    BY <1>1, <1>2, <1>3, <1>4, <1>5, <1>6 DEF Next, Start

(* Every reachable state is well typed, and so are the operations in       *)
(* progress in it.                                                         *)
THEOREM TypeCorrect == Spec => []TypeOK
  <1>1. Spec => []WellFormed
    BY WellFormedInit, WellFormedStep, PTL DEF Spec
  <1>2. WellFormed => TypeOK
    BY DEF WellFormed
  <1> QED BY <1>1, <1>2, PTL
-----------------------------------------------------------------------------
(* The lock.                                                               *)

LEMMA StartTouchesOne ==
  ASSUME WellFormed, NEW p \in Procs, Start(p)
  PROVE  /\ pc[p] = "idle" /\ pc'[p] \in {"idle", "lock"}
         /\ \A q \in Procs \ {p} : pc'[q] = pc[q] /\ op'[q] = op[q]
         /\ UNCHANGED << store, tmp, lock, snap, outcome, lapses, granted >>
  <1>1. ASSUME NEW c \in Clients, NEW t \in Tools, NEW F \in SUBSET Fields,
               StartQuery(p, c, t, F)
        PROVE  /\ pc[p] = "idle" /\ pc'[p] \in {"idle", "lock"}
               /\ \A q \in Procs \ {p} : pc'[q] = pc[q] /\ op'[q] = op[q]
               /\ UNCHANGED << store, tmp, lock, snap, outcome, lapses, granted >>
    <2>1. CASE StorePath(t) # NoStore
      BY <1>1, <2>1 DEF StartQuery, WellFormed, TypeOK
    <2>2. CASE StorePath(t) = NoStore
      BY <1>1, <2>2 DEF StartQuery, WellFormed, TypeOK
    <2> QED BY <2>1, <2>2
  <1>2. ASSUME NEW c \in Clients, NEW T \in SUBSET Tools, StartReset(p, c, T)
        PROVE  /\ pc[p] = "idle" /\ pc'[p] \in {"idle", "lock"}
               /\ \A q \in Procs \ {p} : pc'[q] = pc[q] /\ op'[q] = op[q]
               /\ UNCHANGED << store, tmp, lock, snap, outcome, lapses, granted >>
    <2>1. CASE ConfigStore # NoStore
      BY <1>2, <2>1 DEF StartReset, WellFormed, TypeOK
    <2>2. CASE ConfigStore = NoStore
      BY <1>2, <2>2 DEF StartReset, WellFormed, TypeOK
    <2> QED BY <2>1, <2>2
  <1> QED BY <1>1, <1>2 DEF Start

LEMMA MutexStep == WellFormed /\ MutualExclusion /\ [Next]_vars => MutualExclusion'
  <1> SUFFICES ASSUME WellFormed, MutualExclusion, [Next]_vars PROVE MutualExclusion'
    OBVIOUS
  <1> USE DEF WellFormed, TypeOK, OperationsInv, MutualExclusion, Locked
  <1>1. ASSUME NEW p \in Procs, Start(p) PROVE MutualExclusion'
    <2>1. /\ pc[p] = "idle" /\ pc'[p] \in {"idle", "lock"} /\ lock' = lock
          /\ \A q \in Procs \ {p} : pc'[q] = pc[q] /\ op'[q] = op[q]
      BY <1>1, StartTouchesOne
    <2> QED BY <2>1
  <1>2. ASSUME NEW p \in Procs, Step(p) PROVE MutualExclusion'
    <2>1. CASE AcquireLock(p)
      BY <2>1, StoresAssumption DEF AcquireLock, Operations
    <2>2. CASE LockBusy(p) \/ HandleError(p)
      BY <2>2 DEF LockBusy, HandleError
    <2>3. CASE ReadStore(p)
      BY <2>3 DEF ReadStore, RunCallback
    <2>4. CASE WriteTmp(p) \/ Rename(p)
      BY <2>4 DEF WriteTmp, Rename
    <2>5. CASE ReleaseLock(p)
      BY <2>5 DEF ReleaseLock, Return
    <2> QED BY <1>2, <2>1, <2>2, <2>3, <2>4, <2>5 DEF Step
  <1>3. ASSUME NEW p \in Procs, Fault(p) PROVE MutualExclusion'
    BY <1>3 DEF Fault, LockFault, ReadFault, RunCallback, SaveFault, ReleaseFault, Return
  <1>4. ASSUME NEW p \in Procs, Crash(p) PROVE MutualExclusion'
    BY <1>4 DEF Crash
  <1>5. CASE UNCHANGED vars
    BY <1>5 DEF vars
  <1> QED BY <1>1, <1>2, <1>3, <1>4, <1>5 DEF Next

(* A process inside a locked section is alone on its store.                *)
LEMMA Alone ==
  ASSUME MutualExclusion, NEW p \in Procs, NEW q \in Procs, p # q,
         pc[p] \in Locked, pc[q] \in Locked
  PROVE  op[p].path # op[q].path
  BY DEF MutualExclusion

-----------------------------------------------------------------------------
(* The fallback memory.                                                    *)

LEMMA ApplyInMemoryKeepsMemory ==
  ASSUME WellFormed, MemoryInv, NEW p \in Procs, NEW X, ApplyInMemoryBudget(p, X),
         X \subseteq Slots, crashes' = crashes
  PROVE  MemoryInv'
  <1>1. \A x \in Slots : QueryLimit(x) \in Nat /\ \A n \in Nat : Allowance(x, n) \in Nat
    BY LimitIsNat, AllowanceStep
  <1>2. CASE WithinBudget(mem[p], X)
    <2>1. /\ mem' = [mem EXCEPT ![p] = Charge(mem[p], X)]
          /\ fellBack' = [fellBack EXCEPT ![p] = Charge(fellBack[p], X)]
      BY <1>2 DEF ApplyInMemoryBudget
    <2> QED
      BY <1>1, <1>2, <2>1 DEF WellFormed, TypeOK, Budgets, MemoryInv, WithinBudget, Charge
  <1>3. CASE ~WithinBudget(mem[p], X)
    BY <1>3 DEF ApplyInMemoryBudget, MemoryInv
  <1> QED BY <1>2, <1>3

LEMMA MemoryStep == WellFormed /\ MemoryInv /\ [Next]_vars => MemoryInv'
  <1> SUFFICES ASSUME WellFormed, MemoryInv, [Next]_vars PROVE MemoryInv'
    OBVIOUS
  <1>0. \A x \in Slots : QueryLimit(x) \in Nat /\ \A n \in Nat : Allowance(x, n) \in Nat
    BY LimitIsNat, AllowanceStep
  <1>1. ASSUME NEW p \in Procs, NEW c \in Clients, NEW t \in Tools,
               NEW F \in SUBSET Fields, StartQuery(p, c, t, F)
        PROVE  MemoryInv'
    <2>1. SlotsOf(c, {t}, F) \subseteq Slots
      BY SlotsOfType
    <2>2. CASE StorePath(t) # NoStore
      BY <1>1, <2>2 DEF StartQuery, MemoryInv
    <2>3. CASE StorePath(t) = NoStore
      BY <1>1, <2>1, <2>3, ApplyInMemoryKeepsMemory DEF StartQuery
    <2> QED BY <2>2, <2>3
  <1>2. ASSUME NEW p \in Procs, NEW c \in Clients, NEW T \in SUBSET Tools,
               StartReset(p, c, T)
        PROVE  MemoryInv'
    <2>1. /\ mem' = [mem EXCEPT ![p] = Clear(mem[p], SlotsOf(c, T, Fields))]
          /\ fellBack' = [fellBack EXCEPT ![p] = Clear(fellBack[p], SlotsOf(c, T, Fields))]
          /\ crashes' = crashes
      BY <1>2 DEF StartReset
    <2> QED BY <1>0, <2>1 DEF MemoryInv, WellFormed, TypeOK, Budgets, Clear
  <1>3. ASSUME NEW p \in Procs, Step(p) PROVE MemoryInv'
    <2>1. CASE HandleError(p)
      <3>1. CASE op[p].kind = "query"
        <4>1. op[p].slots \subseteq Slots
          BY <2>1 DEF HandleError, WellFormed, OperationsInv, Operations
        <4> QED BY <2>1, <3>1, <4>1, ApplyInMemoryKeepsMemory DEF HandleError
      <3>2. CASE op[p].kind # "query"
        BY <2>1, <3>2 DEF HandleError, MemoryInv
      <3> QED BY <3>1, <3>2
    <2>2. CASE AcquireLock(p) \/ LockBusy(p) \/ ReadStore(p) \/ WriteTmp(p) \/ Rename(p) \/ ReleaseLock(p)
      BY <2>2 DEF AcquireLock, LockBusy, ReadStore, WriteTmp, Rename, ReleaseLock, MemoryInv
    <2> QED BY <1>3, <2>1, <2>2 DEF Step
  <1>4. ASSUME NEW p \in Procs, Fault(p) PROVE MemoryInv'
    BY <1>4 DEF Fault, LockFault, ReadFault, SaveFault, ReleaseFault, MemoryInv
  <1>5. ASSUME NEW p \in Procs, Crash(p) PROVE MemoryInv'
    <2>1. \A x \in Slots : /\ mem'[p][x] = 0
                            /\ Allowance(x, crashes'[p]) = Allowance(x, crashes[p]) + QueryLimit(x)
      BY <1>5, AllowanceStep DEF Crash, Empty, WellFormed, TypeOK
    <2> QED BY <1>0, <1>5, <2>1 DEF Crash, MemoryInv, WellFormed, TypeOK, Budgets
  <1>6. CASE UNCHANGED vars
    BY <1>6 DEF vars, MemoryInv
  <1> QED BY <1>1, <1>2, <1>3, <1>4, <1>5, <1>6 DEF Next, Start

-----------------------------------------------------------------------------
(* The stores.                                                             *)

(* A budget that a callback produced is within the limits if the one it    *)
(* started from is.                                                        *)
LEMMA UpdatesFit ==
  ASSUME NEW p \in Procs, op[p] \in Operations, NEW b \in Budgets, NEW r,
         \A x \in Slots : b[x] <= QueryLimit(x), Updates(p, b, r)
  PROVE  r \in Budgets /\ \A x \in Slots : r[x] <= QueryLimit(x)
  <1>1. op[p].slots \subseteq Slots
    BY DEF Operations
  <1> QED
    BY <1>1, LimitIsNat DEF Updates, WithinBudget, Charge, Clear, Budgets

LEMMA LegitimateFits ==
  ASSUME WellFormed, StoreWithinLimits, NEW p \in Procs, pc[p] # "idle", NEW r,
         Legitimate(p, r)
  PROVE  r \in Budgets /\ \A x \in Slots : r[x] <= QueryLimit(x)
  <1>1. op[p] \in Operations /\ op[p].path \in Stores
    BY DEF WellFormed, OperationsInv, Operations
  <1>2. /\ store[op[p].path] \in Budgets
        /\ \A x \in Slots : store[op[p].path][x] <= QueryLimit(x)
    BY <1>1 DEF WellFormed, TypeOK, StoreWithinLimits
  <1>3. Empty \in Budgets /\ \A x \in Slots : Empty[x] <= QueryLimit(x)
    BY LimitIsNat DEF Empty, Budgets
  <1> QED
    BY <1>1, <1>2, <1>3, UpdatesFit DEF Legitimate

(* Only a rename changes a store.                                          *)
LEMMA OnlyRenameStores ==
  ASSUME WellFormed, [Next]_vars, \A p \in Procs : ~Rename(p)
  PROVE  UNCHANGED store
  <1>1. ASSUME NEW p \in Procs, Start(p) PROVE UNCHANGED store
    BY <1>1, StartTouchesOne
  <1>2. ASSUME NEW p \in Procs, Step(p) PROVE UNCHANGED store
    BY <1>2 DEF Step, AcquireLock, LockBusy, ReadStore, WriteTmp, ReleaseLock, HandleError
  <1>3. ASSUME NEW p \in Procs, Fault(p) PROVE UNCHANGED store
    BY <1>3 DEF Fault, LockFault, ReadFault, SaveFault, ReleaseFault
  <1>4. ASSUME NEW p \in Procs, Crash(p) PROVE UNCHANGED store
    BY <1>4 DEF Crash
  <1> QED BY <1>1, <1>2, <1>3, <1>4 DEF Next, vars

LEMMA LimitsStep ==
  WellFormed /\ StoreWithinLimits /\ ProgressInv /\ [Next]_vars => StoreWithinLimits'
  <1> SUFFICES ASSUME WellFormed, StoreWithinLimits, ProgressInv, [Next]_vars
               PROVE  StoreWithinLimits'
    OBVIOUS
  <1>1. ASSUME NEW p \in Procs, Rename(p) PROVE StoreWithinLimits'
    <2>1. \A x \in Slots : tmp[op[p].path][x] <= QueryLimit(x)
      BY <1>1, LegitimateFits DEF Rename, ProgressInv, Pending
    <2> QED BY <1>1, <2>1 DEF Rename, StoreWithinLimits, WellFormed, TypeOK
  <1>2. CASE \A p \in Procs : ~Rename(p)
    BY <1>2, OnlyRenameStores DEF StoreWithinLimits
  <1> QED BY <1>1, <1>2

-----------------------------------------------------------------------------
(* The grants.                                                             *)

(* What a process is about to install or to answer stays good as long as   *)
(* nobody touches its store or grants on its slots.                        *)
LEMMA Frame ==
  ASSUME WellFormed, NEW q \in Procs, Pending(q), Unanswered(q),
         pc'[q] = pc[q], op'[q] = op[q],
         pc[q] \in Locked =>
           /\ snap'[q] = snap[q] /\ outcome'[q] = outcome[q]
           /\ store'[op[q].path] = store[op[q].path]
           /\ tmp'[op[q].path] = tmp[op[q].path]
           /\ lapses'[op[q].path] = lapses[op[q].path]
           /\ \A x \in Slots : StorePath(x[2]) = op[q].path => granted'[x] = granted[x]
  PROVE  Pending(q)' /\ Unanswered(q)'
  <1>1. CASE pc[q] \in {"write", "rename"}
    BY <1>1 DEF Pending, Unanswered, Legitimate, Updates, KeepsGrants, Locked
  <1>2. CASE pc[q] = "unlock" /\ op[q].kind = "query"
    <2>1. \A x \in op[q].slots : x \in Slots /\ StorePath(x[2]) = op[q].path
      BY <1>2 DEF WellFormed, OperationsInv, Operations
    <2> QED BY <1>2, <2>1 DEF Pending, Unanswered, Locked
  <1>3. CASE pc[q] \notin {"write", "rename"} /\ ~(pc[q] = "unlock" /\ op[q].kind = "query")
    BY <1>3 DEF Pending, Unanswered
  <1> QED BY <1>1, <1>2, <1>3

(* The same for every process when none of store, snap, tmp, lapses and    *)
(* grants changes, and p does not enter a state with obligations.          *)
LEMMA FrameAll ==
  ASSUME WellFormed, ProgressInv, GrantsAreCounted, NEW p \in Procs,
         \A q \in Procs \ {p} : pc'[q] = pc[q] /\ op'[q] = op[q]
                                /\ (pc[q] \in Locked => snap'[q] = snap[q] /\ outcome'[q] = outcome[q]),
         pc'[p] \in {"idle", "lock", "read", "caught"},
         UNCHANGED << store, tmp, lapses, granted >>
  PROVE  ProgressInv' /\ GrantsAreCounted'
  <1>1. Pending(p)' /\ Unanswered(p)'
    BY DEF Pending, Unanswered
  <1>2. ASSUME NEW q \in Procs, q # p PROVE Pending(q)' /\ Unanswered(q)'
    BY <1>2, Frame DEF ProgressInv
  <1> QED BY <1>1, <1>2 DEF ProgressInv, GrantsAreCounted

(* Reading the store: charging or clearing what was read keeps the grants  *)
(* counted.                                                                *)
LEMMA CallbackKeepsGrants ==
  ASSUME WellFormed, NEW p \in Procs, pc[p] = "read", NEW b \in Budgets,
         NEW n \in Nat, RunCallback(p, b), UNCHANGED << store, op, granted >>,
         lapses'[op[p].path] = n,
         b = store[op[p].path] \/ (b = Empty /\ MaxFaults > 0 /\ n > 0),
         \A x \in Slots : StorePath(x[2]) = op[p].path => granted[x] <= b[x] + Allowance(x, n)
  PROVE  Pending(p)' /\ Unanswered(p)'
  <1>1. op[p] \in Operations /\ op[p].slots \subseteq Slots
    BY DEF WellFormed, OperationsInv, Operations
  <1>2. \A x \in Slots : b[x] \in Nat /\ granted[x] \in Nat /\ Allowance(x, n) \in Nat
    BY AllowanceStep DEF WellFormed, TypeOK, Budgets
  <1>3. CASE op[p].kind = "query" /\ ~WithinBudget(b, op[p].slots)
    <2>1. pc'[p] = "unlock" /\ outcome'[p] = "rejected"
      BY <1>3 DEF RunCallback, WellFormed, TypeOK
    <2> QED BY <2>1 DEF Pending, Unanswered
  <1>4. CASE op[p].kind = "query" /\ WithinBudget(b, op[p].slots)
    <2>1. pc'[p] = "write" /\ snap'[p] = Charge(b, op[p].slots)
      BY <1>4 DEF RunCallback, WellFormed, TypeOK
    <2>2. Legitimate(p, snap[p])'
      BY <1>4, <2>1 DEF Legitimate, Updates
    <2>3. KeepsGrants(p, snap[p])'
      BY <1>1, <1>2, <2>1 DEF KeepsGrants, Charge
    <2> QED BY <2>1, <2>2, <2>3 DEF Pending, Unanswered
  <1>5. CASE op[p].kind = "reset"
    <2>1. pc'[p] = "write" /\ snap'[p] = Clear(b, op[p].slots)
      BY <1>5 DEF RunCallback, WellFormed, TypeOK
    <2>2. Legitimate(p, snap[p])'
      BY <1>5, <2>1 DEF Legitimate, Updates
    <2>3. KeepsGrants(p, snap[p])'
      BY <1>1, <1>2, <1>5, <2>1 DEF KeepsGrants, Clear
    <2> QED BY <2>1, <2>2, <2>3 DEF Pending, Unanswered
  <1> QED BY <1>1, <1>3, <1>4, <1>5 DEF Operations

LEMMA ReadStep ==
  ASSUME WellFormed, MutualExclusion, ProgressInv, GrantsAreCounted, StoreWithinLimits,
         NEW p \in Procs, ReadStore(p) \/ ReadFault(p)
  PROVE  ProgressInv' /\ GrantsAreCounted'
  <1> DEFINE s == op[p].path
  <1>1. s \in Stores /\ pc[p] = "read" /\ lapses[s] \in Nat /\ store[s] \in Budgets
        /\ op[p] \in Operations /\ s # NoStore
    BY StoresAssumption DEF ReadStore, ReadFault, WellFormed, TypeOK, OperationsInv, Operations
  <1>2. /\ \A q \in Procs \ {p} : pc'[q] = pc[q] /\ snap'[q] = snap[q] /\ outcome'[q] = outcome[q]
        /\ UNCHANGED << op, store, tmp, granted >>
    BY DEF ReadStore, ReadFault, RunCallback, WellFormed, TypeOK
  <1>3. \A x \in Slots : /\ granted[x] \in Nat /\ store[s][x] \in Nat
                          /\ QueryLimit(x) \in Nat /\ store[s][x] <= QueryLimit(x)
                          /\ \A n \in Nat : Allowance(x, n) \in Nat
                               /\ Allowance(x, n + 1) = Allowance(x, n) + QueryLimit(x)
    BY <1>1, LimitIsNat, AllowanceStep DEF WellFormed, TypeOK, Budgets, StoreWithinLimits
  <1>4. \A x \in Slots : StorePath(x[2]) = s => granted[x] <= store[s][x] + Allowance(x, lapses[s])
    BY <1>1 DEF GrantsAreCounted
  <1>5. /\ \A t \in Stores : lapses'[t] = lapses[t] \/ lapses'[t] = lapses[t] + 1
        /\ \A t \in Stores \ {s} : lapses'[t] = lapses[t]
    BY <1>1 DEF ReadStore, ReadFault, WellFormed, TypeOK
  <1>6. Pending(p)' /\ Unanswered(p)'
    <2>1. CASE ReadStore(p)
      <3>1. RunCallback(p, store[s]) /\ lapses'[s] = lapses[s]
        BY <2>1 DEF ReadStore
      <3> QED BY <1>1, <1>2, <1>4, <3>1, CallbackKeepsGrants
    <2>2. CASE ReadFault(p)
      <3>1. /\ RunCallback(p, Empty) /\ lapses'[s] = lapses[s] + 1 /\ MaxFaults > 0
        BY <1>1, <2>2, BoundsAssumption DEF ReadFault, WellFormed, TypeOK
      <3>2. \A x \in Slots : StorePath(x[2]) = s =>
               granted[x] <= Empty[x] + Allowance(x, lapses[s] + 1)
        BY <1>1, <1>3, <1>4 DEF Empty
      <3> HIDE DEF s
      <3>3. lapses[s] + 1 \in Nat /\ lapses[s] + 1 > 0 /\ Empty \in Budgets
        BY <1>1, EmptyIsBudget
      <3> QED BY <1>1, <1>2, <3>1, <3>2, <3>3, CallbackKeepsGrants DEF s
    <2> QED BY <2>1, <2>2
  <1>7. ASSUME NEW q \in Procs, q # p PROVE Pending(q)' /\ Unanswered(q)'
    <2>1. pc[q] \in Locked => op[q].path \in Stores \ {s}
      BY <1>1, <1>7, Alone DEF WellFormed, OperationsInv, Operations, Locked
    <2> QED BY <1>2, <1>5, <1>7, <2>1, Frame DEF ProgressInv
  <1>8. GrantsAreCounted'
    <2> SUFFICES ASSUME NEW x \in Slots, StorePath(x[2]) # NoStore
                 PROVE  granted[x] <= store[StorePath(x[2])][x]
                                      + Allowance(x, lapses'[StorePath(x[2])])
      BY <1>2 DEF GrantsAreCounted
    <2>1. /\ StorePath(x[2]) \in Stores
          /\ granted[x] <= store[StorePath(x[2])][x] + Allowance(x, lapses[StorePath(x[2])])
      BY SlotTool, StorePathType DEF GrantsAreCounted
    <2>2. /\ lapses[StorePath(x[2])] \in Nat /\ store[StorePath(x[2])][x] \in Nat
      BY <2>1 DEF WellFormed, TypeOK, Budgets
    <2> QED BY <1>3, <1>5, <2>1, <2>2
  <1> QED BY <1>6, <1>7, <1>8 DEF ProgressInv

LEMMA WriteStep ==
  ASSUME WellFormed, MutualExclusion, ProgressInv, GrantsAreCounted, NEW p \in Procs, WriteTmp(p)
  PROVE  ProgressInv' /\ GrantsAreCounted'
  <1>1. pc[p] = "write" /\ pc'[p] = "rename" /\ op[p].path \in Stores
        /\ tmp'[op[p].path] = snap[p] /\ UNCHANGED << store, lapses, granted, op, outcome >>
    BY DEF WriteTmp, WellFormed, TypeOK, OperationsInv, Operations
  <1>2. Pending(p)' /\ Unanswered(p)'
    BY <1>1 DEF ProgressInv, Pending, Unanswered, Legitimate, Updates, KeepsGrants
  <1>3. ASSUME NEW q \in Procs, q # p PROVE Pending(q)' /\ Unanswered(q)'
    <2>1. pc'[q] = pc[q] /\ snap'[q] = snap[q]
      BY <1>3 DEF WriteTmp, WellFormed, TypeOK
    <2>2. pc[q] \in Locked => tmp'[op[q].path] = tmp[op[q].path]
      BY <1>1, <1>3, Alone DEF WriteTmp, WellFormed, TypeOK, OperationsInv, Operations, Locked
    <2> QED BY <1>1, <1>3, <2>1, <2>2, Frame DEF ProgressInv
  <1> QED BY <1>1, <1>2, <1>3 DEF ProgressInv, GrantsAreCounted

LEMMA RenameStep ==
  ASSUME WellFormed, MutualExclusion, ProgressInv, GrantsAreCounted, NEW p \in Procs, Rename(p)
  PROVE  ProgressInv' /\ GrantsAreCounted'
  <1> DEFINE s == op[p].path
  <1>1. /\ pc[p] = "rename" /\ s \in Stores /\ op[p] \in Operations
        /\ store'[s] = tmp[s] /\ \A t \in Stores \ {s} : store'[t] = store[t]
        /\ pc'[p] = "unlock" /\ UNCHANGED << tmp, lapses, op, snap >>
        /\ \A q \in Procs \ {p} : pc'[q] = pc[q] /\ outcome'[q] = outcome[q]
    BY DEF Rename, WellFormed, TypeOK, OperationsInv, Operations
  <1>2. \A x \in Slots :
          granted'[x] = IF op[p].kind = "reset" /\ x \in op[p].slots /\ StorePath(x[2]) = s
                        THEN 0 ELSE granted[x]
    BY DEF Rename, WellFormed, TypeOK, Budgets
  <1>3. KeepsGrants(p, tmp[s])
    BY <1>1 DEF ProgressInv, Pending
  <1>4. \A x \in Slots : \A t \in Stores : Allowance(x, lapses[t]) \in Nat /\ tmp[t][x] \in Nat
    BY AllowanceStep DEF WellFormed, TypeOK, Budgets
  <1>5. Pending(p)' /\ Unanswered(p)'
    <2>1. ASSUME op[p].kind = "query", NEW x \in op[p].slots
          PROVE  granted[x] + 1 <= tmp[s][x] + Allowance(x, lapses[s]) /\ x \in Slots
      BY <1>1, <1>3, <2>1 DEF KeepsGrants, WellFormed, OperationsInv, Operations
    <2> QED BY <1>1, <1>2, <2>1 DEF Pending, Unanswered
  <1>6. ASSUME NEW q \in Procs, q # p PROVE Pending(q)' /\ Unanswered(q)'
    <2>1. pc[q] \in Locked => op[q].path \in Stores \ {s}
      BY <1>1, <1>6, Alone DEF WellFormed, OperationsInv, Operations, Locked
    <2> QED BY <1>1, <1>2, <1>6, <2>1, Frame DEF ProgressInv
  <1>7. GrantsAreCounted'
    <2> SUFFICES ASSUME NEW x \in Slots, StorePath(x[2]) # NoStore
                 PROVE  granted'[x] <= store'[StorePath(x[2])][x]
                                       + Allowance(x, lapses[StorePath(x[2])])
      BY <1>1 DEF GrantsAreCounted
    <2>1. /\ StorePath(x[2]) \in Stores /\ granted[x] \in Nat
          /\ granted[x] <= store[StorePath(x[2])][x] + Allowance(x, lapses[StorePath(x[2])])
      BY SlotTool, StorePathType DEF GrantsAreCounted, WellFormed, TypeOK, Budgets
    <2>2. CASE StorePath(x[2]) # s
      BY <1>1, <1>2, <2>1, <2>2
    <2>3. CASE StorePath(x[2]) = s /\ op[p].kind = "reset" /\ x \in op[p].slots
      BY <1>1, <1>2, <1>4, <2>3
    <2>4. CASE StorePath(x[2]) = s /\ ~(op[p].kind = "reset" /\ x \in op[p].slots)
      <3>1. granted[x] <= tmp[s][x] + Allowance(x, lapses[s])
        BY <1>1, <1>3, <1>4, <2>1, <2>4 DEF KeepsGrants, Operations
      <3> QED BY <1>1, <1>2, <2>4, <3>1
    <2> QED BY <2>2, <2>3, <2>4
  <1> QED BY <1>5, <1>6, <1>7 DEF ProgressInv

(* A failed save leaves the store and the grants alone.                    *)
LEMMA SaveFaultStep ==
  ASSUME WellFormed, ProgressInv, GrantsAreCounted, NEW p \in Procs, SaveFault(p)
  PROVE  ProgressInv' /\ GrantsAreCounted'
  <1>1. Pending(p)' /\ Unanswered(p)'
    BY DEF SaveFault, WellFormed, TypeOK, Pending, Unanswered
  <1>2. ASSUME NEW q \in Procs, q # p PROVE Pending(q)' /\ Unanswered(q)'
    <2>1. pc'[q] = pc[q] /\ op'[q] = op[q] /\ snap'[q] = snap[q] /\ outcome'[q] = outcome[q]
      BY <1>2 DEF SaveFault, WellFormed, TypeOK
    <2> QED BY <1>2, <2>1, Frame DEF ProgressInv, SaveFault
  <1> QED BY <1>1, <1>2 DEF ProgressInv, GrantsAreCounted, SaveFault

(* Answering a charged query grants what its store already counts.         *)
LEMMA ReturnStep ==
  ASSUME WellFormed, MutualExclusion, ProgressInv, GrantsAreCounted, NEW p \in Procs,
         ReleaseLock(p) \/ ReleaseFault(p)
  PROVE  ProgressInv' /\ GrantsAreCounted'
  <1> DEFINE s == op[p].path
             answered == outcome[p] = "done" /\ op[p].kind = "query"
  <1>1. /\ pc[p] = "unlock" /\ s \in Stores /\ op[p] \in Operations
        /\ pc'[p] \in {"idle", "caught"} /\ UNCHANGED << store, tmp, lapses, snap >>
        /\ \A q \in Procs \ {p} : pc'[q] = pc[q] /\ outcome'[q] = outcome[q] /\ op'[q] = op[q]
    BY DEF ReleaseLock, ReleaseFault, Return, WellFormed, TypeOK, OperationsInv, Operations
  <1>2. \A x \in Slots : granted'[x] = IF answered /\ x \in op[p].slots
                                       THEN granted[x] + 1 ELSE granted[x]
    BY DEF ReleaseLock, ReleaseFault, Return, Charge, WellFormed, TypeOK, Budgets
  <1>3. answered => \A x \in op[p].slots : x \in Slots /\ StorePath(x[2]) = s
    BY <1>1 DEF WellFormed, OperationsInv, Operations
  <1>4. answered => \A x \in op[p].slots :
                      granted[x] + 1 <= store[s][x] + Allowance(x, lapses[s])
    BY <1>1 DEF ProgressInv, Unanswered
  <1> HIDE DEF answered
  <1>5. Pending(p)' /\ Unanswered(p)'
    BY <1>1 DEF Pending, Unanswered
  <1>6. ASSUME NEW q \in Procs, q # p PROVE Pending(q)' /\ Unanswered(q)'
    <2>1. pc[q] \in Locked => op[q].path # s
      BY <1>1, <1>6, Alone DEF Locked
    <2> QED BY <1>1, <1>2, <1>3, <1>6, <2>1, Frame DEF ProgressInv
  <1>7. GrantsAreCounted'
    BY <1>1, <1>2, <1>3, <1>4 DEF GrantsAreCounted
  <1> QED BY <1>5, <1>6, <1>7 DEF ProgressInv

LEMMA GrantsStep ==
  WellFormed /\ MutualExclusion /\ ProgressInv /\ GrantsAreCounted /\ StoreWithinLimits
    /\ [Next]_vars => ProgressInv' /\ GrantsAreCounted'
  <1> SUFFICES ASSUME WellFormed, MutualExclusion, ProgressInv, GrantsAreCounted,
                      StoreWithinLimits, [Next]_vars
               PROVE  ProgressInv' /\ GrantsAreCounted'
    OBVIOUS
  <1>1. ASSUME NEW p \in Procs, Start(p) PROVE ProgressInv' /\ GrantsAreCounted'
    BY <1>1, StartTouchesOne, FrameAll
  <1>2. ASSUME NEW p \in Procs, Step(p) PROVE ProgressInv' /\ GrantsAreCounted'
    <2>1. CASE AcquireLock(p)
      BY <2>1, FrameAll DEF AcquireLock, WellFormed, TypeOK
    <2>2. CASE LockBusy(p)
      BY <2>2, FrameAll DEF LockBusy, WellFormed, TypeOK
    <2>3. CASE HandleError(p)
      BY <2>3, FrameAll DEF HandleError, WellFormed, TypeOK
    <2> QED BY <1>2, <2>1, <2>2, <2>3, ReadStep, WriteStep, RenameStep, ReturnStep DEF Step
  <1>3. ASSUME NEW p \in Procs, Fault(p) PROVE ProgressInv' /\ GrantsAreCounted'
    <2>1. CASE LockFault(p)
      BY <2>1, FrameAll DEF LockFault, WellFormed, TypeOK
    <2> QED BY <1>3, <2>1, ReadStep, SaveFaultStep, ReturnStep DEF Fault
  <1>4. ASSUME NEW p \in Procs, Crash(p) PROVE ProgressInv' /\ GrantsAreCounted'
    BY <1>4, FrameAll DEF Crash, WellFormed, TypeOK
  <1>5. CASE UNCHANGED vars
    BY <1>5 DEF vars, ProgressInv, Pending, Unanswered, Legitimate, Updates, KeepsGrants,
                GrantsAreCounted
  <1> QED BY <1>1, <1>2, <1>3, <1>4, <1>5 DEF Next

-----------------------------------------------------------------------------
LEMMA IInvInit == Init => IInv
  <1> SUFFICES ASSUME Init PROVE IInv
    OBVIOUS
  <1>1. WellFormed
    BY WellFormedInit
  <1>2. MutualExclusion /\ ProgressInv
    BY DEF Init, MutualExclusion, Locked, ProgressInv, Pending, Unanswered
  <1>3. \A x \in Slots : QueryLimit(x) \in Nat /\ Allowance(x, 0) = 0
    BY LimitIsNat, AllowanceStep
  <1>4. StoreWithinLimits /\ MemoryInv
    BY <1>3 DEF Init, Empty, StoreWithinLimits, MemoryInv
  <1>5. GrantsAreCounted
    BY <1>3, SlotTool, StorePathType DEF Init, Empty, GrantsAreCounted
  <1> QED BY <1>1, <1>2, <1>4, <1>5 DEF IInv, WellFormed

LEMMA IInvStep == IInv /\ [Next]_vars => IInv'
  BY WellFormedStep, MutexStep, MemoryStep, LimitsStep, GrantsStep DEF IInv, WellFormed

LEMMA IInvHolds == Spec => []IInv
  BY IInvInit, IInvStep, PTL DEF Spec

(* Two processes are never inside the locked section of one store,         *)
(* whatever crashes and I/O errors happen.                                 *)
THEOREM MutualExclusionHolds == Spec => []MutualExclusion
  <1>1. IInv => MutualExclusion
    BY DEF IInv
  <1> QED BY <1>1, IInvHolds, PTL

(* No store ever counts more queries on a slot than the slot's limit.      *)
THEOREM StoreWithinLimitsHolds == Spec => []StoreWithinLimits
  <1>1. IInv => StoreWithinLimits
    BY DEF IInv
  <1> QED BY <1>1, IInvHolds, PTL

(* Every query admitted on the strength of a store is counted in it, up to *)
(* one allowance for each time the store could not be read.                *)
THEOREM GrantsAreCountedHolds == Spec => []GrantsAreCounted
  <1>1. IInv => GrantsAreCounted
    BY DEF IInv
  <1> QED BY <1>1, IInvHolds, PTL

(* The fallback to memory admits at most one allowance per incarnation of  *)
(* the process.                                                            *)
THEOREM FallbackIsLimitedHolds == Spec => []FallbackIsLimited
  <1>1. IInv => FallbackIsLimited
    <2> SUFFICES ASSUME IInv, NEW p \in Procs, NEW x \in Slots
                 PROVE  fellBack[p][x] <= Allowance(x, 1 + crashes[p])
      BY DEF FallbackIsLimited
    <2>1. /\ QueryLimit(x) \in Nat /\ crashes[p] \in Nat /\ mem[p][x] \in Nat
          /\ fellBack[p][x] \in Nat
      BY LimitIsNat DEF IInv, TypeOK, Budgets
    <2>2. mem[p][x] <= QueryLimit(x) /\ fellBack[p][x] <= mem[p][x] + Allowance(x, crashes[p])
      BY DEF IInv, MemoryInv
    <2> QED BY <2>1, <2>2, AllowanceStep
  <1> QED BY <1>1, IInvHolds, PTL

-----------------------------------------------------------------------------
(* What a rename does to a store.                                          *)
LEMMA RenameInstalls ==
  ASSUME IInv, NEW p \in Procs, Rename(p)
  PROVE  /\ op[p] \in Operations /\ op[p].path \in Stores /\ op[p].slots \subseteq Slots
         /\ store' = [store EXCEPT ![op[p].path] = tmp[op[p].path]]
         /\ UNCHANGED mem
         /\ Legitimate(p, tmp[op[p].path])
  BY DEF IInv, Rename, OperationsInv, Operations, ProgressInv, Pending

(* A stored count drops only by a reset of its slot or after the store was *)
(* unreadable.                                                             *)
THEOREM CountsDropOnlyByResetHolds == Spec => CountsDropOnlyByReset
  <1>1. IInv /\ [Next]_vars => [KeepsCounts]_vars
    <2> SUFFICES ASSUME IInv, [Next]_vars PROVE KeepsCounts
      OBVIOUS
    <2>0. \A s \in Stores : \A x \in Slots : store[s][x] \in Nat
      BY DEF IInv, TypeOK, Budgets
    <2>1. ASSUME NEW p \in Procs, Rename(p) PROVE KeepsCounts
      <3> DEFINE s == op[p].path
      <3>1. CASE Updates(p, store[s], tmp[s]) /\ op[p].kind = "query"
        <4>1. \A x \in Slots : store'[s][x] \in Nat /\ store'[s][x] >= store[s][x]
          BY <2>0, <2>1, <3>1, RenameInstalls DEF Updates, Charge, IInv, TypeOK
        <4>2. \A t \in Stores \ {s} : store'[t] = store[t]
          BY <2>1, RenameInstalls DEF IInv, TypeOK
        <4> QED BY <2>0, <4>1, <4>2 DEF KeepsCounts
      <3>2. CASE Updates(p, store[s], tmp[s]) /\ op[p].kind = "reset"
        <4>1. \A x \in Slots : x \notin op[p].slots => store'[s][x] = store[s][x]
          BY <2>1, <3>2, RenameInstalls DEF Updates, Clear, IInv, TypeOK
        <4>2. \A t \in Stores \ {s} : store'[t] = store[t]
          BY <2>1, RenameInstalls DEF IInv, TypeOK
        <4> QED BY <2>0, <2>1, <3>2, <4>1, <4>2 DEF KeepsCounts
      <3>3. CASE lapses[s] > 0
        <4>2. \A t \in Stores \ {s} : store'[t] = store[t]
          BY <2>1, RenameInstalls DEF IInv, TypeOK
        <4> QED BY <2>0, <3>3, <4>2 DEF KeepsCounts
      <3> QED BY <2>1, <3>1, <3>2, <3>3, RenameInstalls DEF Legitimate, Operations
    <2>2. CASE \A p \in Procs : ~Rename(p)
      <3>1. UNCHANGED store
        BY <2>2, OnlyRenameStores DEF IInv, WellFormed
      <3> QED BY <2>0, <3>1 DEF KeepsCounts
    <2> QED BY <2>1, <2>2
  <1>2. Spec => [][KeepsCounts]_vars
    BY <1>1, IInvHolds, PTL DEF Spec
  <1> QED BY <1>2 DEF CountsDropOnlyByReset

-----------------------------------------------------------------------------
(* Refinement.                                                             *)

LEMMA AbstractOps ==
  /\ Abstract!Blank = Empty
  /\ \A b, X : Abstract!Charged(b, X) = Charge(b, X)
  /\ \A b, X : Abstract!Cleared(b, X) = Clear(b, X)
  /\ \A b : \A X \in SUBSET Slots : Abstract!Fits(b, X) <=> WithinBudget(b, X)
  BY DEF Abstract!Blank, Abstract!Charged, Abstract!Cleared, Abstract!Fits,
         Empty, Charge, Clear, WithinBudget

LEMMA ApplyInMemoryRefines ==
  ASSUME NEW p \in Procs, NEW X \in SUBSET Slots, ApplyInMemoryBudget(p, X), UNCHANGED store
  PROVE  Abstract!Next \/ UNCHANGED mem
  <1>1. CASE WithinBudget(mem[p], X)
    <2>1. Abstract!ChargePrivate(p, X)
      BY <1>1, AbstractOps DEF ApplyInMemoryBudget, Abstract!ChargePrivate
    <2> QED BY <2>1 DEF Abstract!Next
  <1>2. CASE ~WithinBudget(mem[p], X)
    BY <1>2 DEF ApplyInMemoryBudget
  <1> QED BY <1>1, <1>2

LEMMA ClearPrivateRefines ==
  ASSUME NEW p \in Procs, NEW X \in SUBSET Slots, UNCHANGED store,
         mem' = [mem EXCEPT ![p] = Clear(mem[p], X)]
  PROVE  Abstract!Next
  <1>1. Abstract!ClearPrivate(p, X)
    BY AbstractOps DEF Abstract!ClearPrivate
  <1> QED BY <1>1 DEF Abstract!Next

(* Installing a legitimate update is one step of the atomic budget.        *)
LEMMA RenameRefines ==
  ASSUME IInv, NEW p \in Procs, Rename(p)
  PROVE  Abstract!Next
  <1> DEFINE s == op[p].path
             X == op[p].slots
  <1>1. /\ s \in Stores /\ X \in SUBSET Slots /\ UNCHANGED mem
        /\ store' = [store EXCEPT ![s] = tmp[s]] /\ Legitimate(p, tmp[s])
    BY RenameInstalls
  <1>2. CASE WithinBudget(store[s], X) /\ tmp[s] = Charge(store[s], X)
    <2>1. Abstract!ChargeShared(s, X)
      BY <1>1, <1>2, AbstractOps DEF Abstract!ChargeShared
    <2> QED BY <1>1, <2>1 DEF Abstract!Next
  <1>3. CASE tmp[s] = Clear(store[s], X)
    <2>1. Abstract!ClearShared(s, X)
      BY <1>1, <1>3, AbstractOps DEF Abstract!ClearShared
    <2> QED BY <1>1, <2>1 DEF Abstract!Next
  <1>4. CASE MaxFaults > 0 /\ WithinBudget(Empty, X) /\ tmp[s] = Charge(Empty, X)
    <2>1. Abstract!ForgetShared(s, X)
      BY <1>1, <1>4, AbstractOps DEF Abstract!ForgetShared
    <2> QED BY <1>1, <2>1 DEF Abstract!Next
  <1>5. CASE MaxFaults > 0 /\ tmp[s] = Clear(Empty, X)
    <2>1. Clear(Empty, X) = Charge(Empty, {}) /\ WithinBudget(Empty, {})
      BY DEF Clear, Charge, Empty, WithinBudget
    <2>2. Abstract!ForgetShared(s, {})
      BY <1>1, <1>5, <2>1, AbstractOps DEF Abstract!ForgetShared
    <2> QED BY <1>1, <2>2 DEF Abstract!Next
  <1> QED BY <1>1, <1>2, <1>3, <1>4, <1>5 DEF Legitimate, Updates

LEMMA StepRefines ==
  ASSUME IInv, [Next]_vars
  PROVE  [Abstract!Next]_<<store, mem>>
  <1> WellFormed
    BY DEF IInv, WellFormed
  <1>1. ASSUME NEW p \in Procs, NEW c \in Clients, NEW t \in Tools,
               NEW F \in SUBSET Fields, StartQuery(p, c, t, F)
        PROVE  [Abstract!Next]_<<store, mem>>
    <2>1. SlotsOf(c, {t}, F) \in SUBSET Slots /\ UNCHANGED store
      BY <1>1, SlotsOfType DEF StartQuery
    <2>2. CASE StorePath(t) # NoStore
      BY <1>1, <2>1, <2>2 DEF StartQuery
    <2>3. CASE StorePath(t) = NoStore
      BY <1>1, <2>1, <2>3, ApplyInMemoryRefines DEF StartQuery
    <2> QED BY <2>2, <2>3
  <1>2. ASSUME NEW p \in Procs, NEW c \in Clients, NEW T \in SUBSET Tools,
               StartReset(p, c, T)
        PROVE  [Abstract!Next]_<<store, mem>>
    <2>1. SlotsOf(c, T, Fields) \in SUBSET Slots
      BY SlotsOfType
    <2> QED BY <1>2, <2>1, ClearPrivateRefines DEF StartReset
  <1>3. ASSUME NEW p \in Procs, Step(p)
        PROVE  [Abstract!Next]_<<store, mem>>
    <2>1. CASE HandleError(p)
      <3>1. op[p].slots \in SUBSET Slots
        BY <2>1 DEF HandleError, WellFormed, OperationsInv, Operations
      <3>2. CASE op[p].kind = "query"
        BY <2>1, <3>1, <3>2, ApplyInMemoryRefines DEF HandleError
      <3>3. CASE op[p].kind # "query"
        BY <2>1, <3>3 DEF HandleError
      <3> QED BY <3>2, <3>3
    <2>2. CASE AcquireLock(p) \/ LockBusy(p) \/ ReadStore(p) \/ WriteTmp(p) \/ ReleaseLock(p)
      BY <2>2 DEF AcquireLock, LockBusy, ReadStore, WriteTmp, ReleaseLock
    <2> QED BY <1>3, <2>1, <2>2, RenameRefines DEF Step
  <1>4. ASSUME NEW p \in Procs, Fault(p)
        PROVE  [Abstract!Next]_<<store, mem>>
    BY <1>4 DEF Fault, LockFault, ReadFault, SaveFault, ReleaseFault
  <1>5. ASSUME NEW p \in Procs, Crash(p)
        PROVE  [Abstract!Next]_<<store, mem>>
    <2>1. Empty = Clear(mem[p], Slots)
      BY DEF Empty, Clear
    <2> QED BY <1>5, <2>1, ClearPrivateRefines DEF Crash
  <1>6. CASE UNCHANGED vars
    BY <1>6 DEF vars
  <1> QED BY <1>1, <1>2, <1>3, <1>4, <1>5, <1>6 DEF Next, Start

(* The lock-file protocol implements the atomic budget: the charge happens *)
(* at the rename.                                                          *)
THEOREM BudgetRefinement == Spec => BudgetIsAtomic
  <1>1. Init => Abstract!Init
    BY AbstractOps DEF Init, Abstract!Init
  <1>2. IInv /\ [Next]_vars => [Abstract!Next]_<<store, mem>>
    BY StepRefines
  <1> QED BY <1>1, <1>2, IInvHolds, PTL DEF Spec, BudgetIsAtomic, Abstract!Spec
-----------------------------------------------------------------------------
(* The limits of callTool.                                                 *)

(* A window holds every stamp young enough to matter.  The filters only    *)
(* throw away stamps that no later instant can find active.                *)
GlobalWindowComplete ==
    \A i \in Charged : clock - log[i].globalAt < Window => i \in globalCallWindow
ToolWindowComplete ==
    \A t \in CallTools : \A i \in Admitted(t) :
        clock - log[i].at < Window => i \in toolCallWindows[t]

LimitsInv ==
    /\ LimitsTypeOK
    /\ GlobalWindowComplete /\ ToolWindowComplete
    /\ GlobalWindowSlides /\ ToolWindowSlides

-----------------------------------------------------------------------------
(* A nonempty set of naturals has an oldest element.                       *)
LEMMA OldestExists ==
  ASSUME NEW w \in SUBSET Nat, w # {}
  PROVE  Oldest(w) \in w
<1> DEFINE R == {x \in Nat \X Nat : x[1] < x[2]}
<1>1. IsWellFoundedOn(R, Nat)
  BY NatLessThanWellFounded DEF OpToRel, IsWellFoundedOn
<1>2. \E x \in w : \A y \in w : ~(<< y, x >> \in R)
  BY <1>1, WFMin
<1>3. \A x, y \in w : ~(<< y, x >> \in R) => x <= y
  OBVIOUS
<1>4. \E x \in w : \A y \in w : x <= y
  <2> HIDE DEF R
  <2> QED
    BY <1>2, <1>3
<1> QED
  BY <1>4 DEF Oldest

(* Appending a call to the log leaves the earlier calls alone.             *)
LEMMA Appended ==
  ASSUME NEW l \in Seq(CallRecord), NEW r
  PROVE  /\ Len(Append(l, r)) = Len(l) + 1
         /\ Len(l) \in Nat
         /\ \A i \in 1 .. Len(l) : Append(l, r)[i] = l[i] /\ l[i] \in CallRecord
         /\ Append(l, r)[Len(l) + 1] = r
         /\ 1 .. (Len(l) + 1) = (1 .. Len(l)) \cup {Len(l) + 1}
  OBVIOUS

(* A stamp that is young at one instant was young before.                  *)
LEMMA YoungEarlier ==
  ASSUME NEW a \in Nat, NEW b \in Nat, a <= b, NEW x \in Nat, NEW w \in Nat, b - x < w
  PROVE  a - x < w
  OBVIOUS

(* Room for one more: a set is within the limit when all of it but one     *)
(* element lies in a finite set below the limit.                           *)
LEMMA OneMore ==
  ASSUME NEW w, IsFiniteSet(w), NEW max \in Nat, Cardinality(w) < max,
         NEW S, NEW n, S \subseteq w \cup {n}
  PROVE  Cardinality(S) <= max
<1>1. /\ IsFiniteSet(w \cup {n})
      /\ Cardinality(w) \in Nat
      /\ Cardinality(w \cup {n}) <= Cardinality(w) + 1
  BY FS_AddElement, FS_CardinalityType
<1>2. Cardinality(S) <= Cardinality(w \cup {n}) /\ IsFiniteSet(S)
  BY <1>1, FS_Subset
<1> QED
  BY <1>1, <1>2, FS_CardinalityType

LEMMA SubsetOfCallsIsFinite ==
  ASSUME LimitsTypeOK, NEW S \in SUBSET Calls
  PROVE  IsFiniteSet(S)
<1>1. Len(log) \in Nat
  BY DEF LimitsTypeOK
<1>2. IsFiniteSet(Calls)
  BY <1>1, FS_Interval DEF Calls
<1> QED
  BY <1>2, FS_Subset

-----------------------------------------------------------------------------
(* What one more entry of the log does to the calls and to the two sets of *)
(* calls the limits are about.                                             *)
LEMMA LogGrows ==
  ASSUME LimitsTypeOK, NEW r \in CallRecord, log' = Append(log, r)
  PROVE  /\ log' \in Seq(CallRecord)
         /\ Len(log) \in Nat
         /\ Len(log) + 1 \notin Calls
         /\ Calls' = Calls \cup {Len(log) + 1}
         /\ \A i \in Calls : log'[i] = log[i] /\ log[i] \in CallRecord
         /\ log'[Len(log) + 1] = r
         /\ Charged' = Charged \cup
                (IF r.outcome = "global limit" THEN {} ELSE {Len(log) + 1})
         /\ \A t \in CallTools : Admitted(t)' = Admitted(t) \cup
                (IF r.tool = t /\ r.outcome \in Unlimited THEN {Len(log) + 1} ELSE {})
<1>1. log \in Seq(CallRecord)
  BY DEF LimitsTypeOK
<1>2. /\ log' \in Seq(CallRecord)
      /\ Len(log) \in Nat
      /\ Len(log) + 1 \notin Calls
      /\ Calls' = Calls \cup {Len(log) + 1}
      /\ \A i \in Calls : log'[i] = log[i] /\ log[i] \in CallRecord
      /\ log'[Len(log) + 1] = r
  BY <1>1, Appended DEF Calls
<1>3. Charged' = Charged \cup
          (IF r.outcome = "global limit" THEN {} ELSE {Len(log) + 1})
  BY <1>2 DEF Charged
<1>4. \A t \in CallTools : Admitted(t)' = Admitted(t) \cup
          (IF r.tool = t /\ r.outcome \in Unlimited THEN {Len(log) + 1} ELSE {})
  BY <1>2 DEF Admitted
<1> QED
  BY <1>2, <1>3, <1>4

(* A call that passes checkGlobalRateLimit keeps the global bound: the     *)
(* calls it lies together with are all active, and fewer than MaxGlobal.   *)
LEMMA ChargeKeepsGlobal ==
  ASSUME LimitsInv, NEW r \in CallRecord, log' = Append(log, r),
         r.outcome # "global limit", r.globalAt = clock,
         GlobalPasses(ActiveGlobal(clock)), ChargeGlobal(ActiveGlobal(clock)),
         clock' \in Nat, clock <= clock'
  PROVE  /\ globalCallWindow' \subseteq Calls'
         /\ GlobalWindowComplete'
         /\ GlobalWindowSlides'
<1> DEFINE n == Len(log) + 1
           active == ActiveGlobal(clock)
<1>1. LimitsTypeOK /\ clock \in Nat /\ Window \in Nat /\ MaxGlobal \in Nat
  BY ToolLimitsAssumption DEF LimitsInv, LimitsTypeOK
<1>2. /\ Calls' = Calls \cup {n}
      /\ n \notin Calls
      /\ \A i \in Calls : log'[i] = log[i] /\ log[i].globalAt \in Nat
      /\ log'[n] = r
      /\ Charged' = Charged \cup {n}
      /\ Charged \subseteq Calls
  BY <1>1, LogGrows DEF CallRecord, Charged
<1>3. globalCallWindow' = active \cup {n} /\ active \subseteq globalCallWindow
  BY DEF ChargeGlobal, ActiveGlobal
<1>4. globalCallWindow' \subseteq Calls'
  BY <1>1, <1>2, <1>3 DEF LimitsTypeOK
<1>5. \A i \in Charged : clock - log[i].globalAt < Window => i \in active
  BY DEF LimitsInv, GlobalWindowComplete, ActiveGlobal
<1>6. GlobalWindowComplete'
  <2> SUFFICES ASSUME NEW i \in Charged', clock' - log'[i].globalAt < Window
               PROVE  i \in globalCallWindow'
    BY DEF GlobalWindowComplete
  <2>1. CASE i = n
    BY <2>1, <1>3
  <2>2. CASE i \in Charged
    <3>1. clock' - log[i].globalAt < Window /\ log[i].globalAt \in Nat
      BY <2>2, <1>2
    <3>2. clock - log[i].globalAt < Window
      BY <3>1, <1>1, YoungEarlier
    <3> QED
      BY <3>2, <2>2, <1>3, <1>5
  <2> QED
    BY <2>1, <2>2, <1>2
<1>7. GlobalWindowSlides'
  <2> SUFFICES ASSUME NEW S \in SUBSET Charged', TogetherGlobal(S)'
               PROVE  Cardinality(S) <= MaxGlobal
    BY DEF GlobalWindowSlides
  <2>1. CASE n \in S
    <3>1. \A i \in S : i # n => i \in active
      <4> SUFFICES ASSUME NEW i \in S, i # n
                   PROVE  i \in active
        OBVIOUS
      <4>1. i \in Charged
        BY <1>2
      <4>2. log'[n].globalAt - log'[i].globalAt < Window
        BY <2>1 DEF TogetherGlobal
      <4>3. log'[n].globalAt = clock /\ log'[i].globalAt = log[i].globalAt
        BY <4>1, <1>2
      <4> QED
        BY <4>1, <4>2, <4>3, <1>5
    <3>2. IsFiniteSet(active) /\ Cardinality(active) < MaxGlobal
      BY <1>1, <1>3, SubsetOfCallsIsFinite DEF GlobalPasses, LimitsTypeOK
    <3>3. S \subseteq active \cup {n}
      BY <3>1
    <3> HIDE DEF active, n
    <3> QED
      BY <3>2, <3>3, <1>1, OneMore
  <2>2. CASE n \notin S
    <3>1. S \in SUBSET Charged /\ \A i \in S : i \in Calls
      BY <2>2, <1>2
    <3>2. TogetherGlobal(S)
      BY <3>1, <1>2 DEF TogetherGlobal
    <3> QED
      BY <3>1, <3>2 DEF LimitsInv, GlobalWindowSlides
  <2> QED
    BY <2>1, <2>2
<1> QED
  BY <1>4, <1>6, <1>7

(* A call that checkGlobalRateLimit refuses only drops expired stamps.     *)
LEMMA RefusalKeepsGlobal ==
  ASSUME LimitsInv, NEW r \in CallRecord, log' = Append(log, r),
         r.outcome = "global limit",
         globalCallWindow' = ActiveGlobal(clock), clock' = clock
  PROVE  /\ globalCallWindow' \subseteq Calls'
         /\ GlobalWindowComplete'
         /\ GlobalWindowSlides'
<1>1. LimitsTypeOK
  BY DEF LimitsInv
<1>2. /\ Calls' = Calls \cup {Len(log) + 1}
      /\ \A i \in Calls : log'[i] = log[i]
      /\ Charged' = Charged
      /\ Charged \subseteq Calls
  BY <1>1, LogGrows DEF Charged
<1>3. globalCallWindow' \subseteq Calls'
  BY <1>1, <1>2 DEF LimitsTypeOK, ActiveGlobal
<1>4. GlobalWindowComplete'
  BY <1>2 DEF LimitsInv, GlobalWindowComplete, ActiveGlobal
<1>5. \A S \in SUBSET Charged : TogetherGlobal(S)' <=> TogetherGlobal(S)
  BY <1>2 DEF TogetherGlobal
<1>6. GlobalWindowSlides'
  BY <1>2, <1>5 DEF LimitsInv, GlobalWindowSlides
<1> QED
  BY <1>3, <1>4, <1>6
-----------------------------------------------------------------------------
(* A call that passes checkToolCallRateLimit keeps the bound of its tool,  *)
(* and those of the other tools.                                           *)
LEMMA AdmitKeepsTool ==
  ASSUME LimitsInv, NEW t \in CallTools, NEW r \in CallRecord, log' = Append(log, r),
         r.tool = t, r.outcome \in Unlimited, r.at = clock',
         ToolPasses(ActiveTool(t, clock')),
         toolCallWindows' = [toolCallWindows EXCEPT
                                ![t] = ActiveTool(t, clock') \cup {Len(log) + 1}],
         clock' \in Nat, clock <= clock'
  PROVE  /\ toolCallWindows' \in [CallTools -> SUBSET Calls']
         /\ ToolWindowComplete'
         /\ ToolWindowSlides'
<1> DEFINE n == Len(log) + 1
           active == ActiveTool(t, clock')
<1>1. LimitsTypeOK /\ clock \in Nat /\ Window \in Nat /\ MaxPerTool \in Nat
  BY ToolLimitsAssumption DEF LimitsInv, LimitsTypeOK
<1>2. /\ Calls' = Calls \cup {n}
      /\ n \notin Calls
      /\ \A i \in Calls : log'[i] = log[i] /\ log[i].at \in Nat
      /\ log'[n] = r
      /\ Admitted(t)' = Admitted(t) \cup {n}
      /\ \A u \in CallTools : u # t => Admitted(u)' = Admitted(u)
      /\ \A u \in CallTools : Admitted(u) \subseteq Calls
  <2>1. \A u \in CallTools : Admitted(u)' = Admitted(u) \cup
            (IF r.tool = u /\ r.outcome \in Unlimited THEN {n} ELSE {})
    BY <1>1, LogGrows
  <2>2. Admitted(t)' = Admitted(t) \cup {n}
    BY <2>1
  <2>3. \A u \in CallTools : u # t => Admitted(u)' = Admitted(u)
    BY <2>1
  <2>4. \A u \in CallTools : Admitted(u) \subseteq Calls
    BY DEF Admitted
  <2>5. /\ Calls' = Calls \cup {n}
        /\ n \notin Calls
        /\ \A i \in Calls : log'[i] = log[i] /\ log[i].at \in Nat
        /\ log'[n] = r
    BY <1>1, LogGrows DEF CallRecord
  <2> QED
    BY <2>2, <2>3, <2>4, <2>5
<1>3. /\ toolCallWindows \in [CallTools -> SUBSET Calls]
      /\ active \subseteq toolCallWindows[t]
      /\ toolCallWindows'[t] = active \cup {n}
      /\ \A u \in CallTools : u # t => toolCallWindows'[u] = toolCallWindows[u]
  BY <1>1 DEF LimitsTypeOK, ActiveTool
<1>4. toolCallWindows' \in [CallTools -> SUBSET Calls']
  BY <1>2, <1>3
(* A stamp active at the instant of this check was active before.          *)
<1>5. \A u \in CallTools : \A i \in Admitted(u) :
          clock' - log[i].at < Window => i \in toolCallWindows[u]
  <2> SUFFICES ASSUME NEW u \in CallTools, NEW i \in Admitted(u), clock' - log[i].at < Window
               PROVE  i \in toolCallWindows[u]
    OBVIOUS
  <2>1. log[i].at \in Nat
    BY <1>2
  <2>2. clock - log[i].at < Window
    BY <2>1, <1>1
  <2> QED
    BY <2>2 DEF LimitsInv, ToolWindowComplete
<1>6. \A i \in Admitted(t) : clock' - log[i].at < Window => i \in active
  BY <1>5 DEF ActiveTool
<1>7. ToolWindowComplete'
  <2> SUFFICES ASSUME NEW u \in CallTools, NEW i \in Admitted(u)', clock' - log'[i].at < Window
               PROVE  i \in toolCallWindows'[u]
    BY DEF ToolWindowComplete
  <2>1. CASE u = t /\ i = n
    BY <2>1, <1>3
  <2>2. CASE i \in Admitted(u)
    <3>1. clock' - log[i].at < Window
      BY <2>2, <1>2
    <3>2. CASE u = t
      BY <3>1, <3>2, <2>2, <1>3, <1>6
    <3>3. CASE u # t
      BY <3>1, <3>3, <2>2, <1>3, <1>5
    <3> QED
      BY <3>2, <3>3
  <2> QED
    BY <2>1, <2>2, <1>2
<1>8. ToolWindowSlides'
  <2> SUFFICES ASSUME NEW u \in CallTools, NEW S \in SUBSET Admitted(u)', Together(S)'
               PROVE  Cardinality(S) <= MaxPerTool
    BY DEF ToolWindowSlides
  <2>1. CASE n \in S
    <3>1. u = t
      BY <2>1, <1>2
    <3>2. \A i \in S : i # n => i \in active
      <4> SUFFICES ASSUME NEW i \in S, i # n
                   PROVE  i \in active
        OBVIOUS
      <4>1. i \in Admitted(t)
        BY <3>1, <1>2
      <4>2. log'[n].at - log'[i].at < Window
        BY <2>1 DEF Together
      <4>3. log'[n].at = clock' /\ log'[i].at = log[i].at
        BY <4>1, <1>2
      <4> QED
        BY <4>1, <4>2, <4>3, <1>6
    <3>3. active \in SUBSET Calls
      BY <1>3
    <3>4. IsFiniteSet(active) /\ Cardinality(active) < MaxPerTool
      BY <3>3, <1>1, SubsetOfCallsIsFinite DEF ToolPasses
    <3>5. S \subseteq active \cup {n}
      BY <3>2
    <3> HIDE DEF active, n
    <3> QED
      BY <3>4, <3>5, <1>1, OneMore
  <2>2. CASE n \notin S
    <3>1. S \in SUBSET Admitted(u) /\ \A i \in S : i \in Calls
      BY <2>2, <1>2
    <3>2. Together(S)
      BY <3>1, <1>2 DEF Together
    <3> QED
      BY <3>1, <3>2 DEF LimitsInv, ToolWindowSlides
  <2> QED
    BY <2>1, <2>2
<1> QED
  BY <1>4, <1>7, <1>8

(* A refused call leaves the windows of the tools alone.                   *)
LEMMA RefusalKeepsTool ==
  ASSUME LimitsInv, NEW r \in CallRecord, log' = Append(log, r),
         r.outcome \notin Unlimited,
         toolCallWindows' = toolCallWindows, clock' \in Nat, clock <= clock'
  PROVE  /\ toolCallWindows' \in [CallTools -> SUBSET Calls']
         /\ ToolWindowComplete'
         /\ ToolWindowSlides'
<1>1. LimitsTypeOK /\ clock \in Nat /\ Window \in Nat
  BY ToolLimitsAssumption DEF LimitsInv, LimitsTypeOK
<1>2. /\ Calls' = Calls \cup {Len(log) + 1}
      /\ \A i \in Calls : log'[i] = log[i] /\ log[i].at \in Nat
      /\ \A u \in CallTools : Admitted(u)' = Admitted(u)
      /\ \A u \in CallTools : Admitted(u) \subseteq Calls
  BY <1>1, LogGrows DEF CallRecord, Admitted
<1>3. toolCallWindows' \in [CallTools -> SUBSET Calls']
  BY <1>1, <1>2 DEF LimitsTypeOK
<1>4. ToolWindowComplete'
  <2> SUFFICES ASSUME NEW u \in CallTools, NEW i \in Admitted(u)', clock' - log'[i].at < Window
               PROVE  i \in toolCallWindows'[u]
    BY DEF ToolWindowComplete
  <2>1. i \in Admitted(u) /\ log'[i].at = log[i].at /\ log[i].at \in Nat
    BY <1>2
  <2>2. clock - log[i].at < Window
    BY <2>1, <1>1
  <2> QED
    BY <2>1, <2>2 DEF LimitsInv, ToolWindowComplete
<1>5. \A u \in CallTools : \A S \in SUBSET Admitted(u) : Together(S)' <=> Together(S)
  BY <1>2 DEF Together
<1>6. ToolWindowSlides'
  BY <1>2, <1>5 DEF LimitsInv, ToolWindowSlides
<1> QED
  BY <1>3, <1>4, <1>6
-----------------------------------------------------------------------------
LEMMA RetryAtType ==
  ASSUME NEW w \in SUBSET Nat, NEW f \in [w -> Nat]
  PROVE  RetryAt(f) \in Nat
<1>1. Window \in Nat
  BY ToolLimitsAssumption
<1>2. w # {} => f[Oldest(w)] \in Nat
  BY OldestExists
<1> QED
  BY <1>1, <1>2 DEF RetryAt

LEMMA CallsAreNat == Calls \subseteq Nat
  BY DEF Calls

LEMMA StampsAreNat ==
  ASSUME LimitsTypeOK
  PROVE  \A i \in Calls : log[i].at \in Nat /\ log[i].globalAt \in Nat
<1>1. \A i \in Calls : log[i] \in CallRecord
  BY DEF LimitsTypeOK, Calls
<1> QED
  BY <1>1 DEF CallRecord

(* The first check refuses.                                                *)
LEMMA GlobalLimitedKeeps ==
  ASSUME LimitsInv, NEW t \in CallTools, GlobalLimited(t)
  PROVE  LimitsInv'
<1> DEFINE active == ActiveGlobal(clock)
           retry == RetryAt([i \in active |-> log[i].globalAt])
           r == [tool |-> t, globalAt |-> clock, at |-> clock,
                 outcome |-> "global limit", retryAt |-> retry]
<1>1. LimitsTypeOK /\ clock \in Nat /\ globalCallWindow \subseteq Calls
  BY DEF LimitsInv, LimitsTypeOK
<1>2. active \in SUBSET Nat /\ active \subseteq Calls
  BY <1>1, CallsAreNat DEF ActiveGlobal
<1>3. [i \in active |-> log[i].globalAt] \in [active -> Nat]
  BY <1>1, <1>2, StampsAreNat
<1>4. retry \in Nat
  <2> HIDE DEF active
  <2> QED
    BY <1>2, <1>3, RetryAtType
<1>5. r \in CallRecord /\ r.outcome = "global limit" /\ r.outcome \notin Unlimited
  <2> HIDE DEF retry
  <2> QED
    BY <1>1, <1>4 DEF CallRecord, Outcomes, Unlimited
<1>6. log' = Append(log, r)
  BY DEF GlobalLimited, Record
<1>7. /\ globalCallWindow' = ActiveGlobal(clock)
      /\ clock' = clock /\ toolCallWindows' = toolCallWindows
      /\ failures' = failures /\ lastAttempt' = lastAttempt
  BY DEF GlobalLimited
<1> HIDE DEF r
<1>8. globalCallWindow' \subseteq Calls' /\ GlobalWindowComplete' /\ GlobalWindowSlides'
  BY <1>5, <1>6, <1>7, RefusalKeepsGlobal
<1>9. /\ toolCallWindows' \in [CallTools -> SUBSET Calls']
      /\ ToolWindowComplete' /\ ToolWindowSlides'
  <2>1. clock' \in Nat /\ clock <= clock'
    BY <1>1, <1>7
  <2> QED
    BY <2>1, <1>5, <1>6, <1>7, RefusalKeepsTool
<1>10. log' \in Seq(CallRecord)
  BY <1>1, <1>5, <1>6, LogGrows
<1>11. LimitsTypeOK'
  BY <1>1, <1>7, <1>8, <1>9, <1>10 DEF LimitsTypeOK
<1> QED
  BY <1>8, <1>9, <1>11 DEF LimitsInv

(* The second check refuses: the first one has been charged.               *)
LEMMA ToolLimitedKeeps ==
  ASSUME LimitsInv, NEW t \in CallTools, ToolLimited(t)
  PROVE  LimitsInv'
<1>1. PICK late \in 0 .. Straddle :
        /\ GlobalPasses(ActiveGlobal(clock))
        /\ ChargeGlobal(ActiveGlobal(clock))
        /\ clock' = clock + late
        /\ Record(t, clock, clock + late, "tool limit",
                  RetryAt([i \in ActiveTool(t, clock + late) |-> log[i].at]))
        /\ UNCHANGED << toolCallWindows, failures, lastAttempt >>
  BY DEF ToolLimited
<1> DEFINE active == ActiveTool(t, clock + late)
           retry == RetryAt([i \in active |-> log[i].at])
           r == [tool |-> t, globalAt |-> clock, at |-> clock + late,
                 outcome |-> "tool limit", retryAt |-> retry]
<1>2. LimitsTypeOK /\ clock \in Nat /\ late \in Nat
  BY ToolLimitsAssumption DEF LimitsInv, LimitsTypeOK
<1>3. clock' \in Nat /\ clock <= clock'
  <2>1. clock' = clock + late
    BY <1>1
  <2> QED
    BY <2>1, <1>2
<1>4. active \in SUBSET Nat /\ active \subseteq Calls
  BY <1>2, CallsAreNat DEF ActiveTool, LimitsTypeOK
<1>5. [i \in active |-> log[i].at] \in [active -> Nat]
  BY <1>2, <1>4, StampsAreNat
<1>6. retry \in Nat
  <2> HIDE DEF active
  <2> QED
    BY <1>4, <1>5, RetryAtType
<1>7. /\ r \in CallRecord
      /\ r.outcome # "global limit" /\ r.outcome \notin Unlimited /\ r.globalAt = clock
  <2> HIDE DEF retry
  <2> QED
    BY <1>2, <1>6 DEF CallRecord, Outcomes, Unlimited
<1>8. log' = Append(log, r)
  BY <1>1 DEF Record
<1> HIDE DEF r
<1>9. globalCallWindow' \subseteq Calls' /\ GlobalWindowComplete' /\ GlobalWindowSlides'
  BY <1>1, <1>3, <1>7, <1>8, ChargeKeepsGlobal
<1>10. /\ toolCallWindows' \in [CallTools -> SUBSET Calls']
       /\ ToolWindowComplete' /\ ToolWindowSlides'
  BY <1>1, <1>3, <1>7, <1>8, RefusalKeepsTool
<1>11. log' \in Seq(CallRecord)
  BY <1>2, <1>7, <1>8, LogGrows
<1>12. failures' \in Nat /\ lastAttempt' \in Nat
  BY <1>1, <1>2 DEF LimitsTypeOK
<1>13. LimitsTypeOK'
  BY <1>3, <1>9, <1>10, <1>11, <1>12 DEF LimitsTypeOK
<1> QED
  BY <1>9, <1>10, <1>13 DEF LimitsInv

(* Both checks let the call through, whatever becomes of it.               *)
LEMMA AdmitKeeps ==
  ASSUME LimitsInv, NEW t \in CallTools, NEW o \in Unlimited, Admit(t, o)
  PROVE  /\ clock' \in Nat
         /\ failures' \in Nat /\ lastAttempt' \in Nat => LimitsInv'
<1>1. PICK late \in 0 .. Straddle :
        /\ GlobalPasses(ActiveGlobal(clock))
        /\ ChargeGlobal(ActiveGlobal(clock))
        /\ ToolPasses(ActiveTool(t, clock + late))
        /\ toolCallWindows' = [toolCallWindows EXCEPT
               ![t] = ActiveTool(t, clock + late) \cup {Len(log) + 1}]
        /\ clock' = clock + late
        /\ Record(t, clock, clock + late, o, 0)
  BY DEF Admit
<1> DEFINE r == [tool |-> t, globalAt |-> clock, at |-> clock + late,
                 outcome |-> o, retryAt |-> 0]
<1>2. LimitsTypeOK /\ clock \in Nat /\ late \in Nat
  BY ToolLimitsAssumption DEF LimitsInv, LimitsTypeOK
<1>3. clock' \in Nat /\ clock <= clock'
  <2>1. clock' = clock + late
    BY <1>1
  <2> QED
    BY <2>1, <1>2
<1>4. /\ r \in CallRecord /\ r.tool = t
      /\ r.outcome # "global limit" /\ r.outcome \in Unlimited
      /\ r.globalAt = clock /\ r.at = clock'
  <2>1. clock + late \in Nat /\ clock' = clock + late
    BY <1>1, <1>2
  <2>2. o \in Outcomes /\ o # "global limit"
    BY DEF Outcomes, Unlimited
  <2> QED
    BY <2>1, <2>2, <1>2 DEF CallRecord
<1>5. log' = Append(log, r)
  BY <1>1 DEF Record
<1>6. /\ ToolPasses(ActiveTool(t, clock'))
      /\ toolCallWindows' = [toolCallWindows EXCEPT
             ![t] = ActiveTool(t, clock') \cup {Len(log) + 1}]
  BY <1>1
<1> HIDE DEF r
<1>7. globalCallWindow' \subseteq Calls' /\ GlobalWindowComplete' /\ GlobalWindowSlides'
  BY <1>1, <1>3, <1>4, <1>5, ChargeKeepsGlobal
<1>8. /\ toolCallWindows' \in [CallTools -> SUBSET Calls']
      /\ ToolWindowComplete' /\ ToolWindowSlides'
  BY <1>3, <1>4, <1>5, <1>6, AdmitKeepsTool
<1>9. log' \in Seq(CallRecord)
  BY <1>2, <1>4, <1>5, LogGrows
<1> QED
  BY <1>3, <1>7, <1>8, <1>9 DEF LimitsInv, LimitsTypeOK

LEMMA TickKeeps ==
  ASSUME LimitsInv, Tick
  PROVE  LimitsInv'
<1>1. LimitsTypeOK /\ clock \in Nat /\ clock' = clock + 1 /\ Window \in Nat
  BY ToolLimitsAssumption DEF LimitsInv, LimitsTypeOK, Tick
<1>2. UNCHANGED << globalCallWindow, toolCallWindows, failures, lastAttempt, log >>
  BY DEF Tick
<1>3. \A i \in Calls : log[i].at \in Nat /\ log[i].globalAt \in Nat
  BY <1>1, StampsAreNat
<1>4. LimitsTypeOK'
  BY <1>1, <1>2 DEF LimitsTypeOK, Calls
<1>5. GlobalWindowComplete'
  <2>1. Charged' = Charged /\ Charged \subseteq Calls
    BY <1>2 DEF Charged, Calls
  <2> SUFFICES ASSUME NEW i \in Charged, clock' - log[i].globalAt < Window
               PROVE  i \in globalCallWindow
    BY <2>1, <1>2 DEF GlobalWindowComplete
  <2>2. clock - log[i].globalAt < Window
    BY <2>1, <1>1, <1>3
  <2> QED
    BY <2>2 DEF LimitsInv, GlobalWindowComplete
<1>6. ToolWindowComplete'
  BY <1>1, <1>2, <1>3 DEF LimitsInv, ToolWindowComplete, Admitted, Calls
<1>7. GlobalWindowSlides' /\ ToolWindowSlides'
  BY <1>2 DEF LimitsInv, GlobalWindowSlides, ToolWindowSlides, Charged, Admitted, Calls,
              Together, TogetherGlobal
<1> QED
  BY <1>4, <1>5, <1>6, <1>7 DEF LimitsInv

LEMMA InitHolds == LimitsInit => LimitsInv
<1> SUFFICES ASSUME LimitsInit
             PROVE  LimitsInv
  OBVIOUS
<1>1. Calls = {} /\ Charged = {} /\ \A t \in CallTools : Admitted(t) = {}
  BY DEF LimitsInit, Calls, Charged, Admitted
<1>2. LimitsTypeOK
  BY <1>1 DEF LimitsInit, LimitsTypeOK
<1>3. GlobalWindowComplete /\ ToolWindowComplete
  BY <1>1 DEF GlobalWindowComplete, ToolWindowComplete
<1>4. MaxGlobal \in Nat /\ MaxPerTool \in Nat
  BY ToolLimitsAssumption
<1>5. GlobalWindowSlides
  BY <1>1, <1>4, FS_EmptySet DEF GlobalWindowSlides
<1>6. ToolWindowSlides
  BY <1>1, <1>4, FS_EmptySet DEF ToolWindowSlides
<1> QED
  BY <1>2, <1>3, <1>5, <1>6 DEF LimitsInv

LEMMA CallKeeps ==
  ASSUME LimitsInv, NEW t \in CallTools, CallTool(t)
  PROVE  LimitsInv'
<1>1. failures \in Nat /\ lastAttempt \in Nat
  BY DEF LimitsInv, LimitsTypeOK
<1>2. CASE GlobalLimited(t)
  BY <1>2, GlobalLimitedKeeps
<1>3. CASE ToolLimited(t)
  BY <1>3, ToolLimitedKeeps
<1>4. CASE Invalid(t)
  BY <1>1, <1>4, AdmitKeeps DEF Invalid, Unlimited
<1>5. CASE Envelope(t)
  BY <1>1, <1>5, AdmitKeeps DEF Envelope, Unlimited
<1>6. CASE Plain(t)
  BY <1>1, <1>6, AdmitKeeps DEF Plain, Unlimited
<1>7. CASE Throttled(t)
  BY <1>1, <1>7, AdmitKeeps DEF Throttled, Unlimited
<1>8. CASE Malformed(t)
  BY <1>1, <1>8, AdmitKeeps DEF Malformed, Unlimited
<1> QED
  BY <1>2, <1>3, <1>4, <1>5, <1>6, <1>7, <1>8 DEF CallTool

LEMMA StutterKeeps ==
  ASSUME LimitsInv, UNCHANGED limitVars
  PROVE  LimitsInv'
  BY DEF LimitsInv, limitVars, LimitsTypeOK, GlobalWindowComplete, ToolWindowComplete,
         GlobalWindowSlides, ToolWindowSlides, Calls, Charged, Admitted,
         Together, TogetherGlobal

LEMMA StepHolds == LimitsInv /\ [LimitsNext]_limitVars => LimitsInv'
<1> SUFFICES ASSUME LimitsInv, [LimitsNext]_limitVars
             PROVE  LimitsInv'
  OBVIOUS
<1>1. ASSUME NEW t \in CallTools, CallTool(t)
      PROVE  LimitsInv'
  BY <1>1, CallKeeps
<1>2. CASE Tick
  BY <1>2, TickKeeps
<1>3. CASE UNCHANGED limitVars
  BY <1>3, StutterKeeps
<1> QED
  BY <1>1, <1>2, <1>3 DEF LimitsNext

(* The windows hold only calls that were made and every variable keeps its *)
(* type, whatever calls callTool receives.                                 *)
THEOREM LimitsTypeCorrect == LimitsSpec => []LimitsTypeOK
<1>1. LimitsInv => LimitsTypeOK
  BY DEF LimitsInv
<1> QED
  BY InitHolds, StepHolds, <1>1, PTL DEF LimitsSpec

(* checkToolCallRateLimit: no window of time, wherever it starts, sees     *)
(* more than maxPerWindow admitted calls of one tool.                      *)
THEOREM ToolWindowSlidesHolds == LimitsSpec => []ToolWindowSlides
<1>1. LimitsInv => ToolWindowSlides
  BY DEF LimitsInv
<1> QED
  BY InitHolds, StepHolds, <1>1, PTL DEF LimitsSpec

(* checkGlobalRateLimit: no window of time sees more than                  *)
(* globalMaxPerWindow calls that passed it.                                *)
THEOREM GlobalWindowSlidesHolds == LimitsSpec => []GlobalWindowSlides
<1>1. LimitsInv => GlobalWindowSlides
  BY DEF LimitsInv
<1> QED
  BY InitHolds, StepHolds, <1>1, PTL DEF LimitsSpec

(* Both limits of callTool hold in every window of time.                   *)
THEOREM WindowsSlideHolds == LimitsSpec => []WindowsSlide
<1>1. LimitsInv => WindowsSlide
  BY DEF LimitsInv, WindowsSlide
<1> QED
  BY InitHolds, StepHolds, <1>1, PTL DEF LimitsSpec

-----------------------------------------------------------------------------
(* The advice to retry.  Stamps are not from the future and a tool's       *)
(* window holds admitted calls only.                                       *)
Past ==
    /\ \A i \in Calls : log[i].at <= clock /\ log[i].globalAt <= clock
    /\ \A t \in CallTools : toolCallWindows[t] \subseteq Admitted(t)

NoStraddle(i) == \A j \in 1 .. i : log[j].at = log[j].globalAt

(* When the latest call was refused for its tool, both windows have room   *)
(* from the instant on that its message named.                             *)
Room ==
    LET k == Len(log) IN
    (k > 0 /\ log[k].outcome = "tool limit" /\ NoStraddle(k)) =>
        \A now \in Nat : now >= log[k].retryAt =>
            GlobalPasses(ActiveGlobal(now)) /\ ToolPasses(ActiveTool(log[k].tool, now))

HintInv == Past /\ Room /\ HintIsHonoured

(* A call that ends keeps the advice honest unless it is refused where     *)
(* there is room.                                                          *)
LEMMA HintStaysHonest ==
  ASSUME LimitsInv, HintInv, NEW r \in CallRecord, log' = Append(log, r), r.globalAt = clock,
         (/\ r.at = clock
          /\ GlobalPasses(ActiveGlobal(clock)) /\ ToolPasses(ActiveTool(r.tool, clock)))
         => r.outcome \in Unlimited
  PROVE  HintIsHonoured'
<1> DEFINE n == Len(log) + 1
<1>1. LimitsTypeOK /\ clock \in Nat
  BY DEF LimitsInv, LimitsTypeOK
<1>2. /\ Len(log) \in Nat /\ Calls' = Calls \cup {n} /\ log'[n] = r
      /\ \A i \in Calls : log'[i] = log[i]
  BY <1>1, LogGrows
<1>3. \A i \in Calls : i \in Nat /\ (i > 1 => i - 1 \in Calls) /\ 1 .. i \subseteq Calls
  BY <1>2 DEF Calls
<1>4. SUFFICES ASSUME NEW i \in Calls',
                      i > 1 /\ \A j \in 1 .. i : log'[j].at = log'[j].globalAt,
                      /\ log'[i - 1].outcome = "tool limit" /\ log'[i].tool = log'[i - 1].tool
                      /\ log'[i].globalAt >= log'[i - 1].retryAt
               PROVE  log'[i].outcome \in Unlimited
  BY DEF HintIsHonoured
<1>5. CASE i \in Calls
  <2>1. \A j \in 1 .. i : log[j].at = log[j].globalAt
    BY <1>2, <1>3, <1>4, <1>5
  <2>2. log'[i] = log[i] /\ log'[i - 1] = log[i - 1]
    BY <1>2, <1>3, <1>4, <1>5
  <2> QED
    BY <1>4, <1>5, <2>1, <2>2 DEF HintInv, HintIsHonoured
<1>6. CASE i = n
  <2>1. Len(log) \in Nat /\ i = Len(log) + 1 /\ i > 1
    BY <1>2, <1>4, <1>6
  <2>2. i - 1 = Len(log) /\ Len(log) > 0
    BY <2>1
  <2>3. Len(log) \in 1 .. Len(log) /\ \A j \in 1 .. Len(log) : j \in 1 .. i
    BY <2>1, <2>2
  <2>4. Len(log) \in Calls /\ \A j \in 1 .. Len(log) : j \in 1 .. i /\ j \in Calls
    BY <2>3 DEF Calls
  <2>5. \A j \in 1 .. Len(log) : log[j].at = log[j].globalAt
    BY <1>2, <1>4, <2>4
  <2>6. log'[i] = r /\ log'[i - 1] = log[Len(log)]
    BY <1>2, <1>6, <2>2, <2>4
  <2>7. i \in 1 .. i
    BY <2>1
  <2>8. r.at = r.globalAt
    BY <1>4, <2>6, <2>7
  <2>9. GlobalPasses(ActiveGlobal(clock)) /\ ToolPasses(ActiveTool(r.tool, clock))
    <3>1. log[Len(log)].outcome = "tool limit" /\ r.tool = log[Len(log)].tool
          /\ clock >= log[Len(log)].retryAt
      BY <1>4, <2>6
    <3> QED
      BY <1>1, <2>2, <2>5, <3>1 DEF HintInv, Room, NoStraddle
  <2> QED
    BY <2>6, <2>8, <2>9
<1> QED
  BY <1>2, <1>5, <1>6

(* One call leaves a window before the next one comes.                     *)
LEMMA OneFewer ==
  ASSUME NEW w, IsFiniteSet(w), NEW max \in Nat, Cardinality(w) <= max,
         NEW x \in w, NEW S, S \subseteq w \ {x}
  PROVE  Cardinality(S) < max
<1>1. /\ IsFiniteSet(w \ {x}) /\ Cardinality(w) \in Nat
      /\ Cardinality(w \ {x}) = Cardinality(w) - 1
  BY FS_RemoveElement, FS_CardinalityType
<1>2. Cardinality(S) <= Cardinality(w \ {x}) /\ IsFiniteSet(S)
  BY <1>1, FS_Subset
<1> QED
  BY <1>1, <1>2, FS_CardinalityType

(* The stamps active in a tool's window lie together, so that there are    *)
(* never more of them than the limit.                                      *)
LEMMA ActiveWithinLimit ==
  ASSUME LimitsInv, Past, NEW t \in CallTools
  PROVE  /\ ActiveTool(t, clock) \subseteq Calls /\ IsFiniteSet(ActiveTool(t, clock))
         /\ Cardinality(ActiveTool(t, clock)) <= MaxPerTool
<1> DEFINE active == ActiveTool(t, clock)
<1>1. LimitsTypeOK /\ clock \in Nat /\ Window \in Nat
  BY ToolLimitsAssumption DEF LimitsInv, LimitsTypeOK
<1>2. active \subseteq Admitted(t) /\ active \subseteq Calls
  BY DEF Past, ActiveTool, Admitted
<1>3. \A i \in active : /\ clock - log[i].at < Window /\ log[i].at <= clock
                        /\ log[i].at \in Nat
  BY <1>1, <1>2, StampsAreNat DEF ActiveTool, Past
<1>4. Together(active)
  BY <1>1, <1>3 DEF Together
<1>5. Cardinality(active) <= MaxPerTool
  BY <1>2, <1>4 DEF LimitsInv, ToolWindowSlides
<1> QED
  BY <1>1, <1>2, <1>5, SubsetOfCallsIsFinite

(* A refusal for the tool names an instant from which on there is room:    *)
(* the oldest call of the tool has left both windows by then.              *)
LEMMA RefusalMakesRoom ==
  ASSUME MaxPerTool > 0, LimitsInv, HintInv, NEW t \in CallTools,
         GlobalPasses(ActiveGlobal(clock)), ChargeGlobal(ActiveGlobal(clock)),
         ~ToolPasses(ActiveTool(t, clock)), UNCHANGED toolCallWindows,
         NEW retry \in Nat, retry = RetryAt([i \in ActiveTool(t, clock) |-> log[i].at]),
         NEW r \in CallRecord, r.tool = t, r.at = clock, r.globalAt = clock,
         log' = Append(log, r), \A j \in Calls : log[j].at = log[j].globalAt,
         NEW now \in Nat, now >= retry
  PROVE  GlobalPasses(ActiveGlobal(now))' /\ ToolPasses(ActiveTool(t, now))'
<1> DEFINE active == ActiveTool(t, clock)
           global == ActiveGlobal(clock)
           n == Len(log) + 1
           old == Oldest(active)
<1>1. /\ LimitsTypeOK /\ clock \in Nat /\ Window \in Nat /\ MaxPerTool \in Nat /\ MaxGlobal \in Nat
      /\ globalCallWindow \subseteq Calls /\ toolCallWindows[t] \subseteq Calls
  BY ToolLimitsAssumption DEF LimitsInv, LimitsTypeOK
<1>2. /\ Len(log) \in Nat /\ n \notin Calls /\ Calls' = Calls \cup {n} /\ log'[n] = r
      /\ \A i \in Calls : log'[i] = log[i]
  BY <1>1, LogGrows
<1>3. /\ active \subseteq Calls /\ IsFiniteSet(active)
      /\ Cardinality(active) <= MaxPerTool /\ ~(Cardinality(active) < MaxPerTool)
  BY ActiveWithinLimit DEF HintInv, ToolPasses
<1>4. active # {}
  <2> HIDE DEF active
  <2> SUFFICES ASSUME active = {} PROVE FALSE
    OBVIOUS
  <2>1. Cardinality(active) = 0
    BY FS_EmptySet, Zenon
  <2> QED
    BY <1>1, <1>3, <2>1
<1>5. old \in active /\ old \in Calls
  <2>1. active \in SUBSET Nat
    BY <1>3, CallsAreNat
  <2> HIDE DEF active
  <2> QED
    BY <1>3, <1>4, <2>1, OldestExists
<1>6. retry = log[old].at + Window
  BY <1>4, <1>5 DEF RetryAt
<1>7. /\ log[old].at \in Nat /\ log[old].globalAt = log[old].at
      /\ clock - log[old].at < Window /\ log[old].at <= clock
  BY <1>1, <1>5, StampsAreNat DEF ActiveTool, HintInv, Past
<1>8. now >= clock /\ ~(now - log[old].at < Window)
  BY <1>1, <1>6, <1>7
<1>9. ToolPasses(ActiveTool(t, now))'
  <2>1. ActiveTool(t, now)' \subseteq active \ {old}
    <3> SUFFICES ASSUME NEW i \in toolCallWindows[t], now - log'[i].at < Window
                 PROVE  i \in active /\ i # old
      BY DEF ActiveTool
    <3>1. i \in Calls /\ log'[i] = log[i] /\ log[i].at \in Nat
      BY <1>1, <1>2, StampsAreNat
    <3>2. clock - log[i].at < Window
      BY <1>1, <1>8, <3>1
    <3> QED
      BY <1>8, <3>1, <3>2 DEF ActiveTool
  <2> HIDE DEF active, old
  <2>2. Cardinality(ActiveTool(t, now)') < MaxPerTool
    BY <1>1, <1>3, <1>5, <2>1, OneFewer
  <2> QED
    BY <2>2 DEF ToolPasses
<1>10. GlobalPasses(ActiveGlobal(now))'
  <2>1. old \in global
    <3>1. old \in Charged
      <4>1. old \in Admitted(t)
        BY <1>5 DEF HintInv, Past, ActiveTool
      <4> QED
        BY <4>1 DEF Admitted, Charged, Unlimited
    <3> QED
      BY <1>7, <3>1 DEF LimitsInv, GlobalWindowComplete, ActiveGlobal
  <2>2. global \subseteq Calls /\ IsFiniteSet(global) /\ Cardinality(global) < MaxGlobal
    <3>1. global \subseteq Calls
      BY <1>1 DEF ActiveGlobal
    <3> QED
      BY <1>1, <3>1, SubsetOfCallsIsFinite DEF GlobalPasses
  <2>3. ActiveGlobal(now)' \subseteq (global \cup {n}) \ {old}
    <3> SUFFICES ASSUME NEW i \in globalCallWindow', now - log'[i].globalAt < Window
                 PROVE  i \in global \cup {n} /\ i # old
      BY DEF ActiveGlobal
    <3>1. i \in global \cup {n}
      BY DEF ChargeGlobal
    <3>2. log'[old].globalAt = log[old].at
      BY <1>2, <1>5, <1>7
    <3> QED
      BY <1>8, <3>1, <3>2
  <2> HIDE DEF active, global, old, n
  <2>4. IsFiniteSet(global \cup {n}) /\ Cardinality(global \cup {n}) <= MaxGlobal
    BY <1>1, <2>2, OneMore, FS_AddElement
  <2>5. Cardinality(ActiveGlobal(now)') < MaxGlobal
    BY <1>1, <2>1, <2>3, <2>4, OneFewer
  <2> QED
    BY <2>5 DEF GlobalPasses
<1> QED
  BY <1>9, <1>10

(* The stamp of a new call is not from the future either.                  *)
LEMMA PastGoesOn ==
  ASSUME LimitsInv, Past, NEW r \in CallRecord, log' = Append(log, r),
         clock' \in Nat, clock <= clock', r.at <= clock', r.globalAt <= clock',
         \A t \in CallTools : toolCallWindows'[t] \subseteq toolCallWindows[t] \cup
             (IF r.tool = t /\ r.outcome \in Unlimited THEN {Len(log) + 1} ELSE {})
  PROVE  Past'
<1>1. LimitsTypeOK /\ clock \in Nat
  BY DEF LimitsInv, LimitsTypeOK
<1>2. /\ Calls' = Calls \cup {Len(log) + 1} /\ log'[Len(log) + 1] = r
      /\ \A i \in Calls : log'[i] = log[i]
      /\ \A t \in CallTools : Admitted(t)' = Admitted(t) \cup
             (IF r.tool = t /\ r.outcome \in Unlimited THEN {Len(log) + 1} ELSE {})
  BY <1>1, LogGrows
<1>3. \A i \in Calls : log[i].at \in Nat /\ log[i].globalAt \in Nat
  BY <1>1, StampsAreNat
<1>4. \A i \in Calls' : log'[i].at <= clock' /\ log'[i].globalAt <= clock'
  <2>1. ASSUME NEW i \in Calls
        PROVE  log'[i].at <= clock' /\ log'[i].globalAt <= clock'
    <3>1. /\ log[i].at \in Nat /\ log[i].globalAt \in Nat
          /\ log[i].at <= clock /\ log[i].globalAt <= clock
      BY <1>3 DEF Past
    <3>2. clock \in Nat /\ log'[i] = log[i]
      BY <1>1, <1>2
    <3> QED
      BY <3>1, <3>2
  <2> QED
    BY <1>2, <2>1
<1>5. \A t \in CallTools : toolCallWindows'[t] \subseteq Admitted(t)'
  BY <1>2 DEF Past
<1> QED
  BY <1>4, <1>5 DEF Past

(* Only a refusal for the tool leaves a promise behind.                    *)
LEMMA NoPromise ==
  ASSUME LimitsTypeOK, NEW r \in CallRecord, log' = Append(log, r), r.outcome # "tool limit"
  PROVE  Room'
<1>1. Len(log)' = Len(log) + 1 /\ log'[Len(log) + 1] = r
  BY Appended DEF LimitsTypeOK
<1> QED
  BY <1>1 DEF Room

LEMMA GlobalLimitedHints ==
  ASSUME LimitsInv, HintInv, NEW t \in CallTools, GlobalLimited(t)
  PROVE  HintInv'
<1> DEFINE active == ActiveGlobal(clock)
           retry == RetryAt([i \in active |-> log[i].globalAt])
           r == [tool |-> t, globalAt |-> clock, at |-> clock,
                 outcome |-> "global limit", retryAt |-> retry]
<1>1. LimitsTypeOK /\ clock \in Nat /\ globalCallWindow \subseteq Calls /\ MaxGlobal \in Nat
  BY ToolLimitsAssumption DEF LimitsInv, LimitsTypeOK
<1>2. active \in SUBSET Nat /\ active \subseteq Calls
  BY <1>1, CallsAreNat DEF ActiveGlobal
<1>3. [i \in active |-> log[i].globalAt] \in [active -> Nat]
  BY <1>1, <1>2, StampsAreNat
<1>4. IsFiniteSet(active)
  BY <1>1, <1>2, SubsetOfCallsIsFinite
<1>5. retry \in Nat /\ Cardinality(active) \in Nat
  <2> HIDE DEF active
  <2> QED
    BY <1>2, <1>3, <1>4, RetryAtType, FS_CardinalityType
<1>6. ~GlobalPasses(active)
  <2>1. Cardinality(active) >= MaxGlobal
    BY DEF GlobalLimited
  <2> HIDE DEF active
  <2> QED
    BY <1>1, <1>5, <2>1 DEF GlobalPasses
<1>7. /\ r \in CallRecord /\ r.outcome = "global limit" /\ r.outcome \notin Unlimited
      /\ r.globalAt = clock /\ r.at = clock
  <2> HIDE DEF retry
  <2> QED
    BY <1>1, <1>5 DEF CallRecord, Outcomes, Unlimited
<1>8. log' = Append(log, r) /\ clock' = clock /\ toolCallWindows' = toolCallWindows
  BY DEF GlobalLimited, Record
<1> HIDE DEF r
<1>9. clock <= clock' /\ clock' \in Nat /\ r.at <= clock' /\ r.globalAt <= clock'
  <2>1. clock \in Nat /\ clock' = clock /\ r.at = clock /\ r.globalAt = clock
    BY <1>1, <1>7, <1>8
  <2> QED
    BY <2>1
<1> HIDE DEF active
<1>10. HintIsHonoured'
  BY <1>6, <1>7, <1>8, HintStaysHonest DEF active
<1>11. Past'
  BY <1>7, <1>8, <1>9, PastGoesOn DEF HintInv
<1>12. Room'
  BY <1>1, <1>7, <1>8, NoPromise
<1> QED
  BY <1>10, <1>11, <1>12 DEF HintInv

LEMMA ToolLimitedHints ==
  ASSUME MaxPerTool > 0, LimitsInv, HintInv, NEW t \in CallTools, ToolLimited(t)
  PROVE  HintInv'
<1>1. PICK late \in 0 .. Straddle :
        /\ GlobalPasses(ActiveGlobal(clock)) /\ ChargeGlobal(ActiveGlobal(clock))
        /\ ~ToolPasses(ActiveTool(t, clock + late)) /\ clock' = clock + late
        /\ Record(t, clock, clock + late, "tool limit",
                  RetryAt([i \in ActiveTool(t, clock + late) |-> log[i].at]))
        /\ UNCHANGED toolCallWindows
  BY DEF ToolLimited
<1> DEFINE active == ActiveTool(t, clock + late)
           retry == RetryAt([i \in active |-> log[i].at])
           r == [tool |-> t, globalAt |-> clock, at |-> clock + late,
                 outcome |-> "tool limit", retryAt |-> retry]
<1>2. LimitsTypeOK /\ clock \in Nat /\ late \in Nat
  BY ToolLimitsAssumption DEF LimitsInv, LimitsTypeOK
<1>3. active \in SUBSET Nat /\ active \subseteq Calls
  BY <1>2, CallsAreNat DEF ActiveTool, LimitsTypeOK
<1>4. [i \in active |-> log[i].at] \in [active -> Nat]
  BY <1>2, <1>3, StampsAreNat
<1>5. retry \in Nat
  <2> HIDE DEF active
  <2> QED
    BY <1>3, <1>4, RetryAtType
<1>6. /\ r \in CallRecord /\ r.outcome = "tool limit" /\ r.outcome \notin Unlimited
      /\ r.globalAt = clock /\ r.at = clock + late /\ r.tool = t /\ r.retryAt = retry
  <2> HIDE DEF retry
  <2> QED
    BY <1>2, <1>5 DEF CallRecord, Outcomes, Unlimited
<1>7. log' = Append(log, r)
  BY <1>1 DEF Record
<1> HIDE DEF r
<1>8. clock <= clock' /\ clock' \in Nat /\ r.at <= clock' /\ r.globalAt <= clock'
  <2>1. clock' = clock + late /\ r.globalAt = clock /\ r.at = clock + late
    BY <1>1, <1>6
  <2>2. clock \in Nat /\ late \in Nat
    BY <1>2
  <2> QED
    BY <2>1, <2>2
<1>9. r.at = clock => late = 0
  <2>1. clock \in Nat /\ late \in Nat /\ r.at = clock + late
    BY <1>2, <1>6
  <2> QED
    BY <2>1
<1>10. HintIsHonoured'
  <2>1. (r.at = clock /\ ToolPasses(ActiveTool(r.tool, clock))) => FALSE
    <3>1. late = 0 => clock + late = clock
      BY <1>2
    <3> QED
      BY <1>1, <1>6, <1>9, <3>1
  <2> QED
    BY <1>6, <1>7, <2>1, HintStaysHonest
<1>11. Past'
  BY <1>1, <1>6, <1>7, <1>8, PastGoesOn DEF HintInv
<1>12. Room'
  <2>1. /\ Len(log)' = Len(log) + 1 /\ Len(log) \in Nat /\ log'[Len(log) + 1] = r
        /\ \A i \in Calls : log'[i] = log[i] /\ i \in 1 .. (Len(log) + 1)
    BY <1>2, <1>7, Appended DEF LimitsTypeOK, Calls
  <2> SUFFICES ASSUME NoStraddle(Len(log))', NEW now \in Nat, now >= retry
               PROVE  GlobalPasses(ActiveGlobal(now))' /\ ToolPasses(ActiveTool(t, now))'
    <3>1. Len(log)' = Len(log) + 1 /\ log'[Len(log)'] = r
      BY <2>1
    <3>2. log'[Len(log)'].retryAt = retry /\ log'[Len(log)'].tool = t
      BY <1>6, <3>1
    <3> QED
      BY <3>1, <3>2, Zenon DEF Room
  <2>2. \A j \in Calls : log[j].at = log[j].globalAt
    BY <2>1 DEF NoStraddle
  <2>3. r.at = r.globalAt
    BY <2>1 DEF NoStraddle
  <2>4. late = 0 /\ clock + late = clock
    BY <1>2, <1>6, <1>9, <2>3
  <2>5. retry = RetryAt([i \in ActiveTool(t, clock) |-> log[i].at]) /\ ~ToolPasses(ActiveTool(t, clock))
    BY <1>1, <2>4
  <2> HIDE DEF retry
  <2> QED
    BY <1>1, <1>5, <1>6, <1>7, <2>2, <2>3, <2>5, RefusalMakesRoom
<1> QED
  BY <1>10, <1>11, <1>12 DEF HintInv

LEMMA AdmitHints ==
  ASSUME LimitsInv, HintInv, NEW t \in CallTools, NEW o \in Unlimited, Admit(t, o)
  PROVE  HintInv'
<1>1. PICK late \in 0 .. Straddle :
        /\ toolCallWindows' = [toolCallWindows EXCEPT
               ![t] = ActiveTool(t, clock + late) \cup {Len(log) + 1}]
        /\ clock' = clock + late
        /\ Record(t, clock, clock + late, o, 0)
  BY DEF Admit
<1> DEFINE r == [tool |-> t, globalAt |-> clock, at |-> clock + late,
                 outcome |-> o, retryAt |-> 0]
<1>2. LimitsTypeOK /\ clock \in Nat /\ late \in Nat /\ toolCallWindows \in [CallTools -> SUBSET Calls]
  BY ToolLimitsAssumption DEF LimitsInv, LimitsTypeOK
<1>3. /\ r \in CallRecord /\ r.tool = t /\ r.outcome \in Unlimited /\ r.outcome # "tool limit"
      /\ r.globalAt = clock /\ r.at = clock + late
  <2>1. o \in Outcomes /\ o # "tool limit"
    BY DEF Outcomes, Unlimited
  <2>2. clock + late \in Nat
    BY <1>2
  <2> QED
    BY <1>2, <2>1, <2>2 DEF CallRecord
<1>4. log' = Append(log, r)
  BY <1>1 DEF Record
<1> HIDE DEF r
<1>5. clock <= clock' /\ clock' \in Nat /\ r.at <= clock' /\ r.globalAt <= clock'
  <2>1. clock' = clock + late /\ r.globalAt = clock /\ r.at = clock + late
    BY <1>1, <1>3
  <2>2. clock \in Nat /\ late \in Nat
    BY <1>2
  <2> QED
    BY <2>1, <2>2
<1>6. \A u \in CallTools : toolCallWindows'[u] \subseteq toolCallWindows[u] \cup
          (IF r.tool = u /\ r.outcome \in Unlimited THEN {Len(log) + 1} ELSE {})
  BY <1>1, <1>2, <1>3 DEF ActiveTool
<1>7. Past'
  BY <1>3, <1>4, <1>5, <1>6, PastGoesOn DEF HintInv
<1>8. HintIsHonoured'
  BY <1>3, <1>4, HintStaysHonest
<1>9. Room'
  BY <1>2, <1>3, <1>4, NoPromise
<1> QED
  BY <1>7, <1>8, <1>9 DEF HintInv

LEMMA CallHints ==
  ASSUME MaxPerTool > 0, LimitsInv, HintInv, NEW t \in CallTools, CallTool(t)
  PROVE  HintInv'
<1>1. CASE GlobalLimited(t)
  BY <1>1, GlobalLimitedHints
<1>2. CASE ToolLimited(t)
  BY <1>2, ToolLimitedHints
<1>3. CASE \E o \in Unlimited : Admit(t, o)
  BY <1>3, AdmitHints
<1>4. GlobalLimited(t) \/ ToolLimited(t) \/ \E o \in Unlimited : Admit(t, o)
  BY DEF CallTool, Invalid, Envelope, Plain, Throttled, Malformed, Unlimited
<1> QED
  BY <1>1, <1>2, <1>3, <1>4

(* HintIsHonoured, where the limit per tool is not zero: with a limit of   *)
(* zero the message names no instant, and the call is never let through.   *)
THEOREM HintIsHonouredHolds ==
  ASSUME MaxPerTool > 0
  PROVE  LimitsSpec => []HintIsHonoured
<1>1. LimitsInit => HintInv
  <2> SUFFICES ASSUME LimitsInit PROVE HintInv
    OBVIOUS
  <2>1. Calls = {} /\ Len(log) = 0
    BY DEF LimitsInit, Calls
  <2> QED
    BY <2>1 DEF LimitsInit, HintInv, Past, Room, HintIsHonoured
<1>2. LimitsInv /\ HintInv /\ [LimitsNext]_limitVars => HintInv'
  <2> SUFFICES ASSUME LimitsInv, HintInv, [LimitsNext]_limitVars PROVE HintInv'
    OBVIOUS
  <2>1. ASSUME NEW t \in CallTools, CallTool(t)
        PROVE  HintInv'
    BY <2>1, CallHints
  <2>2. CASE UNCHANGED << globalCallWindow, toolCallWindows, log >> /\ clock' \in {clock, clock + 1}
    <3>1. /\ Calls' = Calls /\ \A t \in CallTools : Admitted(t)' = Admitted(t)
          /\ \A now : ActiveGlobal(now)' = ActiveGlobal(now)
          /\ \A t \in CallTools : \A now : ActiveTool(t, now)' = ActiveTool(t, now)
      BY <2>2 DEF Calls, Admitted, ActiveGlobal, ActiveTool
    <3>2. LimitsTypeOK /\ clock \in Nat
      BY DEF LimitsInv, LimitsTypeOK
    <3>3. Past'
      <4>1. \A i \in Calls : log[i].at \in Nat /\ log[i].globalAt \in Nat
        BY <3>2, StampsAreNat
      <4> QED
        BY <2>2, <3>1, <3>2, <4>1 DEF HintInv, Past
    <3>4. Room' /\ HintIsHonoured'
      BY <2>2, <3>1 DEF HintInv, Room, HintIsHonoured, NoStraddle, GlobalPasses, ToolPasses,
         Calls, ActiveGlobal, ActiveTool
    <3> QED
      BY <3>3, <3>4 DEF HintInv
  <2>3. CASE Tick \/ UNCHANGED limitVars
    BY <2>2, <2>3 DEF Tick, limitVars
  <2> QED
    BY <2>1, <2>3 DEF LimitsNext
<1>3. HintInv => HintIsHonoured
  BY DEF HintInv
<1> QED
  BY <1>1, <1>2, <1>3, InitHolds, StepHolds, PTL DEF LimitsSpec

-----------------------------------------------------------------------------
(* The egress policy.                                                      *)
-----------------------------------------------------------------------------
(* A JSON value is finite: it has a depth, and its parts have less.        *)
JsonIsFinite ==
    \E depth \in [Values -> Nat] : \A v \in Values : \A x \in Parts(v) : depth[x] < depth[v]

LEMMA PartsAreValues ==
  ASSUME NEW v \in Values
  PROVE  /\ Parts(v) \subseteq Values
         /\ LookedAt(v) \subseteq Parts(v)
         /\ Len(v.of) \in Nat
         /\ v.of = <<>> <=> Len(v.of) = 0
         /\ v.of = <<>> <=> Parts(v) = {}
         /\ v.t \in {"text", "arr", "obj"} \/ Parts(v) = {}
<1>1. v.of \in Seq(Values)
  BY EgressAssumption
<1>2. Parts(v) \subseteq Values /\ (v.of = <<>> <=> Len(v.of) = 0) /\ Len(v.of) \in Nat
  BY <1>1 DEF Parts
<1>3. v.of = <<>> <=> Parts(v) = {}
  <2>1. CASE v.of = <<>>
    BY <2>1 DEF Parts
  <2>2. CASE v.of # <<>>
    <3>1. 1 \in DOMAIN v.of
      BY <1>1, <2>2
    <3> QED
      BY <2>2, <3>1 DEF Parts
  <2> QED
    BY <2>1, <2>2
<1>4. LookedAt(v) \subseteq Parts(v)
  BY DEF LookedAt
<1> QED
  BY <1>2, <1>3, <1>4, EgressAssumption

(* The values looked at from v on: the least set that holds v and, with a  *)
(* value, what is looked at in it.                                         *)
ClosedFor(v, S) == v \in S /\ \A y \in S : LookedAt(y) \subseteq S
Reached(v) == {x \in Values : \A S \in SUBSET Values : ClosedFor(v, S) => x \in S}

LEMMA ReachedUnfolds ==
  ASSUME NEW v \in Values
  PROVE  Reached(v) = {v} \cup UNION {Reached(y) : y \in LookedAt(v)}
<1>1. ASSUME NEW y \in LookedAt(v), NEW x \in Reached(y)
      PROVE  x \in Reached(v)
  BY <1>1 DEF Reached, ClosedFor
<1>2. v \in Reached(v)
  BY DEF Reached, ClosedFor
<1>3. ASSUME NEW x \in Reached(v)
      PROVE  x \in {v} \cup UNION {Reached(y) : y \in LookedAt(v)}
  <2> DEFINE S == {v} \cup UNION {Reached(y) : y \in LookedAt(v)}
  <2>1. S \in SUBSET Values
    BY DEF Reached
  <2>2. \A y \in Values : y \in Reached(y)
    BY DEF Reached, ClosedFor
  <2>3. ASSUME NEW y \in Values, NEW z \in Reached(y)
        PROVE  LookedAt(z) \subseteq Reached(y)
    <3>1. z \in Values /\ LookedAt(z) \subseteq Values
      BY <2>3, PartsAreValues DEF Reached
    <3> QED
      BY <2>3, <3>1 DEF Reached, ClosedFor
  <2>4. LookedAt(v) \subseteq Values
    BY PartsAreValues
  <2>5. ASSUME NEW z \in S
        PROVE  LookedAt(z) \subseteq S
    <3>1. CASE z = v
      BY <2>2, <2>4, <3>1
    <3>2. CASE z # v
      <4>1. PICK y \in LookedAt(v) : z \in Reached(y)
        BY <3>2
      <4>2. LookedAt(z) \subseteq Reached(y)
        BY <2>3, <2>4, <4>1
      <4> QED
        BY <4>2
    <3> QED
      BY <3>1, <3>2
  <2>6. ClosedFor(v, S)
    BY <2>5 DEF ClosedFor
  <2> QED
    BY <1>3, <2>1, <2>6 DEF Reached
<1> QED
  BY <1>1, <1>2, <1>3

(* The recursion of Within has a solution, and Within is one.              *)
Solves(w) == w = [x \in Values |-> {x} \cup UNION {w[y] : y \in LookedAt(x)}]

LEMMA WithinUnfolds ==
  ASSUME NEW v \in Values
  PROVE  Within(v) = {v} \cup UNION {Within(y) : y \in LookedAt(v)}
<1> DEFINE w == CHOOSE g : Solves(g)
<1>1. Solves([x \in Values |-> Reached(x)])
  <2> DEFINE r == [x \in Values |-> Reached(x)]
  <2>1. \A x \in Values : {r[y] : y \in LookedAt(x)} = {Reached(y) : y \in LookedAt(x)}
    BY PartsAreValues
  <2>2. \A x \in Values : Reached(x) = {x} \cup UNION {r[y] : y \in LookedAt(x)}
    BY <2>1, ReachedUnfolds
  <2> HIDE DEF r
  <2>3. r = [x \in Values |-> {x} \cup UNION {r[y] : y \in LookedAt(x)}]
    BY <2>2 DEF r
  <2> QED
    BY <2>3 DEF Solves, r
<1>2. Solves(w)
  BY <1>1
<1>3. \A x : Within(x) = w[x]
  BY DEF Within, Solves
<1> HIDE DEF w
<1>4. w[v] = {v} \cup UNION {w[y] : y \in LookedAt(v)}
  BY <1>2 DEF Solves
<1> QED
  BY <1>3, <1>4

(* What the policy holds against a value itself, whatever is inside it.    *)
Offends(x, p, n) ==
    \/ (IsTable(x) \/ x.t = "obj") /\ ~(Len(x.of) <= p.rows)
    \/ IsList(x) /\ ~p.primitives
    \/ x.t = "obj" /\ IsSmall(n) /\ (~(Len(x.of) <= SmallKeys) \/ \E y \in Parts(x) : IsContainer(y))

LEMMA AggregatedIs ==
  ASSUME NEW v, NEW p, NEW n
  PROVE  Aggregated(v, p, n) <=> \A x \in Within(v) : ~Offends(x, p, n)
BY DEF Aggregated, Offends

(* One level of the recursion of violatesAggregationFirstPolicy.           *)
Violation(g, v, p, n) ==
    LET inside == \E x \in Parts(v) : g[x] IN
    CASE v.t = "text" -> inside
      [] v.t = "arr" /\ v.of # <<>> /\ \A x \in Parts(v) : IsContainer(x) ->
            Len(v.of) > p.rows \/ inside
      [] v.t = "arr" /\ v.of # <<>> /\ \A x \in Parts(v) : ~IsContainer(x) ->
            ~p.primitives
      [] v.t = "arr" /\ ~(v.of # <<>> /\ \A x, y \in Parts(v) : IsContainer(x) <=> IsContainer(y)) ->
            inside
      [] v.t = "obj" ->
            \/ IsSmall(n) /\ Len(v.of) > SmallKeys
            \/ IsSmall(n) /\ \E x \in Parts(v) : IsContainer(x)
            \/ Len(v.of) > p.rows
            \/ inside
      [] OTHER -> FALSE

LEMMA ViolationIs ==
  ASSUME NEW g, NEW v \in Values, NEW p, p.rows \in Nat, NEW n
  PROVE  Violation(g, v, p, n) <=> Offends(v, p, n) \/ \E y \in LookedAt(v) : g[y]
<1>0. /\ SmallKeys \in Nat /\ Len(v.of) \in Nat /\ (v.of = <<>> <=> Len(v.of) = 0) /\ (v.of = <<>> <=> Parts(v) = {})
      /\ v.t \in {"text", "arr", "obj"} \/ Parts(v) = {}
  BY PartsAreValues, EgressAssumption
<1>1. CASE v.t = "text"
  BY <1>1, <1>0 DEF Violation, Offends, LookedAt, IsTable, IsList
<1>2. CASE v.t = "obj"
  BY <1>2, <1>0 DEF Violation, Offends, LookedAt, IsTable, IsList
<1>3. CASE v.t = "arr" /\ v.of = <<>>
  <2>1. ~(Len(v.of) > p.rows)
    BY <1>0, <1>3
  <2>2. LookedAt(v) = {} /\ Parts(v) = {}
    BY <1>0, <1>3 DEF LookedAt
  <2> QED
    BY <1>3, <2>1, <2>2 DEF Violation, Offends, IsTable, IsList
<1>4. CASE v.t = "arr" /\ v.of # <<>> /\ \A x \in Parts(v) : IsContainer(x)
  BY <1>0, <1>4 DEF Violation, Offends, LookedAt, IsTable, IsList
<1>5. CASE v.t = "arr" /\ v.of # <<>> /\ \A x \in Parts(v) : ~IsContainer(x)
  BY <1>0, <1>5 DEF Violation, Offends, LookedAt, IsTable, IsList
<1>6. CASE v.t = "arr" /\ v.of # <<>> /\ \E x, y \in Parts(v) : IsContainer(x) /\ ~IsContainer(y)
  BY <1>0, <1>6 DEF Violation, Offends, LookedAt, IsTable, IsList
<1>7. CASE v.t \notin {"text", "arr", "obj"}
  <2>1. LookedAt(v) = {} /\ Parts(v) = {}
    BY <1>0, <1>7 DEF LookedAt
  <2>2. ~Offends(v, p, n)
    BY <1>7 DEF Offends, IsTable, IsList
  <2>3. ~Violation(g, v, p, n)
    BY <1>7 DEF Violation
  <2> QED
    BY <2>1, <2>2, <2>3
<1> QED
  BY <1>1, <1>2, <1>3, <1>4, <1>5, <1>6, <1>7

Judges(f, p, n) == f = [v \in Values |-> Violation(f, v, p, n)]

(* There is one way to judge all values, and it looks for an offence       *)
(* anywhere within the value.                                              *)
LEMMA OneJudgement ==
  ASSUME JsonIsFinite, NEW p, p.rows \in Nat, NEW n, NEW f, Judges(f, p, n), NEW v \in Values
  PROVE  f[v] <=> \E x \in Within(v) : Offends(x, p, n)
<1> DEFINE Found(x) == \E y \in Within(x) : Offends(y, p, n)
<1>1. PICK depth \in [Values -> Nat] : \A x \in Values : \A y \in Parts(x) : depth[y] < depth[x]
  BY DEF JsonIsFinite
<1>2. \A x \in Values : Found(x) <=> Offends(x, p, n) \/ \E y \in LookedAt(x) : Found(y)
  BY WithinUnfolds
<1>3. \A x \in Values : f[x] <=> Offends(x, p, n) \/ \E y \in LookedAt(x) : f[y]
  <2> SUFFICES ASSUME NEW x \in Values
               PROVE  f[x] <=> Offends(x, p, n) \/ \E y \in LookedAt(x) : f[y]
    OBVIOUS
  <2>1. f[x] = Violation(f, x, p, n)
    BY DEF Judges
  <2> QED
    BY <2>1, ViolationIs
<1> HIDE DEF Found
<1>4. \A x \in Values : f[x] <=> Found(x)
  <2> SUFFICES ASSUME \E x \in Values : ~(f[x] <=> Found(x)) PROVE FALSE
    OBVIOUS
  <2> DEFINE D == {depth[x] : x \in {y \in Values : ~(f[y] <=> Found(y))}}
             R == {ij \in Nat \X Nat : ij[1] < ij[2]}
  <2>1. D \subseteq Nat /\ D # {}
    BY <1>1
  <2>2. IsWellFoundedOn(R, Nat)
    BY NatLessThanWellFounded DEF OpToRel, IsWellFoundedOn
  <2>3. PICK d \in D : \A e \in D : <<e, d>> \notin R
    BY <2>1, <2>2, WFMin
  <2>4. PICK x \in Values : ~(f[x] <=> Found(x)) /\ d = depth[x]
    BY <2>3
  <2>5. ASSUME NEW y \in LookedAt(x)
        PROVE  f[y] <=> Found(y)
    <3>1. y \in Parts(x) /\ y \in Values
      BY PartsAreValues
    <3>2. depth[y] < d /\ depth[y] \in Nat /\ d \in Nat
      BY <1>1, <2>4, <3>1
    <3> QED
      BY <2>3, <3>1, <3>2
  <2> QED
    BY <1>2, <1>3, <2>4, <2>5
<1> QED
  BY <1>4 DEF Found

LEMMA JudgementExists ==
  ASSUME NEW p, p.rows \in Nat, NEW n
  PROVE  \E f : Judges(f, p, n)
<1> DEFINE f == [v \in Values |-> \E x \in Within(v) : Offends(x, p, n)]
<1>1. ASSUME NEW v \in Values
      PROVE  f[v] = Violation(f, v, p, n)
  <2>1. f[v] <=> Offends(v, p, n) \/ \E y \in LookedAt(v) : f[y]
    <3>1. \A y \in LookedAt(v) : f[y] <=> \E x \in Within(y) : Offends(x, p, n)
      BY PartsAreValues
    <3>2. f[v] <=> \E x \in {v} \cup UNION {Within(y) : y \in LookedAt(v)} : Offends(x, p, n)
      BY WithinUnfolds
    <3> HIDE DEF f
    <3> QED
      BY <3>1, <3>2
  <2>2. f[v] \in BOOLEAN
    OBVIOUS
  <2>3. Violation(f, v, p, n) \in BOOLEAN
    BY DEF Violation
  <2> HIDE DEF f
  <2> QED
    BY <2>1, <2>2, <2>3, ViolationIs
<1> HIDE DEF f
<1>2. f = [v \in Values |-> Violation(f, v, p, n)]
  BY <1>1 DEF f
<1> QED
  BY <1>2 DEF Judges

(* violatesAggregationFirstPolicy decides what it should: it holds         *)
(* something against a value exactly if the value, or what is looked at    *)
(* inside it at any depth, is not aggregated.                              *)
THEOREM PolicyIsExact ==
  ASSUME JsonIsFinite, NEW v \in Values, NEW p, p.rows \in Nat, NEW n
  PROVE  violatesAggregationFirstPolicy(v, p, n) <=> p.aggregate /\ ~Aggregated(v, p, n)
<1> DEFINE f == CHOOSE g : Judges(g, p, n)
<1>1. Judges(f, p, n)
  BY JudgementExists
<1>2. violatesAggregationFirstPolicy(v, p, n) <=> p.aggregate /\ f[v]
  BY DEF violatesAggregationFirstPolicy, Judges, Violation
<1> HIDE DEF f
<1>3. f[v] <=> \E x \in Within(v) : Offends(x, p, n)
  BY <1>1, OneJudgement
<1> QED
  BY <1>2, <1>3, AggregatedIs

-----------------------------------------------------------------------------
Phases == {"queued", "refused", "released", "lost", "scanning"} \cup Working \cup {"returned"}
JobRecord == [phase : Phases, tool : DOMAIN Policies, logic : {"js", "wasm"}, n : Nat, at : Nat,
              output : Values, proof : {"hmac", "groth16"}]

(* A call runs on the data of its beginning, and what it has released was  *)
(* judged by the number of records, if they are still those.               *)
Judged(j, size, turns) ==
    /\ j.at <= turns
    /\ j.at = turns => j.n = size
    /\ (j.phase = "released" /\ j.at = turns)
         => ~violatesAggregationFirstPolicy(j.output, Policies[j.tool], j.n)

ExecInv ==
    /\ records \in Nat /\ replaced \in Nat /\ menu \in DOMAIN Menus
    /\ job \in [Jobs -> JobRecord \cup {NoJob}]
    /\ \A c \in Jobs : job[c].phase # "none" => job[c] \in JobRecord /\ Judged(job[c], records, replaced)

LEMMA JobIs ==
  ASSUME ExecInv, NEW c \in Jobs, job[c].phase # "none"
  PROVE  job[c] \in JobRecord /\ Judged(job[c], records, replaced)
BY DEF ExecInv

(* A call goes on, to a phase in which nothing is released, or anew.       *)
LEMMA JobGoesOn ==
  ASSUME ExecInv, NEW c \in Jobs, NEW j \in JobRecord, job' = [job EXCEPT ![c] = j], Judged(j, records, replaced),
         UNCHANGED <<records, replaced, menu>>
  PROVE  ExecInv'
<1>1. j.phase # "none"
  BY DEF JobRecord, Phases, Working
<1>2. \A d \in Jobs : job'[d] = IF d = c THEN j ELSE job[d]
  BY DEF ExecInv
<1>3. job' \in [Jobs -> JobRecord \cup {NoJob}]
  BY <1>2 DEF ExecInv
<1> QED
  BY <1>2, <1>3 DEF ExecInv

LEMMA PhaseGoesOn ==
  ASSUME ExecInv, NEW c \in Jobs, job[c].phase # "none", NEW phase \in Phases \ {"released"}, Goes(c, phase),
         UNCHANGED <<records, replaced, menu>>
  PROVE  ExecInv'
<1> DEFINE j == [job[c] EXCEPT !.phase = phase]
<1>1. job[c] \in JobRecord /\ Judged(job[c], records, replaced)
  BY JobIs
<1>2. j \in JobRecord
  BY <1>1 DEF JobRecord
<1>3. Judged(j, records, replaced)
  BY <1>1 DEF Judged, JobRecord
<1>4. job' = [job EXCEPT ![c] = j]
  BY DEF Goes, ExecInv
<1> HIDE DEF j
<1> QED
  BY <1>2, <1>3, <1>4, JobGoesOn

(* What executeInWorkerPool lets out under the policy is aggregated, at    *)
(* every depth, for the number of records it was computed from, unless     *)
(* setSandboxData replaced the data meanwhile.                             *)
THEOREM ReleasedIsAggregatedHolds ==
  ASSUME JsonIsFinite
  PROVE  ExecSpec => []ReleasedIsAggregated
<1>1. ExecInit => ExecInv
  BY ExecutionAssumption DEF ExecInit, ExecInv, NoJob
<1>2. ExecInv /\ [ExecNext]_execVars => ExecInv'
  <2> SUFFICES ASSUME ExecInv, [ExecNext]_execVars PROVE ExecInv'
    OBVIOUS
  <2>0. /\ {"queued", "refused", "started", "ready", "scanning", "teardown", "hung", "returned"} \subseteq Phases \ {"released"}
        /\ {"ran", "proving"} \subseteq Phases \ {"released"}
    BY DEF Phases, Working
  <2>1. ASSUME NEW c \in Jobs, NEW t \in DOMAIN Policies, NEW logic \in {"js", "wasm"},
               ExecuteInWorkerPool(c, t, logic)
        PROVE  ExecInv'
    <3>1. PICK phase \in {"queued", "refused"} :
            job' = [job EXCEPT ![c] = [phase |-> phase, tool |-> t, logic |-> logic, n |-> records,
                                       at |-> replaced, output |-> Str, proof |-> "hmac"]]
      BY <2>1 DEF ExecuteInWorkerPool
    <3> DEFINE j == [phase |-> phase, tool |-> t, logic |-> logic, n |-> records,
                     at |-> replaced, output |-> Str, proof |-> "hmac"]
    <3>2. j \in JobRecord
      BY <2>0, EgressAssumption DEF JobRecord, ExecInv
    <3>3. Judged(j, records, replaced)
      BY DEF Judged, ExecInv
    <3>4. UNCHANGED <<records, replaced, menu>>
      BY <2>1 DEF ExecuteInWorkerPool
    <3> HIDE DEF j
    <3> QED
      BY <3>1, <3>2, <3>3, <3>4, JobGoesOn DEF j
  <2>2. ASSUME NEW c \in Jobs, TakeThread(c) \/ SandboxInit(c) \/ WorkerDies(c) \/ Teardown(c)
        PROVE  ExecInv'
    <3>1. job[c].phase # "none" /\ UNCHANGED <<records, replaced, menu>>
      BY <2>2 DEF TakeThread, SandboxInit, WorkerDies, Teardown
    <3>2. \E phase \in Phases \ {"released"} : Goes(c, phase)
      BY <2>0, <2>2 DEF TakeThread, SandboxInit, WorkerDies, Teardown, Refuses
    <3> QED
      BY <3>1, <3>2, PhaseGoesOn
  <2>3. ASSUME NEW c \in Jobs, RunScript(c) \/ RunModule(c)
        PROVE  ExecInv'
    <3>1. job[c].phase # "none" /\ UNCHANGED <<records, replaced, menu>>
      BY <2>3 DEF RunScript, RunModule
    <3>2. CASE \E phase \in Phases \ {"released"} : Goes(c, phase)
      BY <3>1, <3>2, PhaseGoesOn
    <3>3. CASE Returns(c)
      <4>1. PICK v \in Menus[menu].outputs : job' = [job EXCEPT ![c].phase = "ran", ![c].output = v]
        BY <3>3 DEF Returns
      <4> DEFINE j == [job[c] EXCEPT !.phase = "ran", !.output = v]
      <4>2. job[c] \in JobRecord /\ Judged(job[c], records, replaced)
        BY <3>1, JobIs
      <4>3. v \in Values
        BY ExecutionAssumption DEF ExecInv
      <4>4. j \in JobRecord
        BY <2>0, <4>2, <4>3 DEF JobRecord
      <4>5. Judged(j, records, replaced)
        BY <4>2 DEF Judged, JobRecord
      <4>6. job' = [job EXCEPT ![c] = j]
        BY <4>1 DEF ExecInv
      <4> HIDE DEF j
      <4> QED
        BY <3>1, <4>4, <4>5, <4>6, JobGoesOn
    <3> QED
      BY <2>0, <2>3, <3>2, <3>3 DEF RunScript, RunModule
  <2>4. ASSUME NEW c \in Jobs, Prove(c)
        PROVE  ExecInv'
    <3>1. job[c].phase # "none" /\ UNCHANGED <<records, replaced, menu>>
      BY <2>4 DEF Prove
    <3>2. CASE Goes(c, "teardown")
      BY <2>0, <3>1, <3>2, PhaseGoesOn
    <3>3. CASE job' = [job EXCEPT ![c].phase = "proving",
                                  ![c].proof = IF PolicyOf(c).zk = "none" THEN "hmac" ELSE "groth16"]
      <4>1. PICK proof \in {"hmac", "groth16"} : proof = IF PolicyOf(c).zk = "none" THEN "hmac" ELSE "groth16"
        OBVIOUS
      <4> DEFINE j == [job[c] EXCEPT !.phase = "proving", !.proof = proof]
      <4>2. job[c] \in JobRecord /\ Judged(job[c], records, replaced)
        BY <3>1, JobIs
      <4>3. j \in JobRecord
        BY <2>0, <4>2 DEF JobRecord
      <4>4. Judged(j, records, replaced)
        BY <4>2 DEF Judged, JobRecord
      <4>5. job' = [job EXCEPT ![c] = j]
        BY <3>3, <4>1 DEF ExecInv
      <4> HIDE DEF j
      <4> QED
        BY <3>1, <4>3, <4>4, <4>5, JobGoesOn
    <3> QED
      BY <2>4, <3>2, <3>3 DEF Prove
  <2>5. ASSUME NEW c \in Jobs, CheckOutput(c)
        PROVE  ExecInv'
    <3>1. job[c].phase # "none" /\ UNCHANGED <<records, replaced, menu>>
      BY <2>5 DEF CheckOutput
    <3>2. \E phase \in {"refused", "scanning"} : Goes(c, phase)
      BY <2>5 DEF CheckOutput
    <3> QED
      BY <2>0, <3>1, <3>2, PhaseGoesOn
  <2>6. ASSUME NEW c \in Jobs, ScanOutput(c)
        PROVE  ExecInv'
    <3>1. job[c].phase # "none" /\ UNCHANGED <<records, replaced, menu>>
      BY <2>6 DEF ScanOutput
    <3>2. CASE Goes(c, "refused")
      BY <2>0, <3>1, <3>2, PhaseGoesOn
    <3>3. CASE Goes(c, "released") /\ ~violatesAggregationFirstPolicy(job[c].output, PolicyOf(c), records)
      <4> DEFINE j == [job[c] EXCEPT !.phase = "released"]
      <4>1. job[c] \in JobRecord /\ Judged(job[c], records, replaced)
        BY <3>1, JobIs
      <4>2. j \in JobRecord
        BY <4>1 DEF JobRecord, Phases
      <4>3. Judged(j, records, replaced)
        <5>1. j.output = job[c].output /\ j.tool = job[c].tool /\ j.n = job[c].n /\ j.at = job[c].at
          BY <4>1 DEF JobRecord
        <5> HIDE DEF j
        <5> QED
          BY <3>3, <4>1, <5>1 DEF Judged, PolicyOf
      <4>4. job' = [job EXCEPT ![c] = j]
        BY <3>3 DEF Goes, ExecInv
      <4> HIDE DEF j
      <4> QED
        BY <3>1, <4>2, <4>3, <4>4, JobGoesOn
    <3> QED
      BY <2>6, <3>2, <3>3 DEF ScanOutput
  <2>7. ASSUME NEW n \in Sizes, SetSandboxData(n)
        PROVE  ExecInv'
    <3>1. n \in Nat /\ records' = n /\ replaced' = replaced + 1 /\ UNCHANGED <<job, menu>>
      BY <2>7, ExecutionAssumption DEF SetSandboxData
    <3>2. ASSUME NEW c \in Jobs, job[c].phase # "none"
          PROVE  Judged(job[c], n, replaced + 1)
      <4>1. job[c] \in JobRecord /\ Judged(job[c], records, replaced)
        BY <3>2, JobIs
      <4>2. job[c].at \in Nat /\ job[c].at <= replaced /\ replaced \in Nat
        BY <4>1 DEF JobRecord, Judged, ExecInv
      <4>3. job[c].at <= replaced + 1 /\ job[c].at # replaced + 1
        BY <4>2
      <4> QED
        BY <4>3 DEF Judged
    <3> QED
      BY <3>1, <3>2 DEF ExecInv
  <2>8. CASE Close
    <3>1. /\ UNCHANGED <<records, replaced, menu>>
          /\ \A c \in Jobs : job'[c] = job[c] \/ (job[c].phase = "queued" /\ job'[c] = [job[c] EXCEPT !.phase = "refused"])
      BY <2>8 DEF Close
    <3>2. ASSUME NEW c \in Jobs, job[c].phase = "queued", job'[c] = [job[c] EXCEPT !.phase = "refused"]
          PROVE  job'[c] \in JobRecord /\ Judged(job'[c], records, replaced)
      <4>1. job[c] \in JobRecord /\ Judged(job[c], records, replaced)
        BY <3>2, JobIs
      <4> DEFINE j == [job[c] EXCEPT !.phase = "refused"]
      <4>2. j \in JobRecord /\ Judged(j, records, replaced)
        BY <2>0, <4>1 DEF JobRecord, Judged
      <4> QED
        BY <3>2, <4>2
    <3>3. job' \in [Jobs -> JobRecord \cup {NoJob}]
      <4>1. job' = [c \in Jobs |-> job'[c]]
        BY <2>8 DEF Close
      <4>2. \A c \in Jobs : job'[c] \in JobRecord \cup {NoJob}
        BY <3>1, <3>2 DEF ExecInv
      <4> QED
        BY <4>1, <4>2
    <3> QED
      BY <3>1, <3>2, <3>3 DEF ExecInv
  <2>9. CASE UNCHANGED execVars
    BY <2>9 DEF execVars, ExecInv
  <2> QED
    BY <2>1, <2>2, <2>3, <2>4, <2>5, <2>6, <2>7, <2>8, <2>9 DEF ExecNext, Worker, Egress
<1>3. ExecInv => ReleasedIsAggregated
  <2> SUFFICES ASSUME ExecInv, NEW c \in InPhase({"released"}), PolicyOf(c).aggregate, job[c].at = replaced
               PROVE  Aggregated(job[c].output, PolicyOf(c), job[c].n)
    BY DEF ReleasedIsAggregated
  <2>1. c \in Jobs /\ job[c].phase = "released"
    BY DEF InPhase
  <2>2. job[c] \in JobRecord /\ Judged(job[c], records, replaced)
    BY <2>1, JobIs
  <2>3. ~violatesAggregationFirstPolicy(job[c].output, PolicyOf(c), job[c].n)
    BY <2>1, <2>2 DEF Judged, PolicyOf
  <2>4. job[c].output \in Values /\ PolicyOf(c).rows \in Nat
    BY <2>2, ExecutionAssumption DEF JobRecord, PolicyOf
  <2> QED
    BY <2>3, <2>4, PolicyIsExact
<1> QED
  BY <1>1, <1>2, <1>3, PTL DEF ExecSpec
==============================================================================
