---------------------------- MODULE AtomicBudget ----------------------------
(***************************************************************************)
(* What the query budget promises.  A budget counts the queries made on    *)
(* each slot; a query on a set of slots is either charged to all of them,  *)
(* when every one is below its limit, or to none.  There is one budget per *)
(* store, shared by the processes, and one private budget per process.     *)
(***************************************************************************)
EXTENDS Naturals

CONSTANTS Procs, Stores, Slots, Limit,
          MayForget   \* whether a store may become unreadable

VARIABLES shared, private

Blank == [x \in Slots |-> 0]

Fits(b, X) == \A x \in X : b[x] < Limit[x]

Charged(b, X) == [x \in Slots |-> IF x \in X THEN b[x] + 1 ELSE b[x]]

Cleared(b, X) == [x \in Slots |-> IF x \in X THEN 0 ELSE b[x]]

Init ==
    /\ shared = [s \in Stores |-> Blank]
    /\ private = [p \in Procs |-> Blank]

ChargeShared(s, X) ==
    /\ Fits(shared[s], X)
    /\ shared' = [shared EXCEPT ![s] = Charged(shared[s], X)]
    /\ UNCHANGED private

ClearShared(s, X) ==
    /\ shared' = [shared EXCEPT ![s] = Cleared(shared[s], X)]
    /\ UNCHANGED private

(* An unreadable store starts again from nothing.                          *)
ForgetShared(s, X) ==
    /\ MayForget
    /\ Fits(Blank, X)
    /\ shared' = [shared EXCEPT ![s] = Charged(Blank, X)]
    /\ UNCHANGED private

ChargePrivate(p, X) ==
    /\ Fits(private[p], X)
    /\ private' = [private EXCEPT ![p] = Charged(private[p], X)]
    /\ UNCHANGED shared

ClearPrivate(p, X) ==
    /\ private' = [private EXCEPT ![p] = Cleared(private[p], X)]
    /\ UNCHANGED shared

Next ==
    \E X \in SUBSET Slots :
        \/ \E s \in Stores : ChargeShared(s, X) \/ ClearShared(s, X) \/ ForgetShared(s, X)
        \/ \E p \in Procs : ChargePrivate(p, X) \/ ClearPrivate(p, X)

Spec == Init /\ [][Next]_<<shared, private>>
==============================================================================
