--------------------------- MODULE MCServerFiles ---------------------------
(***************************************************************************)
(* The two files a server keeps besides its budget: the revocation list    *)
(* and the audit log.  They share nothing; `part' says which one moves.    *)
(***************************************************************************)
EXTENDS RevocationList, AuditLog

CONSTANTS p1, p2, t1, t2

(* One process revokes and another only checks; one process alone, on a    *)
(* file that it must create; one process and an operator.                  *)
OneEditor ==
    { [procs |-> {p1, p2}, writers |-> {p1}, operator |-> FALSE, exists |-> TRUE],
      [procs |-> {p1}, writers |-> {p1}, operator |-> FALSE, exists |-> FALSE],
      [procs |-> {p1}, writers |-> {}, operator |-> TRUE, exists |-> TRUE] }

TokenSymmetry == Permutations({t1, t2})

VARIABLE part

MCInit == Init /\ AuditInit /\ part \in {"list", "log"}

MCNext ==
    \/ part = "list" /\ Next /\ UNCHANGED << auditVars, part >>
    \/ part = "log" /\ AuditNext /\ UNCHANGED << vars, part >>

MCSpec == MCInit /\ [][MCNext]_<< vars, auditVars, part >>
=============================================================================
