---------------------------- MODULE MCQueryBudget ----------------------------
(* Small instances of QueryBudget.                                         *)
EXTENDS QueryBudget

CONSTANTS p1, p2, c1, t1, t2, f1, f2, s1, s2

(* One tool, whose first field is forbidden and whose second is sensitive. *)
OneToolClass == [x \in {t1} \X {f1, f2} |-> IF x[2] = f1 THEN "forbidden" ELSE "sensitive"]
NoOverrides == [t \in Tools |-> NoOverride]
NoPolicyStore == [t \in Tools |-> NoStore]

(* Two tools on one field: the first uses the configured store, the second *)
(* one that its policy names, with a limit of its own.                     *)
TwoToolsClass == [x \in {t1, t2} \X {f1} |-> "public"]
SecondOverrides == [t \in {t1, t2} |-> IF t = t2 THEN 1 ELSE NoOverride]
SecondHasStore == [t \in {t1, t2} |-> IF t = t2 THEN s2 ELSE NoStore]
==============================================================================
