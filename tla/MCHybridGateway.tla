--------------------------- MODULE MCHybridGateway ---------------------------
(* A small instance of HybridGateway.                                      *)
EXTENDS HybridGateway

CONSTANTS r1, r2, k1

SameClient == [r \in Requests |-> k1]

(* A guarded gateway, one that fails open, and one without any gate.       *)
Guarded == { [jwt |-> TRUE, hook |-> "closed"], [jwt |-> FALSE, hook |-> "open"],
             [jwt |-> FALSE, hook |-> "none"] }
==============================================================================
