------------------------------ MODULE MCStudio ------------------------------
(***************************************************************************)
(* The two halves of Studio, each on its own: `part' says which one moves.  *)
(*                                                                          *)
(* Server: a switch or a scan overlaps a request of any sort.  The kinds of *)
(* transport are spread over the three places: each kind is closed, opened, *)
(* scanned, listed and called.  One of the transports has subprocesses: two *)
(* transports share neither a table nor a buffer.                           *)
(* Page: two executions, the history at its cap.                            *)
(***************************************************************************)
EXTENDS StudioServer, StudioUi, TLC

CONSTANTS r1, r2

MCOps == (r1 :> {"connect", "scan"}) @@ (r2 :> {"connect", "health", "tools", "execute"})
MCKinds == << {"stdio", "mesh"}, {"stdio", "grpc"}, {"http"} >>

VARIABLE part

OneStdio == Cardinality({t \in Transports : trs[t].kind = "stdio"}) <= 1

MCInit ==
    /\ Init /\ UiInit
    /\ \/ part = "server"
       \/ part = "page" /\ trs[1].kind = "mesh"

MCNext ==
    \/ part = "server" /\ Next /\ OneStdio' /\ UNCHANGED <<uiVars, part>>
    \/ part = "page" /\ UiNext /\ UNCHANGED <<vars, part>>

\* A half that does not move has nothing under way that fairness would ask for.
MCSpec == MCInit /\ [][MCNext]_<<vars, uiVars, part>> /\ Fairness /\ UiFairness

\* In the end every API request of the server and every run of the page is
\* over, or waits for somebody who has no deadline.
EverythingEnds == <>[](EveryRequestEnded /\ EveryRunEnded)
============================================================================
