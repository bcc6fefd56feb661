------------------------------ MODULE MCAgent ------------------------------
(***************************************************************************)
(* The agent's modes, and the token manager behind its forwarded requests, *)
(* each on its own: `part' says which one moves.                           *)
(*                                                                         *)
(* Modes: two tools, one of them with an alias; five environments.         *)
(* Tokens: two callers.                                                    *)
(***************************************************************************)
EXTENDS AgentModes, TokenManager

Aliases == [n \in {"vault_tool"} |-> "records"]
Urls == <<"15018", "15000">>
Where(args, url, beacon, variable, blg, home) ==
    [args |-> args, url |-> url, beacon |-> beacon, variable |-> variable, blg |-> blg, home |-> home]
Environments ==
    {Where("none", "none", "none", "valid", "none", "15000"),
     Where("none", "none", "valid", "none", "15018", "15018"),
     Where("broken", "none", "valid", "none", "none", "15018"),
     Where("none", "valid", "none", "none", "portless", "15018"),
     Where("none", "none", "none", "none", "malformed", "15000")}

VARIABLE part

MCInit ==
    /\ Init /\ TokenInit
    /\ \/ part = "modes" /\ ~static
       \/ part = "tokens" /\ setting.variable = "valid" /\ gateway = [up |-> FALSE, tools |-> {}]

MCNext ==
    \/ part = "modes" /\ Next /\ UNCHANGED <<tokenVars, part>>
    \/ part = "tokens" /\ TokenNext /\ UNCHANGED <<vars, part>>

\* The fairness of the two, for the part that moves.
MCFairness ==
    /\ TokenFairness
    /\ WF_vars(part = "modes" /\ Startup)
    /\ \A r \in Requests : WF_vars(Handler(r))

MCSpec == MCInit /\ [][MCNext]_<<vars, tokenVars, part>> /\ MCFairness
=============================================================================
