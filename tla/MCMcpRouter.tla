---------------------------- MODULE MCMcpRouter ----------------------------
(***************************************************************************)
(* The router towards the mesh and towards its clients, each on its own:   *)
(* `part' says which one moves.                                            *)
(*                                                                         *)
(* Mesh: two peers share a tool name, which one of them can give up for    *)
(* another that the local server has too.                                  *)
(* Dispatch: one request, of every method, era, scope and destination.     *)
(***************************************************************************)
EXTENDS McpRouter, McpDispatch

CONSTANTS p1, p2

Records == <<"records">>
Scan == <<"scan", "x">>
Legacy == <<"legacy">>
Plain(tools) == [tools |-> tools, seal |-> "none", auth |-> FALSE]
Sealed(tools, seal) == [tools |-> tools, seal |-> seal, auth |-> TRUE]

TwoOffers == [p \in {p1, p2} |->
    IF p = p1 THEN {Plain(<<Scan>>), Sealed(<<Records, Scan>>, "valid")}
    ELSE {Plain(<<Records>>), Sealed(<<Records>>, "broken")}]
Locals == {Scan}
Called == {Legacy, Append(Scan, "aa1x")}
Aliases == [n \in {Legacy} |-> Records]
ShortIds == [p \in {p1, p2} |-> IF p = p1 THEN "aa1x" ELSE "bb2y"]
Endings == [p \in {p1, p2} |-> IF p = p1 THEN {"aa1x", "x"} ELSE {"bb2y", "y"}]

\* These names satisfy the hypothesis of the theorem about the list.
ASSUME InstanceIsApart == NamesAreApart

At(m, linked) == [serves |-> m, linked |-> linked]
Starts ==
    {[p \in {p1, p2} |-> At(Down, FALSE)],
     [p \in {p1, p2} |-> IF p = p1 THEN At(Plain(<<Scan>>), TRUE) ELSE At(Plain(<<Records>>), FALSE)]}

Bounds == {[changes |-> 2, faults |-> 0, calls |-> 0, lists |-> 0],
           [changes |-> 1, faults |-> 0, calls |-> 0, lists |-> 1],
           [changes |-> 1, faults |-> 0, calls |-> 1, lists |-> 0],
           [changes |-> 0, faults |-> 2, calls |-> 0, lists |-> 0]}

Ask(method, version, scope, arg) ==
    [method |-> method, version |-> version, auth |-> scope # "", scopes |-> {scope}, arg |-> arg]
AllAsks ==
    {Ask(m, "absent", "", "") : m \in Public}
    \cup {Ask("tools/list", v, "liop:tools:list", "") : v \in {"modern", "legacy"}}
    \cup {Ask("tools/call", v, "liop:tools:call", a) :
              v \in {"modern", "absent"}, a \in {"LiopMeshStatus", "local", "remote", "nowhere"}}
    \cup {Ask("tools/call", "absent", "liop:tools:call", "missing")}
    \cup {Ask("resources/read", v, "liop:resources:read", a) :
              v \in {"modern", "absent"}, a \in {"u1", "missing"}}
    \cup {Ask("prompts/get", "modern", s, "p") : s \in {"liop:schema:read", "liop:tools:list"}}
    \cup {Ask("resources/list", "other", "liop:resources:read", ""),
          Ask("logging/setLevel", "modern", "liop:tools:list", ""),
          Ask("prompts/list", "legacy", "", "")}

VARIABLE part

NoBudget == [changes |-> 0, faults |-> 2, calls |-> 0, lists |-> 0]

MCInit ==
    /\ RouterInit /\ DispatchInit
    /\ \/ part = "mesh" /\ ~guarded
       \/ part = "dispatch" /\ budget = NoBudget /\ \A p \in Peers : ~world[p].linked

MCNext ==
    \/ part = "mesh" /\ RouterNext /\ UNCHANGED <<dispatchVars, part>>
    \/ part = "dispatch" /\ DispatchNext /\ UNCHANGED <<routerVars, part>>

\* The fairness of the two, for the part that moves.
MCFairness ==
    /\ WF_routerVars(part = "mesh" /\ (ClockTick \/ ListStep))
    /\ WF_routerVars(part = "mesh" /\ BackgroundRefresh)
    /\ WF_routerVars(DiscoveryStep \/ \E p \in Peers : QueryStep("discovery", p))
    /\ WF_routerVars(CallStep \/ \E p \in Peers : QueryStep("call", p))
    /\ DispatchFairness

MCSpec == MCInit /\ [][MCNext]_<<routerVars, dispatchVars, part>> /\ MCFairness
==============================================================================
