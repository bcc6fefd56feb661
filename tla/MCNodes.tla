------------------------------ MODULE MCNodes ------------------------------
(* The two nodes of the mesh, which share no state: a TypeScript node with *)
(* one peer in a container and one behind a WebSocket, or a Rust node with *)
(* two calls of one agent, tokens that may repeat, and modules that are    *)
(* refused, trap, run out of fuel after an event, or return after more     *)
(* events than the channel holds.                                          *)
EXTENDS MeshNode, RustNode

VARIABLE part

Addresses == [p \in Peers |-> IF p = 1 THEN {"container", "inner"} ELSE {"websocket"}]

Module(imports, events, ends) ==
    [parses |-> TRUE, bomb |-> FALSE, imports |-> imports, events |-> events, ends |-> ends]
Injected ==
    {Module({"env"}, 0, "return"), Module({"liop"}, 0, "trap"), Module({"liop"}, 1, "fuel"),
     Module({"wasi_snapshot_preview1", "liop"}, 2, "return")}
AgentsOf == <<"a", "a">>

MCInit == part \in {"typescript", "rust"} /\ Init /\ RustInit /\ (part = "rust" => file = 0)
MCNext ==
    \/ part = "typescript" /\ Next /\ UNCHANGED <<part, rustVars>>
    \/ part = "rust" /\ RustNext /\ UNCHANGED <<part, vars>>

\* The fairness of each part, where it is the part that runs.
MCFairness ==
    /\ WF_vars(part = "typescript" /\ Start)
    /\ WF_vars(Settle \/ Reannounced)
    /\ \A c \in Tools \cup {Manifest} : WF_vars(Provided(c)) /\ WF_vars(Reannounce(c))
    /\ RustFairness

MCSpec == MCInit /\ [][MCNext]_<<part, vars, rustVars>> /\ MCFairness
=============================================================================
