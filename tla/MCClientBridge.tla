--------------------------- MODULE MCClientBridge ---------------------------
(* The two parties that verify receipts, which share no state.             *)
(* The client: two calls, the second with a policy of its own; answers are *)
(* honest ones of both versions, one sealed in the other session, one with *)
(* other evidence than its receipt commits to, one weaker than the policy  *)
(* asks, and an error.                                                     *)
(* The bridge: one address that may have one session and opens two at a    *)
(* time; messages are tool calls with a genuine and a foreign receipt, and *)
(* a request without its parameter.                                        *)
EXTENDS LiopClient, StreamBridge

VARIABLE part

Logics == [c \in Calls |-> [code |-> "a", proxy |-> FALSE]]
PolicyGiven == [c1 |-> NoValue, c2 |-> "required"]
DataBound == [c1 |-> 2, c2 |-> 1]

Receipt(version, c, output) ==
    [version |-> version, whole |-> TRUE, type |-> IF version = 1 THEN "hmac" ELSE "groth16", secret |-> c,
     logic |-> LogicOf[c], output |-> <<"result", output>>, proved |-> TRUE, cosigned |-> FALSE,
     guest |-> NoValue]
Answer(version, c, output, evidence) ==
    [isError |-> FALSE, image |-> <<LogicOf[c]>>, evidence |-> evidence, receipt |-> Receipt(version, c, output)]
Refusal == [isError |-> TRUE, image |-> <<Logics["c1"]>>, evidence |-> "denied", receipt |-> Receipt(1, "c1", "")]
ResponsesTo ==
    [c1 |-> {Answer(1, "c1", "x", "x"), Answer(1, "c2", "x", "x"), Refusal},
     c2 |-> {Answer(2, "c2", "x", "x"), Answer(2, "c2", "x", "y"), Answer(1, "c2", "x", "x")}]
Responses(c) == ResponsesTo[c]

Logic == [code |-> "a", proxy |-> FALSE]
Other == [code |-> "b", proxy |-> FALSE]
ReceiptFor(logic) ==
    [version |-> 2, whole |-> TRUE, type |-> "groth16", secret |-> NoValue, logic |-> logic,
     output |-> <<"result", "x">>, proved |-> TRUE, cosigned |-> FALSE, guest |-> NoValue]
Result(receipted, logic, image) ==
    [isError |-> FALSE, receipted |-> receipted, receipt |-> ReceiptFor(logic), image |-> image, output |-> "x",
     poolFails |-> FALSE]
Message(method, whole, result) ==
    [method |-> method, whole |-> whole, throws |-> FALSE, payload |-> TRUE, logic |-> Logic, result |-> result]
AllMessages ==
    {Message("tools/call", TRUE, Result(TRUE, Logic, <<Logic>>)),
     Message("tools/call", TRUE, Result(TRUE, Other, <<Other>>)),
     Message("prompts/get", FALSE, Result(FALSE, Logic, <<>>))}

MCInit == part \in {"client", "bridge"} /\ Init /\ Start
MCNext ==
    \/ part = "client" /\ Next /\ UNCHANGED <<part, bridgeVars>>
    \/ part = "bridge" /\ BridgeNext /\ UNCHANGED <<part, vars>>
MCSpec == MCInit /\ [][MCNext]_<<part, vars, bridgeVars>> /\ Fairness /\ BridgeFairness

(* What is told to the caller is justified: a result that the client calls *)
(* verified or the bridge labels so has a receipt for that logic and that  *)
(* result, and a call refused for its token was retried with a fresh one.  *)
OutcomesAreJustified == VerifiedIsBound /\ RefusedTwice /\ LabelIsEarned
=============================================================================
