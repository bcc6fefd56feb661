--------------------------- MODULE MCLogicOnOrigin ---------------------------
(* Small instances of LogicOnOrigin.                                       *)
EXTENDS LogicOnOrigin

CONSTANTS t1, t2, c1, c2, i1, i2

(* The first call sends JavaScript, the second a WebAssembly module.       *)
OneOfEach == [c \in Calls |-> IF c = c1 THEN "js" ELSE "wasm"]

(* Two clients negotiate, each with its own token.                         *)
OwnTokens == [i \in Intents |-> IF i = i1 THEN {t1} ELSE {t2, NoToken}]

(* The first call presents another token than its session's, or none; the  *)
(* second names either session.                                            *)
TwoCallers ==
    [c \in Calls |->
       IF c = c1 THEN [token : {t2}, session : {i1}, mode : {"legacy", "optimistic"}]
                      \cup [token : {NoToken}, session : {i1}, mode : {"legacy"}]
       ELSE [token : {t1}, session : Intents, mode : {"blocking"}]]

(* Anybody presents any token, names any session and asks for any mode.    *)
AnyToken == [i \in Intents |-> Tokens \cup {NoToken}]

AnyRequest == [c \in Calls |-> [token : Tokens \cup {NoToken}, session : Intents, mode : Modes]]
==============================================================================
