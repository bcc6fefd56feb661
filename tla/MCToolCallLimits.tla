-------------------------- MODULE MCToolCallLimits --------------------------
(***************************************************************************)
(* The limits of callTool and the execution behind them, each on its own:  *)
(* `part' says which one moves.                                            *)
(*                                                                         *)
(* Limits: two tools, one of which takes a payload.                        *)
(* Execution: every output with each of four policies; and two calls that  *)
(* race for one thread while the data is replaced.  The outputs are tables,*)
(* lists and nested objects, and what they look like inside texts,         *)
(* envelopes and MCP results.                                              *)
(***************************************************************************)
EXTENDS ToolCallLimits, LocalExecution

Upto(n, S) == UNION {[1..k -> S] : k \in 0..n}
Letters == <<"a", "b", "c">>
Named(s) == Obj(SubSeq(Letters, 1, Len(s)), s)

\* Values without the keys the code looks for, two levels deep.
Simple == {Num, Str}
Flat == {Named(s) : s \in Upto(3, {Num})} \cup {Arr(s) : s \in Upto(3, Simple)}
Nested == {Arr(s) : s \in Upto(3, {Num, Named(<<Num>>), Named(<<Num, Num>>)})}
          \cup {Named(s) : s \in Upto(2, {Num, Named(<<Num, Num>>), Arr(<<Num>>)})}
Bare == Simple \cup Flat \cup Nested

Part(v) == Obj(<<"text">>, <<v>>)
Result(parts) == Obj(<<"content">>, <<Arr(parts)>>)
Enveloped(v) == Obj(<<"computation_result">>, <<v>>)
Failing(v) == Obj(<<"isError", "a">>, <<True, v>>)

Inner == {Num, Named(<<Num, Num, Num>>), Arr(<<Named(<<Num>>), Named(<<Num>>), Named(<<Num>>)>>)}
Wrapped == {Text(v) : v \in Inner} \cup {Enveloped(v) : v \in Inner} \cup {Failing(v) : v \in Inner}
           \cup {Result(<<Part(Text(v))>>) : v \in Inner}
           \cup {Result(<<Part(Text(v)), Part(Str)>>) : v \in Inner} \cup {Result(<<Num>>), Result(<<>>)}

Grown(S) == S \cup UNION {Parts(v) : v \in S}
AllParts == {v \in Grown(Grown(Grown(Grown(Bare \cup Wrapped \cup {Str})))) : TRUE}

Policy(aggregate, rows, primitives, zk) ==
    [declared |-> TRUE, hasSchema |-> FALSE, schema |-> {}, catchall |-> FALSE,
     aggregate |-> aggregate, rows |-> rows, primitives |-> primitives, zk |-> zk]
AllPolicies == [
    plain |-> Policy(TRUE, 2, TRUE, "none"),
    proved |-> Policy(TRUE, 2, FALSE, "required"),
    strict |-> [Policy(FALSE, 0, TRUE, "optimistic") EXCEPT !.hasSchema = TRUE, !.schema = {"a"}],
    open |-> [Policy(TRUE, 3, TRUE, "none") EXCEPT !.hasSchema = TRUE, !.schema = {"a"}, !.catchall = TRUE]]

AllMenus == [
    shapes |-> [calls |-> {"c1"}, tools |-> DOMAIN AllPolicies, logics |-> {"js"},
                outputs |-> Bare \cup Wrapped, changes |-> 0],
    races |-> [calls |-> {"c1", "c2"}, tools |-> {"proved"}, logics |-> {"js", "wasm"},
               outputs |-> {Named(<<Num>>)}, changes |-> 1]]

VARIABLE part

MCInit ==
    /\ LimitsInit /\ ExecInit
    /\ \/ part = "execution"
       \/ part = "limits" /\ menu = "races" /\ records = 1

MCNext ==
    \/ part = "limits" /\ LimitsNext /\ UNCHANGED <<execVars, part>>
    \/ part = "execution" /\ ExecNext /\ UNCHANGED <<limitVars, part>>

\* No call is under way in the half that does not move, so that fairness asks
\* nothing of it.
MCSpec == MCInit /\ [][MCNext]_<<limitVars, execVars, part>> /\ ExecFairness
=============================================================================
