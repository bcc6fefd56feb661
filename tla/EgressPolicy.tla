---------------------------- MODULE EgressPolicy ----------------------------
(***************************************************************************)
(* What LiopServer lets out of an execution: the output schema and the     *)
(* aggregation-first policy (server/index.ts).                             *)
(*                                                                         *)
(* An output is a JSON value: a leaf, the text of another value (a string  *)
(* that JSON.parse understands), an array or an object.  Keys count only   *)
(* where the code looks for them by name.  Values is closed under taking   *)
(* parts, so that the recursion of the code is a function on it.           *)
(***************************************************************************)
EXTENDS Naturals, Sequences

CONSTANTS
    Values,      \* the outputs, and the parts of outputs
    KMin,        \* datasets of fewer records than this (10) count as small
    SmallKeys    \* keys an object may have when the dataset is small (3)

Leaf(t) == [t |-> t, of |-> <<>>, keys |-> <<>>]
Num == Leaf("num")
Str == Leaf("str")
True == Leaf("true")
Text(v) == [t |-> "text", of |-> <<v>>, keys |-> <<>>]
Arr(s) == [t |-> "arr", of |-> s, keys |-> <<>>]
Obj(keys, s) == [t |-> "obj", of |-> s, keys |-> keys]

Parts(v) == {v.of[i] : i \in DOMAIN v.of}
Keys(v) == {v.keys[i] : i \in DOMAIN v.keys}
Has(v, k) == v.t = "obj" /\ k \in Keys(v)
At(v, k) == v.of[CHOOSE i \in DOMAIN v.keys : v.keys[i] = k]
IsContainer(v) == v.t \in {"arr", "obj"}

ASSUME EgressAssumption ==
    /\ {KMin, SmallKeys} \subseteq Nat
    /\ Str \in Values
    /\ \A v \in Values : /\ v.of \in Seq(Values)
                         /\ v.t \in {"text", "arr", "obj"} \/ v.of = <<>>

parseUnknownJson(v) == IF v.t = "text" THEN v.of[1] ELSE v

\* The parts of an MCP content array whose text is a string.
Texts(v) ==
    SelectSeq(At(v, "content").of,
              LAMBDA part : Has(part, "text") /\ At(part, "text").t \in {"str", "text"})

\* The inner value of a LIOP envelope or of an MCP result.  Several texts are
\* joined by newlines, which makes them one string that does not parse.
unwrapForAggregationPolicyScan[v \in Values] ==
    CASE v.t = "text" -> unwrapForAggregationPolicyScan[v.of[1]]
      [] Has(v, "computation_result") ->
            unwrapForAggregationPolicyScan[At(v, "computation_result")]
      [] /\ ~Has(v, "computation_result")
         /\ Has(v, "content")
         /\ At(v, "content").t = "arr"
         /\ Texts(v) # <<>> ->
            IF Len(Texts(v)) = 1
            THEN unwrapForAggregationPolicyScan[At(Texts(v)[1], "text")]
            ELSE Str
      [] OTHER -> v

IsSmall(n) == n > 0 /\ n < KMin

\* p.rows and p.primitives are maxOutputRows and allowPrimitiveArrays.
violatesAggregationFirstPolicy(input, p, n) ==
    LET violates[v \in Values] ==
            LET inside == \E x \in Parts(v) : violates[x] IN
            CASE v.t = "text" -> inside
              [] v.t = "arr" /\ v.of # <<>> /\ \A x \in Parts(v) : IsContainer(x) ->
                    Len(v.of) > p.rows \/ inside
              [] v.t = "arr" /\ v.of # <<>> /\ \A x \in Parts(v) : ~IsContainer(x) ->
                    ~p.primitives
              [] v.t = "arr" /\ ~(v.of # <<>> /\ \A x, y \in Parts(v) : IsContainer(x) <=> IsContainer(y)) ->
                    inside
              [] v.t = "obj" ->
                    \/ IsSmall(n) /\ Len(v.of) > SmallKeys
                    \/ IsSmall(n) /\ \E x \in Parts(v) : IsContainer(x)
                    \/ Len(v.of) > p.rows
                    \/ inside
              [] OTHER -> FALSE
    IN p.aggregate /\ violates[input]

\* A strict ZodObject, or one with a catchall: p.schema is the set of its keys.
Conforms(v, p) ==
    /\ v.t = "obj"
    /\ p.schema \subseteq Keys(v)
    /\ p.catchall \/ Keys(v) \subseteq p.schema

\* TRUE when the output is blocked.  What looks like an error result is not.
validateOutputPolicy(output, p, n) ==
    LET parsed == parseUnknownJson(output) IN
    /\ p.declared
    /\ ~(Has(parsed, "isError") /\ At(parsed, "isError") = True)
    /\ \/ p.hasSchema /\ ~Conforms(parsed, p)
       \/ violatesAggregationFirstPolicy(unwrapForAggregationPolicyScan[parsed], p, n)

-----------------------------------------------------------------------------
(* The same policy as a reference, without the order in which the code     *)
(* looks: what is looked at, and what each of these values may be.         *)
-----------------------------------------------------------------------------
\* Strings among the primitives of an array are not parsed.
LookedAt(v) ==
    IF v.t = "arr" /\ \A x \in Parts(v) : ~IsContainer(x) THEN {} ELSE Parts(v)

Within(v) ==
    LET within[x \in Values] == {x} \cup UNION {within[y] : y \in LookedAt(x)}
    IN within[v]

IsTable(v) == v.t = "arr" /\ \A x \in Parts(v) : IsContainer(x)
IsList(v) == v.t = "arr" /\ v.of # <<>> /\ \A x \in Parts(v) : ~IsContainer(x)

Aggregated(v, p, n) ==
    \A x \in Within(v) :
        /\ IsTable(x) \/ x.t = "obj" => Len(x.of) <= p.rows
        /\ IsList(x) => p.primitives
        /\ x.t = "obj" /\ IsSmall(n) =>
              Len(x.of) <= SmallKeys /\ \A y \in Parts(x) : ~IsContainer(y)
=============================================================================
