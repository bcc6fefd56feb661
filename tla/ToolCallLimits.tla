--------------------------- MODULE ToolCallLimits ---------------------------
(***************************************************************************)
(* LiopServer.callTool: what stands between a tool call and its execution. *)
(* Two sliding windows (one for all tools, one per tool) bound the calls   *)
(* that get through, and the handler that wraps a Logic-on-Origin tool     *)
(* cools down after too many malformed payloads.                           *)
(*                                                                         *)
(* A window is an array of time stamps in the code.  Here it is the set of *)
(* the calls whose time stamps it holds; a call is its index in log.       *)
(***************************************************************************)
EXTENDS Integers, Sequences, FiniteSets

CONSTANTS
    CallTools,
    PayloadTools,       \* tools whose schema has a string "payload"
    Window,             \* toolCallWindowMs
    MaxPerTool,         \* toolCallMaxPerWindow
    MaxGlobal,          \* globalCallMaxPerWindow
    Threshold, Cooldown,\* THROTTLE_THRESHOLD, THROTTLE_COOLDOWN_MS
    Straddle,           \* time that may pass between the two checks of one call
    MaxCalls, MaxClock  \* bounds on calls and time

ASSUME ToolLimitsAssumption ==
    /\ PayloadTools \subseteq CallTools
    /\ {Window, MaxPerTool, MaxGlobal, Threshold, Cooldown} \subseteq Nat
    /\ {Straddle, MaxCalls, MaxClock} \subseteq Nat

VARIABLES
    clock,
    globalCallWindow,
    toolCallWindows,     \* per tool
    failures, lastAttempt, \* connectionStats of "global_connection"
    log                  \* every call: what, when, how it ended

limitVars == << clock, globalCallWindow, toolCallWindows, failures, lastAttempt, log >>

Unlimited == {"invalid", "rejected", "ran", "throttled", "malformed"}
Outcomes == {"global limit", "tool limit"} \cup Unlimited

(* globalAt and at are the instants the two checks read from the clock;    *)
(* retryAt is the instant the message of a rejected call names.            *)
CallRecord == [tool: CallTools, globalAt: Nat, at: Nat,
               outcome: Outcomes, retryAt: Nat]

Calls == 1 .. Len(log)
Charged == {i \in Calls : log[i].outcome # "global limit"}
Admitted(t) == {i \in Calls : log[i].tool = t /\ log[i].outcome \in Unlimited}

-----------------------------------------------------------------------------
(* Mutant: a stamp as old as the window still counts.                      *)
ActiveGlobalInclusive(now) == {i \in globalCallWindow : now - log[i].globalAt <= Window}

(* The two filters: the stamps younger than the window.                    *)
ActiveGlobal(now) == {i \in globalCallWindow : now - log[i].globalAt < Window}
ActiveTool(t, now) == {i \in toolCallWindows[t] : now - log[i].at < Window}

(* The element at index 0: stamps are pushed in the order of the calls.    *)
Oldest(w) == CHOOSE i \in w : \A j \in w : i <= j

LimitsInit ==
    /\ clock = 0
    /\ globalCallWindow = {}
    /\ toolCallWindows = [t \in CallTools |-> {}]
    /\ failures = 0 /\ lastAttempt = 0
    /\ log = << >>

Record(t, g, now, o, retry) ==
    log' = Append(log, [tool |-> t, globalAt |-> g, at |-> now,
                        outcome |-> o, retryAt |-> retry])

(* With a limit of zero the array is empty and the message shows NaN.      *)
RetryAt(stamps) ==
    IF DOMAIN stamps = {} THEN 0 ELSE stamps[Oldest(DOMAIN stamps)] + Window

(* checkGlobalRateLimit refuses; the filtered window is kept.              *)
GlobalLimited(t) ==
    LET active == ActiveGlobal(clock) IN
    /\ Cardinality(active) >= MaxGlobal
    /\ globalCallWindow' = active
    /\ Record(t, clock, clock, "global limit",
              RetryAt([i \in active |-> log[i].globalAt]))
    /\ UNCHANGED << clock, toolCallWindows, failures, lastAttempt >>

(* checkGlobalRateLimit lets the call through and pushes its stamp.        *)
ChargeGlobal(active) == globalCallWindow' = active \cup {Len(log) + 1}

GlobalPasses(active) == Cardinality(active) < MaxGlobal

(* Mutant: one call too many passes.                                       *)
ToolPassesOneMore(active) == Cardinality(active) <= MaxPerTool

ToolPasses(active) == Cardinality(active) < MaxPerTool

(* checkToolCallRateLimit refuses: the stamp in the global window stays,   *)
(* and the filtered array of the tool is not stored.                       *)
ToolLimited(t) ==
    \E late \in 0 .. Straddle :
        LET active == ActiveGlobal(clock)
            now == clock + late
            ofTool == ActiveTool(t, now) IN
        /\ GlobalPasses(active)
        /\ ChargeGlobal(active)
        /\ ~ToolPasses(ofTool)
        /\ clock' = now
        /\ Record(t, clock, now, "tool limit",
                  RetryAt([i \in ofTool |-> log[i].at]))
        /\ UNCHANGED << toolCallWindows, failures, lastAttempt >>

(* Both checks pass and push a stamp; the call ends with outcome o.        *)
Admit(t, o) ==
    \E late \in 0 .. Straddle :
        LET active == ActiveGlobal(clock)
            now == clock + late IN
        /\ GlobalPasses(active)
        /\ ChargeGlobal(active)
        /\ ToolPasses(ActiveTool(t, now))
        /\ toolCallWindows' =
              [toolCallWindows EXCEPT ![t] = ActiveTool(t, now) \cup {Len(log) + 1}]
        /\ clock' = now
        /\ Record(t, clock, now, o, 0)

(* The arguments do not satisfy the schema.                                *)
Invalid(t) ==
    /\ Admit(t, "invalid")
    /\ UNCHANGED << failures, lastAttempt >>

(* The payload is an @LIOP envelope: callTool runs it itself, unless the   *)
(* preflight policy rejects it, and the handler is not called.             *)
Envelope(t) ==
    /\ t \in PayloadTools
    /\ \E o \in {"rejected", "ran"} : Admit(t, o)
    /\ UNCHANGED << failures, lastAttempt >>

(* A tool without payload: the developer's handler runs.                   *)
Plain(t) ==
    /\ t \notin PayloadTools
    /\ Admit(t, "ran")
    /\ UNCHANGED << failures, lastAttempt >>

CoolingDown(now) == failures >= Threshold /\ now - lastAttempt < Cooldown

(* The payload has no envelope: the wrapping handler answers.              *)
Throttled(t) ==
    /\ t \in PayloadTools
    /\ Admit(t, "throttled")
    /\ CoolingDown(clock')
    /\ UNCHANGED << failures, lastAttempt >>

Malformed(t) ==
    /\ t \in PayloadTools
    /\ Admit(t, "malformed")
    /\ ~CoolingDown(clock')
    /\ failures' = failures + 1
    /\ lastAttempt' = clock'

CallTool(t) ==
    /\ Len(log) < MaxCalls
    /\ clock + Straddle <= MaxClock
    /\ \/ GlobalLimited(t)
       \/ ToolLimited(t)
       \/ Invalid(t)
       \/ Envelope(t)
       \/ Plain(t)
       \/ Throttled(t)
       \/ Malformed(t)

Tick ==
    /\ clock < MaxClock
    /\ clock' = clock + 1
    /\ UNCHANGED << globalCallWindow, toolCallWindows, failures, lastAttempt, log >>

LimitsNext ==
    \/ \E t \in CallTools : CallTool(t)
    \/ Tick

LimitsSpec == LimitsInit /\ [][LimitsNext]_limitVars

-----------------------------------------------------------------------------
(* Types: the windows hold only the stamps of calls that were made.        *)
LimitsTypeOK ==
    /\ clock \in Nat
    /\ globalCallWindow \subseteq Calls
    /\ toolCallWindows \in [CallTools -> SUBSET Calls]
    /\ failures \in Nat /\ lastAttempt \in Nat
    /\ log \in Seq(CallRecord)

(* Calls that lie within one window of each other, wherever it starts.     *)
Together(S) == \A i, j \in S : log[i].at - log[j].at < Window
TogetherGlobal(S) == \A i, j \in S : log[i].globalAt - log[j].globalAt < Window

(* checkToolCallRateLimit is a sliding window: any Window of time, not     *)
(* only those that start at some boundary, sees at most MaxPerTool         *)
(* admitted calls of a tool.                                               *)
ToolWindowSlides ==
    \A t \in CallTools : \A S \in SUBSET Admitted(t) :
        Together(S) => Cardinality(S) <= MaxPerTool

(* checkGlobalRateLimit: any Window of time sees at most MaxGlobal calls   *)
(* that passed it, the ones the check per tool then refused included.      *)
GlobalWindowSlides ==
    \A S \in SUBSET Charged : TogetherGlobal(S) => Cardinality(S) <= MaxGlobal

(* No window of time sees more calls than either limit allows, even when   *)
(* time passes between the two checks of a call.                           *)
WindowsSlide == ToolWindowSlides /\ GlobalWindowSlides

(* "Retry after": a call refused for its tool and repeated at the instant  *)
(* the message names (or later) is let through if nobody called in         *)
(* between, as long as no time passed between the two checks of a call.    *)
(* It takes both windows: the refused call itself was charged to the       *)
(* global one.                                                             *)
HintIsHonoured ==
    \A i \in Calls :
        /\ i > 1
        /\ log[i - 1].outcome = "tool limit"
        /\ log[i].tool = log[i - 1].tool
        /\ log[i].globalAt >= log[i - 1].retryAt
        /\ \A j \in 1 .. i : log[j].at = log[j].globalAt
        => log[i].outcome \in Unlimited
=============================================================================
