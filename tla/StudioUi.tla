------------------------------ MODULE StudioUi ------------------------------
(***************************************************************************)
(* useStudioExecution, the hook that holds the Studio page's executions     *)
(* (tools/liop-studio/ui): one at a time, its event stream, the timeline of *)
(* phases, cancelling, and the session's history.                           *)
(*                                                                          *)
(* The server's side of the stream is external: it sends progress steps,    *)
(* then a result or an error, then closes; or the connection breaks; or it  *)
(* never answers.                                                           *)
(***************************************************************************)
EXTENDS Naturals, Sequences, FiniteSets

CONSTANTS
    Executions,    \* the runs the user may start, each once
    Vias,          \* the kinds of transport the target may be reached by
    HistoryCap     \* executionHistory keeps this many entries (20)

ASSUME StudioUiAssumption ==
    /\ HistoryCap \in Nat \ {0}
    /\ 0 \notin Executions
    /\ Vias \subseteq {"stdio", "http", "grpc", "mesh"}

VARIABLES
    exec,        \* the executions: stream, aborted, final event, transport, steps
    latest,      \* the execution started last (0: none)
    isRunning,   \* isRunning
    ref,         \* abortControllerRef: the execution it aborts, or 0
    shown,       \* whose result or error the page shows, or 0
    timeline,    \* the status of each phase
    history      \* executionHistory, newest first

uiVars == <<exec, latest, isRunning, ref, shown, timeline, history>>

Settled == {"success", "failed"}
Fresh == [stream |-> "none", aborted |-> FALSE, final |-> "none", via |-> "none", steps |-> 0]

----------------------------------------------------------------------------
(* The progress steps each transport's callTool reports, in its order       *)

Bootstrap == 1
Discovery == 2
Pqc == 3
Sealing == 4
Execution == 5
ZkVerify == 6
Phases == Bootstrap .. ZkVerify

Script == [
    stdio |-> << <<Bootstrap, "success">>, <<Discovery, "success">>, <<Execution, "running">>,
                 <<Execution, "success">>, <<ZkVerify, "success">> >>,
    http  |-> << <<Bootstrap, "success">>, <<Discovery, "success">>, <<Pqc, "success">>,
                 <<Sealing, "success">>, <<Execution, "running">>,
                 <<Execution, "success">>, <<ZkVerify, "success">> >>,
    grpc  |-> << <<Bootstrap, "success">>, <<Discovery, "success">>, <<Pqc, "running">>,
                 <<Pqc, "success">>, <<Sealing, "success">>, <<Execution, "running">>,
                 <<Execution, "success">>, <<ZkVerify, "success">> >>,
    mesh  |-> << <<Bootstrap, "success">>, <<Discovery, "running">>, <<Discovery, "success">>,
                 <<Pqc, "running">>, <<Sealing, "running">>, <<Execution, "running">>,
                 <<Pqc, "success">>, <<Sealing, "success">>,
                 <<Execution, "success">>, <<ZkVerify, "success">> >>]

----------------------------------------------------------------------------
(* useStudioExecution                                                       *)

Waiting == [p \in Phases |-> "pending"]              \* INITIAL_TIMELINE
StartOfRun == [Waiting EXCEPT ![1] = "running"]           \* initialRunTimeline

\* updateTimelineStep: the phase named takes its status; what is before it
\* and still open has succeeded; what is after it and still open has not begun.
UpdateTimelineStep(tl, phase, status) ==
    [p \in Phases |->
        IF p = phase THEN status
        ELSE IF tl[p] \in Settled THEN tl[p]
        ELSE IF p > phase THEN "pending" ELSE "success"]

\* The steps still running are marked failed when a run is cut short.
CutShort(tl) == [p \in Phases |-> IF tl[p] = "running" THEN "failed" ELSE tl[p]]

HandleExecuteWithoutAbort(e, via) ==         \* mutant: the earlier run is left alone
    /\ exec[e].stream = "none" /\ ~isRunning
    /\ exec' = [exec EXCEPT ![e] = [Fresh EXCEPT !.stream = "open", !.via = via]]
    /\ latest' = e
    /\ ref' = e
    /\ isRunning' = TRUE
    /\ shown' = 0
    /\ timeline' = StartOfRun
    /\ UNCHANGED history

\* handleExecute up to the fetch: a run that is over for the user but whose
\* stream is still open is aborted.
HandleExecute(e, via) ==
    /\ exec[e].stream = "none" /\ ~isRunning
    /\ exec' = [f \in Executions |->
                  IF f = e THEN [Fresh EXCEPT !.stream = "open", !.via = via]
                  ELSE IF f = ref THEN [exec[f] EXCEPT !.aborted = TRUE]
                  ELSE exec[f]]
    /\ latest' = e
    /\ ref' = e
    /\ isRunning' = TRUE
    /\ shown' = 0
    /\ timeline' = StartOfRun
    /\ UNCHANGED <<history>>

Reading(e) == exec[e].stream = "open" /\ ~exec[e].aborted

StepEvent(e) ==
    LET step == Script[exec[e].via][exec[e].steps + 1] IN
    /\ Reading(e) /\ exec[e].final = "none" /\ exec[e].steps < Len(Script[exec[e].via])
    /\ exec' = [exec EXCEPT ![e].steps = @ + 1]
    /\ timeline' = UpdateTimelineStep(timeline, step[1], step[2])
    /\ UNCHANGED <<latest, isRunning, ref, shown, history>>

Ends(e, final) ==
    /\ Reading(e) /\ exec[e].final = "none"
    /\ exec' = [exec EXCEPT ![e].final = final]
    /\ shown' = e
    /\ isRunning' = FALSE
    /\ UNCHANGED <<latest, ref, history>>

\* The result event: the user may start another run at once.
ResultEvent(e) ==
    /\ Reading(e) /\ exec[e].steps = Len(Script[exec[e].via])
    /\ Ends(e, "success")
    /\ UNCHANGED timeline

\* The error event, after a step that marks the phase failed: the tool is
\* not one of the target's, or the call failed at some point.
ErrorEvent(e, phase) ==
    /\ phase = Discovery => exec[e].steps = 0
    /\ Ends(e, "error")
    /\ timeline' = UpdateTimelineStep(timeline, phase, "failed")

\* The finally block: the controller is forgotten and the run recorded.
Record(e, status) ==
    LET all == <<[run |-> e, status |-> status]>> \o history
    IN /\ ref' = 0
       /\ history' = SubSeq(all, 1, IF Len(all) < HistoryCap THEN Len(all) ELSE HistoryCap)

StreamEnds(e) ==
    /\ Reading(e) /\ exec[e].final # "none"
    /\ exec' = [exec EXCEPT ![e].stream = "closed"]
    /\ Record(e, exec[e].final)
    /\ UNCHANGED <<latest, isRunning, shown, timeline>>

\* The catch block: the read fails because the run was aborted, or because
\* the connection broke.
StreamThrows(e, status) ==
    /\ exec[e].stream = "open"
    /\ (status = "cancelled") <=> exec[e].aborted
    /\ exec' = [exec EXCEPT ![e].stream = "closed"]
    /\ shown' = e
    /\ timeline' = CutShort(timeline)
    /\ isRunning' = FALSE
    /\ Record(e, status)
    /\ UNCHANGED <<latest>>

CancelExecution ==
    /\ ref # 0
    /\ exec' = [exec EXCEPT ![ref].aborted = TRUE]
    /\ ref' = 0
    /\ UNCHANGED <<latest, isRunning, shown, timeline, history>>

\* An entry is looked at again: its stored timeline is the one its run
\* started with.
SelectHistoryEntry ==
    /\ history # <<>>
    /\ \E i \in DOMAIN history : shown' = history[i].run
    /\ timeline' = StartOfRun
    /\ UNCHANGED <<exec, latest, isRunning, ref, history>>

ClearHistory ==
    /\ history # <<>>
    /\ history' = <<>>
    /\ UNCHANGED <<exec, latest, isRunning, ref, shown, timeline>>

ResetExecution ==
    /\ shown' = 0
    /\ timeline' = Waiting
    /\ UNCHANGED <<exec, latest, isRunning, ref, history>>

----------------------------------------------------------------------------
UiInit ==
    /\ exec = [e \in Executions |-> Fresh]
    /\ latest = 0 /\ isRunning = FALSE /\ ref = 0 /\ shown = 0
    /\ timeline = Waiting
    /\ history = <<>>

StreamEvent(e) ==
    \/ StepEvent(e)
    \/ ResultEvent(e)
    \/ \E phase \in {Discovery, Execution} : ErrorEvent(e, phase)
    \/ StreamEnds(e)
    \/ \E status \in {"cancelled", "error"} : StreamThrows(e, status)

UiNext ==
    \/ \E e \in Executions :
         \/ \E via \in Vias : HandleExecute(e, via)
         \/ StreamEvent(e)
    \/ CancelExecution \/ SelectHistoryEntry \/ ClearHistory \/ ResetExecution

\* The read of an aborted fetch fails, and the stream of an execution that
\* was answered is closed or breaks.  The server need not answer.
Over(e) ==
    \/ StreamThrows(e, "cancelled")
    \/ StreamEnds(e)
    \/ exec[e].final # "none" /\ StreamThrows(e, "error")
UiFairness == \A e \in Executions : WF_uiVars(Over(e))

UiSpec == UiInit /\ [][UiNext]_uiVars /\ UiFairness

----------------------------------------------------------------------------
(* Properties                                                               *)

\* A run that had shown its result was aborted by the next one, and the
\* abort has landed: it reset what belongs to the run that is now going on.
LateAbort == \E e \in Executions : /\ exec[e].aborted /\ exec[e].final # "none"
                                  /\ exec[e].stream = "closed"

\* Whatever order the transports report their phases in (the mesh transport
\* starts three at once and closes them later), the page never shows a phase
\* that has begun after one that is still open.
PhasesSettleInOrder ==
    LateAbort \/ \A p, q \in Phases : (p < q /\ timeline[q] # "pending") => timeline[p] \in Settled

\* Every run is recorded exactly once however it ended: the entries are of
\* distinct runs, all of them over, and no more than the cap.
RecordedOnce ==
    /\ Len(history) <= HistoryCap
    /\ \A i \in DOMAIN history : exec[history[i].run].stream = "closed"
    /\ \A i, j \in DOMAIN history : history[i].run = history[j].run => i = j

\* The page's run can be cancelled for as long as it is running and nobody
\* has cancelled it, unless the abort of the run before it landed late.
RunningCanBeCancelled ==
    (isRunning /\ ~exec[latest].aborted) => ref = latest \/ LateAbort

\* The page shows, records and can cancel the run that is going on.
PageFollowsItsRun == PhasesSettleInOrder /\ RecordedOnce /\ RunningCanBeCancelled

\* Every run that was answered or cancelled is over and recorded, and the page
\* is running only for one whose stream the server keeps open.
EveryRunEnded ==
    /\ \A e \in Executions : exec[e].stream = "open" => Reading(e) /\ exec[e].final = "none"
    /\ isRunning => Reading(latest)
============================================================================
