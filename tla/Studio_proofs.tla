---------------------------- MODULE Studio_proofs ----------------------------
(***************************************************************************)
(* Proofs about LIOP Studio.                                                *)
(*                                                                          *)
(* The execution page, for every number of executions: UiInv says that one  *)
(* run goes on at a time, that its timeline is in the order of the pipeline  *)
(* and that no step still to come goes back in it, until an abort of the    *)
(* run before lands late; and that the history holds runs that have ended,  *)
(* each at most once.                                                       *)
(*                                                                          *)
(* The server, for every number of requests, transports and subprocesses:   *)
(* ServerInv says where a request is and which transport it works on, how   *)
(* transports, subprocesses and tables of waiting requests refer to one     *)
(* another, and in which order subprocesses and their timers follow.        *)
(***************************************************************************)
EXTENDS StudioUi, StudioServer, SequenceTheorems, FiniteSetTheorems, TLAPS

Exec == [stream : {"none", "open", "closed"}, aborted : BOOLEAN, final : {"none", "success", "error"},
         via : Vias \cup {"none"}, steps : Nat]
Statuses == {"pending", "running", "success", "failed"}
Entry == [run : Executions, status : {"success", "error", "cancelled"}]

UiTypes ==
    /\ exec \in [Executions -> Exec]
    /\ \A e \in Executions : exec[e].stream = "open" => exec[e].via \in Vias
    /\ isRunning \in BOOLEAN /\ ref \in Executions \cup {0}
    /\ timeline \in [Phases -> Statuses]
    /\ history \in Seq(Entry)

(* One run goes on at a time, the one started last; its controller is the  *)
(* one the page holds, until it is aborted.                                *)
OneRun ==
    /\ \A e \in Executions : (exec[e].stream = "open" /\ ~exec[e].aborted) => ref = e
    /\ \A e \in Executions : (exec[e].stream = "open" /\ exec[e].final = "none") => e = latest /\ isRunning
    /\ isRunning => latest \in Executions /\ exec[latest].stream = "open" /\ exec[latest].final = "none"
    /\ ref # 0 => ref = latest /\ exec[ref].stream = "open" /\ ~exec[ref].aborted

InOrder(tl) == \A p, q \in Phases : (p < q /\ tl[q] # "pending") => tl[p] \in Settled

(* No phase that the rest of the script s is still to begin, after the     *)
(* first n steps, comes before one that has settled on the timeline tl.    *)
Ahead(s, n, tl) ==
    \A i \in n + 1 .. Len(s) :
        s[i][2] = "running" => \A q \in Phases : q > s[i][1] => tl[q] \notin Settled

StepsAhead ==
    \A e \in Executions : (exec[e].stream = "open" /\ exec[e].final = "none") =>
        Ahead(Script[exec[e].via], exec[e].steps, timeline)

UiInv ==
    /\ UiTypes /\ RecordedOnce
    /\ LateAbort \/ (OneRun /\ InOrder(timeline) /\ StepsAhead)

-----------------------------------------------------------------------------
(* What every script is: a phase is begun when no later one was reported.  *)
Orderly(s) ==
    /\ s \in Seq(Phases \X {"running", "success"})
    /\ \A i, k \in 1 .. Len(s) : (i < k /\ s[k][2] = "running") => s[i][1] <= s[k][1]

LEMMA PhasesAre ==
  /\ Phases = 1 .. 6 /\ Bootstrap = 1 /\ Discovery = 2 /\ Pqc = 3 /\ Sealing = 4 /\ Execution = 5 /\ ZkVerify = 6
  /\ Phases \subseteq Nat
  BY DEF Phases, Bootstrap, Discovery, Pqc, Sealing, Execution, ZkVerify

LEMMA StdioScript == Orderly(Script.stdio)
  BY PhasesAre DEF Script, Orderly
LEMMA HttpScript == Orderly(Script.http)
  BY PhasesAre DEF Script, Orderly
LEMMA GrpcScript == Orderly(Script.grpc)
  BY PhasesAre DEF Script, Orderly
LEMMA MeshScript == Orderly(Script.mesh)
  BY PhasesAre DEF Script, Orderly

LEMMA Scripts == ASSUME NEW v \in Vias PROVE Orderly(Script[v])
  BY StdioScript, HttpScript, GrpcScript, MeshScript, StudioUiAssumption

LEMMA Updating ==
  ASSUME NEW tl \in [Phases -> Statuses], NEW phase \in Phases, NEW status \in {"running", "success", "failed"}
  PROVE  LET new == UpdateTimelineStep(tl, phase, status)
         IN /\ new \in [Phases -> Statuses]
            /\ \A q \in Phases : (q > phase /\ new[q] \in Settled) => tl[q] \in Settled
            /\ (status = "running" /\ new[phase] \in Settled) => FALSE
            /\ (InOrder(tl) /\ (status = "running" => \A q \in Phases : q > phase => tl[q] \notin Settled))
                 => InOrder(new)
<1> DEFINE new == UpdateTimelineStep(tl, phase, status)
<1>1. /\ new \in [Phases -> Statuses]
      /\ \A p \in Phases : new[p] = IF p = phase THEN status ELSE IF tl[p] \in Settled THEN tl[p]
                                    ELSE IF p > phase THEN "pending" ELSE "success"
  BY DEF UpdateTimelineStep, Statuses, Settled
<1> HIDE DEF new
<1>2. \A q \in Phases : (q > phase /\ new[q] \in Settled) => tl[q] \in Settled
  BY <1>1, PhasesAre DEF Settled
<1>3. ASSUME InOrder(tl), status = "running" => \A q \in Phases : q > phase => tl[q] \notin Settled
      PROVE  InOrder(new)
  BY <1>1, <1>3, PhasesAre DEF InOrder, Settled
<1>4. (status = "running" /\ new[phase] \in Settled) => FALSE
  BY <1>1 DEF Settled
<1> QED
  BY <1>1, <1>2, <1>3, <1>4 DEF new

-----------------------------------------------------------------------------
LEMMA InitUiInv == UiInit => UiInv
<1> SUFFICES ASSUME UiInit PROVE UiInv
  OBVIOUS
<1>1. UiTypes
  <2>1. Fresh \in Exec /\ Fresh.stream = "none"
    BY DEF Fresh, Exec
  <2>2. Waiting \in [Phases -> Statuses]
    BY DEF Waiting, Statuses
  <2>3. <<>> \in Seq(Entry)
    OBVIOUS
  <2> QED
    BY <2>1, <2>2, <2>3 DEF UiInit, UiTypes
<1>2. OneRun /\ StepsAhead
  BY DEF UiInit, OneRun, StepsAhead, Fresh
<1>3. InOrder(timeline)
  BY DEF UiInit, InOrder, Waiting
<1>4. RecordedOnce
  BY StudioUiAssumption DEF UiInit, RecordedOnce
<1> QED
  BY <1>1, <1>2, <1>3, <1>4 DEF UiInv

(* A run that has ended stays as it is.                                    *)
LEMMA LateStays ==
  ASSUME UiTypes, LateAbort,
         \A f \in Executions : exec[f].stream = "closed" =>
            exec'[f].stream = "closed" /\ exec'[f].final = exec[f].final /\ (exec[f].aborted => exec'[f].aborted)
  PROVE  LateAbort'
  BY DEF LateAbort

LEMMA EntriesAre ==
  ASSUME UiInv
  PROVE  history \in Seq(Entry) /\ \A i \in DOMAIN history : history[i].run \in Executions
<1>1. history \in Seq(Entry)
  BY DEF UiInv, UiTypes
<1>2. \A i \in DOMAIN history : history[i] \in Entry
  BY <1>1
<1> QED
  BY <1>1, <1>2 DEF Entry

(* Nothing is recorded.                                                    *)
LEMMA HistoryStays ==
  ASSUME UiInv, history' = history \/ history' = <<>>,
         \A f \in Executions : exec[f].stream = "closed" => exec'[f].stream = "closed"
  PROVE  RecordedOnce' /\ history' \in Seq(Entry)
<1>1. CASE history' = history
  <2>1. \A i \in DOMAIN history : history[i].run \in Executions
    BY EntriesAre
  <2> QED
    BY <1>1, <2>1 DEF UiInv, UiTypes, RecordedOnce
<1>2. CASE history' = <<>>
  BY <1>2, StudioUiAssumption DEF RecordedOnce
<1> QED
  BY <1>1, <1>2

(* A run that was open is recorded, and is the newest entry.               *)
LEMMA Recording ==
  ASSUME UiInv, NEW e \in Executions, NEW status \in {"success", "error", "cancelled"}, Record(e, status),
         exec[e].stream = "open", exec'[e].stream = "closed",
         \A f \in Executions : exec[f].stream = "closed" => exec'[f].stream = "closed"
  PROVE  RecordedOnce' /\ history' \in Seq(Entry)
<1> DEFINE entry == [run |-> e, status |-> status]
           all == <<entry>> \o history
           m == IF Len(all) < HistoryCap THEN Len(all) ELSE HistoryCap
<1>1. /\ history \in Seq(Entry) /\ Len(history) \in Nat /\ HistoryCap \in Nat /\ HistoryCap > 0
      /\ \A i, j \in DOMAIN history : history[i].run = history[j].run => i = j
      /\ \A i \in DOMAIN history : history[i].run \in Executions /\ exec[history[i].run].stream = "closed"
  BY StudioUiAssumption, EntriesAre DEF UiInv, RecordedOnce
<1>2. entry \in Entry /\ entry.run = e
  BY DEF Entry
<1> HIDE DEF entry
<1>3. /\ all \in Seq(Entry) /\ Len(all) = Len(history) + 1
      /\ all[1] = entry /\ \A i \in 2 .. Len(all) : i - 1 \in DOMAIN history /\ all[i] = history[i - 1]
  <2>1. <<entry>> \in Seq(Entry) /\ Len(<<entry>>) = 1 /\ <<entry>>[1] = entry
    BY <1>2
  <2>2. /\ all \in Seq(Entry) /\ Len(all) = Len(history) + 1
        /\ \A i \in 1 .. Len(all) : all[i] = IF i <= 1 THEN entry ELSE history[i - 1]
    BY <1>1, <2>1, ConcatProperties
  <2> QED
    BY <1>1, <2>2
<1> HIDE DEF all
<1>4. m \in 1 .. Len(all) /\ m <= HistoryCap
  BY <1>1, <1>3
<1>5. /\ history' \in Seq(Entry) /\ DOMAIN history' = 1 .. m /\ Len(history') = m
      /\ \A i \in 1 .. m : history'[i] = all[i]
  <2>1. history' = SubSeq(all, 1, m)
    BY DEF Record, all, entry
  <2> HIDE DEF m
  <2>2. /\ history' \in Seq(Entry) /\ Len(history') = m /\ \A i \in 1 .. m : history'[i] = all[i]
    BY <1>3, <1>4, <2>1, SubSeqProperties
  <2> QED
    BY <1>4, <2>2
<1> HIDE DEF m
<1>6. \A i \in 1 .. m : \/ (i = 1 /\ history'[i].run = e)
                       \/ (i > 1 /\ i - 1 \in DOMAIN history /\ history'[i].run = history[i - 1].run)
  BY <1>2, <1>3, <1>4, <1>5
<1>7. \A i \in DOMAIN history : history[i].run # e /\ exec'[history[i].run].stream = "closed"
  BY <1>1
<1>8. \A i \in DOMAIN history' : exec'[history'[i].run].stream = "closed"
  <2> SUFFICES ASSUME NEW i \in DOMAIN history' PROVE exec'[history'[i].run].stream = "closed"
    OBVIOUS
  <2>1. CASE i = 1
    BY <1>5, <1>6, <2>1
  <2>2. CASE i > 1
    <3>1. i - 1 \in DOMAIN history /\ history'[i].run = history[i - 1].run
      BY <1>5, <1>6, <2>2
    <3> QED
      BY <1>7, <3>1
  <2> QED
    BY <1>5, <2>1, <2>2
<1>9. ASSUME NEW i \in DOMAIN history', NEW j \in DOMAIN history', history'[i].run = history'[j].run
      PROVE  i = j
  <2>1. i \in 1 .. m /\ j \in 1 .. m /\ i \in Nat /\ j \in Nat
    BY <1>4, <1>5
  <2>2. CASE i > 1 /\ j > 1
    <3>1. /\ i - 1 \in DOMAIN history /\ j - 1 \in DOMAIN history
          /\ history[i - 1].run = history[j - 1].run
      BY <1>6, <1>9, <2>1, <2>2
    <3>2. i - 1 = j - 1
      BY <1>1, <3>1
    <3> QED
      BY <2>1, <3>2
  <2>3. CASE i = 1 /\ j > 1
    <3>1. history'[j].run = e /\ j - 1 \in DOMAIN history /\ history'[j].run = history[j - 1].run
      BY <1>6, <1>9, <2>1, <2>3
    <3> QED
      BY <1>7, <3>1
  <2>4. CASE i > 1 /\ j = 1
    <3>1. history'[i].run = e /\ i - 1 \in DOMAIN history /\ history'[i].run = history[i - 1].run
      BY <1>6, <1>9, <2>1, <2>4
    <3> QED
      BY <1>7, <3>1
  <2> QED
    BY <1>6, <2>1, <2>2, <2>3, <2>4
<1> QED
  BY <1>4, <1>5, <1>8, <1>9 DEF RecordedOnce

LEMMA ExecIs ==
  ASSUME UiInv
  PROVE  /\ exec \in [Executions -> Exec] /\ timeline \in [Phases -> Statuses] /\ UiTypes
         /\ \A e \in Executions : exec[e].stream = "open" => exec[e].via \in Vias
         /\ \A e \in Executions : exec[e].steps \in Nat /\ exec[e] \in Exec
         /\ 0 \notin Executions
  BY StudioUiAssumption DEF UiInv, UiTypes, Exec

LEMMA StartKeeps ==
  ASSUME UiInv, NEW e \in Executions, NEW via \in Vias, HandleExecute(e, via)
  PROVE  UiInv'
<1> DEFINE new == [Fresh EXCEPT !.stream = "open", !.via = via]
<1>1. new \in Exec /\ new.stream = "open" /\ ~new.aborted /\ new.final = "none" /\ new.via = via /\ new.steps = 0
  BY DEF Exec, Fresh
<1>2. /\ exec' = [f \in Executions |-> IF f = e THEN new ELSE IF f = ref THEN [exec[f] EXCEPT !.aborted = TRUE] ELSE exec[f]]
      /\ latest' = e /\ ref' = e /\ isRunning' = TRUE /\ timeline' = StartOfRun /\ UNCHANGED history
      /\ exec[e].stream = "none" /\ ~isRunning
  BY DEF HandleExecute
<1> HIDE DEF new
<1>3. ASSUME NEW f \in Executions, f # e
      PROVE  /\ exec'[f] \in Exec /\ exec'[f].stream = exec[f].stream /\ exec'[f].final = exec[f].final
             /\ exec'[f].via = exec[f].via /\ exec'[f].steps = exec[f].steps
             /\ exec'[f].aborted = IF f = ref THEN TRUE ELSE exec[f].aborted
  <2>1. exec[f] \in Exec
    BY ExecIs
  <2>2. CASE f = ref
    <3>1. exec'[f] = [exec[f] EXCEPT !.aborted = TRUE]
      BY <1>2, <1>3, <2>2
    <3> QED
      BY <2>1, <2>2, <3>1 DEF Exec
  <2>3. CASE f # ref
    BY <1>2, <1>3, <2>1, <2>3
  <2> QED
    BY <2>2, <2>3
<1>4. exec'[e] = new
  BY <1>2
<1>5. timeline' \in [Phases -> Statuses] /\ InOrder(timeline') /\ \A q \in Phases : q > 1 => timeline'[q] = "pending"
  BY <1>2, PhasesAre DEF StartOfRun, Waiting, Statuses, InOrder
<1>6. RecordedOnce' /\ history' \in Seq(Entry)
  BY <1>2, <1>3, HistoryStays
<1>7. UiTypes'
  <2>1. exec' \in [Executions -> Exec]
    BY <1>1, <1>2, <1>3, <1>4
  <2>2. \A f \in Executions : exec'[f].stream = "open" => exec'[f].via \in Vias
    BY <1>1, <1>3, <1>4, ExecIs
  <2> QED
    BY <1>2, <1>5, <1>6, <2>1, <2>2 DEF UiTypes
<1>8. ASSUME ~LateAbort'
      PROVE  OneRun' /\ StepsAhead'
  <2>1. ~LateAbort
    BY <1>2, <1>3, <1>8, ExecIs, LateStays
  <2>2. \A f \in Executions : (f # e /\ exec'[f].stream = "open") => exec'[f].aborted /\ exec'[f].final # "none"
    BY <1>2, <1>3, <2>1 DEF UiInv, OneRun
  <2>3. OneRun'
    BY <1>1, <1>2, <1>4, <2>2 DEF OneRun
  <2>4. StepsAhead'
    <3>1. Ahead(Script[via], 0, timeline')
      <4>1. Orderly(Script[via])
        BY Scripts
      <4>2. \A i \in 1 .. Len(Script[via]) : Script[via][i][1] \in Phases
        BY <4>1 DEF Orderly
      <4> QED
        BY <1>5, <4>2, PhasesAre DEF Ahead, Settled
    <3> QED
      BY <1>1, <1>4, <2>2, <3>1 DEF StepsAhead
  <2> QED
    BY <2>3, <2>4
<1> QED
  BY <1>5, <1>6, <1>7, <1>8 DEF UiInv

(* A reader of one run's stream changes that run alone.                    *)
LEMMA OneChanges ==
  ASSUME UiInv, NEW e \in Executions, exec[e].stream = "open", NEW x \in Exec, exec' = [exec EXCEPT ![e] = x],
         x.stream = "open" => x.via = exec[e].via
  PROVE  /\ exec' \in [Executions -> Exec] /\ exec'[e] = x
         /\ \A f \in Executions : f # e => exec'[f] = exec[f]
         /\ \A f \in Executions : exec'[f].stream = "open" => exec'[f].via \in Vias
         /\ LateAbort => LateAbort'
<1>1. /\ exec' \in [Executions -> Exec] /\ exec'[e] = x
      /\ \A f \in Executions : f # e => exec'[f] = exec[f]
  BY ExecIs
<1>2. \A f \in Executions : exec'[f].stream = "open" => exec'[f].via \in Vias
  BY <1>1, ExecIs
<1>3. LateAbort => LateAbort'
  BY <1>1, ExecIs, LateStays
<1> QED
  BY <1>1, <1>2, <1>3

(* The next step of a script keeps the timeline in order.                  *)
LEMMA ScriptStep ==
  ASSUME NEW s, Orderly(s), NEW n \in Nat, n < Len(s), NEW tl \in [Phases -> Statuses], NEW new,
         new = UpdateTimelineStep(tl, s[n + 1][1], s[n + 1][2])
  PROVE  /\ new \in [Phases -> Statuses]
         /\ (InOrder(tl) /\ Ahead(s, n, tl)) => InOrder(new) /\ Ahead(s, n + 1, new)
<1>1. Len(s) \in Nat /\ \A i \in 1 .. Len(s) : s[i] \in Phases \X {"running", "success"}
  BY DEF Orderly
<1>2. n + 1 \in 1 .. Len(s) /\ \A i \in 1 .. Len(s) : s[i][1] \in Phases /\ s[i][2] \in {"running", "success"}
  BY <1>1
<1>3. PICK phase, status : phase = s[n + 1][1] /\ status = s[n + 1][2]
  OBVIOUS
<1>4. phase \in Phases /\ status \in {"running", "success", "failed"} /\ new = UpdateTimelineStep(tl, phase, status)
  BY <1>2, <1>3
<1>5. /\ new \in [Phases -> Statuses]
      /\ \A q \in Phases : (q > phase /\ new[q] \in Settled) => tl[q] \in Settled
      /\ (status = "running" /\ new[phase] \in Settled) => FALSE
      /\ (InOrder(tl) /\ (status = "running" => \A q \in Phases : q > phase => tl[q] \notin Settled))
           => InOrder(new)
  BY <1>4, Updating
<1>6. ASSUME InOrder(tl), Ahead(s, n, tl)
      PROVE  InOrder(new) /\ Ahead(s, n + 1, new)
  <2>1. \A i \in n + 1 .. Len(s) : s[i][2] = "running" => \A q \in Phases : q > s[i][1] => tl[q] \notin Settled
    BY <1>6 DEF Ahead
  <2>2. InOrder(new)
    <3>1. n + 1 \in n + 1 .. Len(s)
      BY <1>1, <1>2
    <3> QED
      BY <1>3, <1>5, <1>6, <2>1, <3>1
  <2>3. ASSUME NEW i \in (n + 1) + 1 .. Len(s), s[i][2] = "running", NEW q \in Phases, q > s[i][1]
        PROVE  new[q] \notin Settled
    <3>1. i \in 1 .. Len(s) /\ i \in n + 1 .. Len(s) /\ n + 1 < i
      BY <1>1
    <3>2. phase <= s[i][1]
      BY <1>2, <1>3, <2>3, <3>1 DEF Orderly
    <3>3. tl[q] \notin Settled
      BY <2>1, <2>3, <3>1
    <3>4. q > phase
      <4>1. PICK x : x = s[i][1]
        OBVIOUS
      <4>2. x \in Nat /\ q \in Nat /\ phase \in Nat
        BY <1>2, <1>4, <3>1, <4>1, PhasesAre
      <4>3. q > x /\ phase <= x
        BY <2>3, <3>2, <4>1
      <4> QED
        BY <4>2, <4>3
    <3> QED
      BY <1>5, <3>3, <3>4
  <2> QED
    BY <2>2, <2>3 DEF Ahead
<1> QED
  BY <1>5, <1>6

LEMMA StepKeeps ==
  ASSUME UiInv, NEW e \in Executions, StepEvent(e)
  PROVE  UiInv'
<1>0. PICK n, s, x : n = exec[e].steps /\ s = Script[exec[e].via] /\ x = [exec[e] EXCEPT !.steps = n + 1]
  OBVIOUS
<1>1. /\ exec[e].stream = "open" /\ ~exec[e].aborted /\ exec[e].final = "none" /\ n < Len(s) /\ n \in Nat
      /\ exec' = [exec EXCEPT ![e] = x]
      /\ timeline' = UpdateTimelineStep(timeline, s[n + 1][1], s[n + 1][2])
      /\ UNCHANGED <<latest, isRunning, ref, shown, history>>
  BY <1>0, ExecIs DEF StepEvent, Reading
<1>2. x \in Exec /\ x.stream = "open" /\ x.via = exec[e].via /\ x.final = "none" /\ ~x.aborted /\ x.steps = n + 1
  BY <1>0, <1>1, ExecIs DEF Exec
<1>3. Orderly(s)
  BY <1>0, <1>1, ExecIs, Scripts
<1>4. /\ exec' \in [Executions -> Exec] /\ exec'[e] = x
      /\ \A f \in Executions : f # e => exec'[f] = exec[f]
      /\ \A f \in Executions : exec'[f].stream = "open" => exec'[f].via \in Vias
      /\ LateAbort => LateAbort'
  BY <1>1, <1>2, OneChanges
<1>5. RecordedOnce' /\ history' \in Seq(Entry)
  BY <1>1, <1>4, HistoryStays
<1>6. /\ timeline' \in [Phases -> Statuses]
      /\ (InOrder(timeline) /\ Ahead(s, n, timeline)) => InOrder(timeline') /\ Ahead(s, n + 1, timeline')
  BY <1>1, <1>3, ExecIs, ScriptStep
<1>7. UiTypes'
  BY <1>1, <1>4, <1>5, <1>6 DEF UiInv, UiTypes
<1>8. ASSUME ~LateAbort'
      PROVE  OneRun' /\ InOrder(timeline') /\ StepsAhead'
  <2>1. OneRun /\ InOrder(timeline) /\ StepsAhead
    BY <1>4, <1>8 DEF UiInv
  <2>2. Ahead(s, n, timeline)
    BY <1>0, <1>1, <2>1 DEF StepsAhead
  <2>3. InOrder(timeline') /\ Ahead(s, n + 1, timeline')
    BY <1>6, <2>1, <2>2
  <2>4. OneRun'
    BY <1>1, <1>2, <1>4, <2>1 DEF OneRun
  <2>5. \A f \in Executions : f # e => ~(exec[f].stream = "open" /\ exec[f].final = "none")
    BY <1>1, <2>1 DEF OneRun
  <2>6. StepsAhead'
    <3> SUFFICES ASSUME NEW f \in Executions, exec'[f].stream = "open", exec'[f].final = "none"
                 PROVE  Ahead(Script[exec'[f].via], exec'[f].steps, timeline')
      BY DEF StepsAhead
    <3>1. f = e
      BY <1>4, <2>5
    <3>2. Script[exec'[f].via] = s /\ exec'[f].steps = n + 1
      BY <1>0, <1>2, <1>4, <3>1
    <3> QED
      BY <2>3, <3>2
  <2> QED
    BY <2>3, <2>4, <2>6
<1> QED
  BY <1>5, <1>7, <1>8 DEF UiInv

(* The result or the error event.                                          *)
LEMMA EndKeeps ==
  ASSUME UiInv, NEW e \in Executions, NEW final \in {"success", "error"}, Ends(e, final),
         \/ UNCHANGED timeline
         \/ \E phase \in Phases : timeline' = UpdateTimelineStep(timeline, phase, "failed")
  PROVE  UiInv'
<1>0. PICK x : x = [exec[e] EXCEPT !.final = final]
  OBVIOUS
<1>1. /\ exec[e].stream = "open" /\ ~exec[e].aborted /\ exec[e].final = "none"
      /\ exec' = [exec EXCEPT ![e] = x] /\ isRunning' = FALSE /\ UNCHANGED <<latest, ref, history>>
  BY <1>0 DEF Ends, Reading
<1>2. x \in Exec /\ x.stream = "open" /\ x.via = exec[e].via /\ x.final = final /\ ~x.aborted
  BY <1>0, <1>1, ExecIs DEF Exec
<1>3. /\ exec' \in [Executions -> Exec] /\ exec'[e] = x
      /\ \A f \in Executions : f # e => exec'[f] = exec[f]
      /\ \A f \in Executions : exec'[f].stream = "open" => exec'[f].via \in Vias
      /\ LateAbort => LateAbort'
  BY <1>1, <1>2, OneChanges
<1>4. RecordedOnce' /\ history' \in Seq(Entry)
  BY <1>1, <1>3, HistoryStays
<1>5. timeline' \in [Phases -> Statuses] /\ (InOrder(timeline) => InOrder(timeline'))
  <2>1. CASE UNCHANGED timeline
    BY <2>1, ExecIs
  <2>2. ASSUME NEW phase \in Phases, timeline' = UpdateTimelineStep(timeline, phase, "failed")
        PROVE  timeline' \in [Phases -> Statuses] /\ (InOrder(timeline) => InOrder(timeline'))
    BY <2>2, ExecIs, Updating
  <2> QED
    BY <2>1, <2>2
<1>6. UiTypes'
  BY <1>1, <1>3, <1>4, <1>5 DEF UiInv, UiTypes
<1>7. ASSUME ~LateAbort'
      PROVE  OneRun' /\ InOrder(timeline') /\ StepsAhead'
  <2>1. OneRun /\ InOrder(timeline)
    BY <1>3, <1>7 DEF UiInv
  <2>2. \A f \in Executions : ~(exec'[f].stream = "open" /\ exec'[f].final = "none")
    BY <1>1, <1>2, <1>3, <2>1 DEF OneRun
  <2> QED
    BY <1>1, <1>2, <1>3, <1>5, <2>1, <2>2 DEF OneRun, StepsAhead
<1> QED
  BY <1>4, <1>6, <1>7 DEF UiInv

(* The stream ends, or the read of it fails: the run is recorded.          *)
LEMMA CloseKeeps ==
  ASSUME UiInv, NEW e \in Executions, NEW status \in {"success", "error", "cancelled"},
         exec[e].stream = "open", exec' = [exec EXCEPT ![e].stream = "closed"], Record(e, status),
         timeline' \in {timeline, CutShort(timeline)}, UNCHANGED latest,
         isRunning' = FALSE \/ (UNCHANGED isRunning /\ exec[e].final # "none" /\ ~exec[e].aborted)
  PROVE  UiInv'
<1>0. PICK x : x = [exec[e] EXCEPT !.stream = "closed"]
  OBVIOUS
<1>1. exec' = [exec EXCEPT ![e] = x] /\ ref' = 0
  BY <1>0 DEF Record
<1>2. x \in Exec /\ x.stream = "closed" /\ x.final = exec[e].final /\ x.aborted = exec[e].aborted
  BY <1>0, ExecIs DEF Exec
<1>3. /\ exec' \in [Executions -> Exec] /\ exec'[e] = x
      /\ \A f \in Executions : f # e => exec'[f] = exec[f]
      /\ \A f \in Executions : exec'[f].stream = "open" => exec'[f].via \in Vias
      /\ LateAbort => LateAbort'
  BY <1>1, <1>2, OneChanges
<1>4. RecordedOnce' /\ history' \in Seq(Entry)
  BY <1>2, <1>3, Recording
<1>5. timeline' \in [Phases -> Statuses] /\ (InOrder(timeline) => InOrder(timeline'))
  BY ExecIs DEF CutShort, Statuses, InOrder, Settled
<1>6. UiTypes'
  <2>1. isRunning' \in BOOLEAN
    BY DEF UiInv, UiTypes
  <2> QED
    BY <1>1, <1>3, <1>4, <1>5, <2>1 DEF UiTypes
<1>7. ASSUME ~LateAbort'
      PROVE  OneRun' /\ InOrder(timeline') /\ StepsAhead'
  <2>1. OneRun /\ InOrder(timeline) /\ ~LateAbort
    BY <1>3, <1>7 DEF UiInv
  <2>2. ~(exec[e].aborted /\ exec[e].final # "none")
    BY <1>2, <1>3, <1>7 DEF LateAbort
  <2>3. e = latest /\ ~isRunning'
    BY <2>1, <2>2, ExecIs DEF OneRun
  <2>4. \A f \in Executions : exec'[f].stream = "open" => exec'[f].aborted /\ exec'[f].final # "none"
    BY <1>2, <1>3, <2>1, <2>2, <2>3, ExecIs DEF OneRun
  <2> QED
    BY <1>1, <1>5, <2>1, <2>3, <2>4 DEF OneRun, StepsAhead
<1> QED
  BY <1>4, <1>6, <1>7 DEF UiInv

LEMMA CancelKeeps ==
  ASSUME UiInv, CancelExecution
  PROVE  UiInv'
<1>0. PICK x : x = [exec[ref] EXCEPT !.aborted = TRUE]
  OBVIOUS
<1>1. /\ exec' = [exec EXCEPT ![ref] = x] /\ ref \in Executions /\ ref' = 0
      /\ UNCHANGED <<latest, isRunning, timeline, history>>
  BY <1>0 DEF CancelExecution, UiInv, UiTypes
<1>2. /\ x \in Exec /\ x.stream = exec[ref].stream /\ x.final = exec[ref].final /\ x.aborted
      /\ x.via = exec[ref].via /\ x.steps = exec[ref].steps
  BY <1>0, <1>1, ExecIs DEF Exec
<1>3. /\ exec' \in [Executions -> Exec] /\ exec'[ref] = x
      /\ \A f \in Executions : f # ref => exec'[f] = exec[f]
  BY <1>1, <1>2, ExecIs
<1>4. \A f \in Executions : exec'[f].stream = "open" => exec'[f].via \in Vias
  BY <1>2, <1>3, ExecIs
<1>5. RecordedOnce' /\ history' \in Seq(Entry)
  BY <1>1, <1>2, <1>3, HistoryStays
<1>6. UiTypes'
  BY <1>1, <1>3, <1>4, <1>5 DEF UiInv, UiTypes
<1>7. ASSUME ~LateAbort'
      PROVE  OneRun' /\ InOrder(timeline') /\ StepsAhead'
  <2>1. ~LateAbort
    BY <1>2, <1>3, <1>7, ExecIs, LateStays
  <2>2. OneRun /\ InOrder(timeline) /\ StepsAhead
    BY <2>1 DEF UiInv
  <2>3. OneRun'
    BY <1>1, <1>2, <1>3, <2>2 DEF OneRun
  <2>4. StepsAhead'
    BY <1>1, <1>2, <1>3, <2>2 DEF StepsAhead
  <2> QED
    BY <1>1, <2>2, <2>3, <2>4
<1> QED
  BY <1>5, <1>6, <1>7 DEF UiInv

(* The history is looked at or cleared, or the page is reset.              *)
LEMMA PageKeeps ==
  ASSUME UiInv, UNCHANGED <<exec, latest, isRunning, ref>>, history' \in {history, <<>>},
         timeline' \in {timeline, StartOfRun, Waiting}
  PROVE  UiInv'
<1>1. /\ timeline' \in [Phases -> Statuses] /\ (InOrder(timeline) => InOrder(timeline'))
      /\ \A q \in Phases : timeline'[q] \in Settled => timeline[q] \in Settled
  BY ExecIs, PhasesAre DEF StartOfRun, Waiting, Statuses, InOrder, Settled
<1>2. RecordedOnce' /\ history' \in Seq(Entry)
  BY HistoryStays
<1>3. UiTypes'
  BY <1>1, <1>2 DEF UiInv, UiTypes
<1>4. LateAbort => LateAbort'
  BY DEF LateAbort
<1>5. OneRun => OneRun'
  BY DEF OneRun
<1>6. StepsAhead => StepsAhead'
  <2> SUFFICES ASSUME StepsAhead, NEW f \in Executions, exec[f].stream = "open", exec[f].final = "none"
               PROVE  Ahead(Script[exec[f].via], exec[f].steps, timeline')
    BY DEF StepsAhead
  <2>1. PICK s, n : s = Script[exec[f].via] /\ n = exec[f].steps
    OBVIOUS
  <2>2. Orderly(s) /\ n \in Nat /\ Ahead(s, n, timeline)
    BY <2>1, ExecIs, Scripts DEF StepsAhead
  <2>3. \A i \in n + 1 .. Len(s) : s[i][1] \in Phases
    <3>1. Len(s) \in Nat /\ \A i \in 1 .. Len(s) : s[i] \in Phases \X {"running", "success"}
      BY <2>2 DEF Orderly
    <3> QED
      BY <2>2, <3>1
  <2> QED
    BY <1>1, <2>1, <2>2, <2>3 DEF Ahead
<1> QED
  BY <1>1, <1>2, <1>3, <1>4, <1>5, <1>6 DEF UiInv

-----------------------------------------------------------------------------
(* useStudioExecution, for any number of executions, any history length    *)
(* and every kind of transport: the timeline is in order, each run is      *)
(* recorded once, and a run that is going on can be cancelled.             *)
THEOREM PageFollows == UiSpec => []PageFollowsItsRun
<1>1. UiInv /\ [UiNext]_uiVars => UiInv'
  <2> SUFFICES ASSUME UiInv, [UiNext]_uiVars PROVE UiInv'
    OBVIOUS
  <2>1. ASSUME NEW e \in Executions, NEW via \in Vias, HandleExecute(e, via)
        PROVE  UiInv'
    BY <2>1, StartKeeps
  <2>2. ASSUME NEW e \in Executions, StreamEvent(e)
        PROVE  UiInv'
    <3>1. CASE StepEvent(e)
      BY <3>1, StepKeeps
    <3>2. CASE ResultEvent(e)
      BY <3>2, EndKeeps DEF ResultEvent
    <3>3. ASSUME NEW phase \in {Discovery, Execution}, ErrorEvent(e, phase)
          PROVE  UiInv'
      BY <3>3, EndKeeps, PhasesAre DEF ErrorEvent
    <3>4. CASE StreamEnds(e)
      <4>1. exec[e].final \in {"success", "error"} /\ exec[e].final # "none" /\ exec[e].stream = "open" /\ ~exec[e].aborted
        BY <3>4, ExecIs DEF StreamEnds, Reading, Exec
      <4>2. /\ exec' = [exec EXCEPT ![e].stream = "closed"] /\ Record(e, exec[e].final)
            /\ UNCHANGED <<latest, isRunning, timeline>>
        BY <3>4 DEF StreamEnds
      <4> QED
        BY <4>1, <4>2, CloseKeeps
    <3>5. ASSUME NEW status \in {"cancelled", "error"}, StreamThrows(e, status)
          PROVE  UiInv'
      BY <3>5, CloseKeeps DEF StreamThrows
    <3> QED
      BY <2>2, <3>1, <3>2, <3>3, <3>4, <3>5 DEF StreamEvent
  <2>3. CASE CancelExecution
    BY <2>3, CancelKeeps
  <2>4. CASE SelectHistoryEntry \/ ClearHistory \/ ResetExecution \/ UNCHANGED uiVars
    BY <2>4, PageKeeps DEF SelectHistoryEntry, ClearHistory, ResetExecution, uiVars
  <2> QED
    BY <2>1, <2>2, <2>3, <2>4 DEF UiNext
<1>2. UiInv => PageFollowsItsRun
  <2> SUFFICES ASSUME UiInv PROVE PageFollowsItsRun
    OBVIOUS
  <2>1. PhasesSettleInOrder
    BY DEF UiInv, InOrder, PhasesSettleInOrder
  <2>2. RunningCanBeCancelled
    BY DEF UiInv, OneRun, RunningCanBeCancelled
  <2> QED
    BY <2>1, <2>2 DEF UiInv, PageFollowsItsRun
<1> QED
  BY <1>1, <1>2, InitUiInv, PTL DEF UiSpec

-----------------------------------------------------------------------------
(* The server.                                                             *)
-----------------------------------------------------------------------------
Handlers == {"h_old", "h_conn", "h_rep", "h_tools", "h_exec", "h_done"}
Within == {"connect", "c_spawn", "c_init", "c_dial", "c_end", "list", "l_rpc", "l_neg", "l_resolve",
           "scan", "s_before", "s_list", "s_end", "s_neg", "s_online", "s_offline",
           "call", "k_rpc", "k_neg", "k_stream", "k_mesh", "k_joined"}
Labels == Within \cup Handlers \cup {"idle", "done"}
KindNames == {"stdio", "http", "grpc", "mesh"}
Results == {None, "ok", "fail", "rejected", "throw", "empty", "online", "offline", "result", "error"}

Request == [op : {None, "connect", "scan", "health", "tools", "execute"}, at : Labels, wait : BOOLEAN,
            t : Transports \cup {0}, ret : Seq(Labels), res : Results,
            n : Nat, kid : Kids \cup {0}, made : Transports \cup {0}]
Transport == [kind : KindNames \cup {None}, connected : BOOLEAN, client : BOOLEAN, child : Kids \cup {0}]
Ids == Requests \X Nat
Kid == [of : Transports \cup {0}, st : {"free", "up", "gone"}, killed : BOOLEAN, early : BOOLEAN,
        owed : SUBSET Ids, lost : SUBSET Ids]

ServerTypes ==
    /\ active \in Transports
    /\ trs \in [Transports -> Transport]
    /\ kids \in [Kids -> Kid]
    /\ pending \in [Transports -> SUBSET Ids]
    /\ req \in [Requests -> Request]
    /\ raced \in BOOLEAN /\ mixed \in BOOLEAN

(* The stack of a request: the point it is at and those it returns to; the *)
(* last of them is in a handler, and no other.                             *)
Stacked(q) ==
    /\ q.at \in Within <=> q.ret # <<>>
    /\ \A i \in DOMAIN q.ret : q.ret[i] \in Within <=> i < Len(q.ret)
    /\ \A i \in DOMAIN q.ret : q.ret[i] \notin {"h_old", "idle", "done", "c_dial", "c_spawn"}
Frames(q) == {q.at} \cup {q.ret[i] : i \in DOMAIN q.ret}
Elsewhere == {"h_tools", "h_exec", "h_done"}

(* Request r is q while the transports are f and it is the turn of tn.     *)
Sound(r, q, f, tn) ==
    /\ Stacked(q)
    /\ q.at \notin {"idle", "done"} => q.t \in Transports /\ f[q.t].kind # None
    /\ q.at = "idle" <=> q.op = None
    /\ q.at = "idle" => ~q.wait
    /\ q.at \in Handlers \ {"h_old"} => tn = r
    /\ tn = r => ~q.wait
    /\ q.at = "c_dial" => f[q.t].kind = "mesh"
    /\ q.at = "h_old" => q.op = "connect"
    /\ q.at = "c_spawn" => f[q.t].kind = "stdio"
    /\ q.op = "connect" => Elsewhere \cap Frames(q) = {}
RequestsInv == \A r \in Requests : Sound(r, req[r], trs, turn)

(* The transports are made one after the other, by a connect each; the     *)
(* last one is the active one.                                             *)
Connects == {r \in Requests : req[r].op = "connect"}
Switchers == {r \in Connects : req[r].at # "h_old"}
TransportsInv ==
    /\ \A t \in Transports : trs[t].kind # None <=> t <= active
    /\ active <= Cardinality(Switchers) + 1
    /\ Cardinality(Connects) <= Len(Kinds) - 1

(* The subprocesses are started one after the other.  A transport holds    *)
(* the last one it started, until it is disconnected, which kills it.      *)
KidsInv ==
    /\ \A j, k \in Kids : (j <= k /\ kids[k].st # "free") => kids[j].st # "free"
    /\ \A k \in Kids : kids[k].st = "free" <=> kids[k].of = 0
    /\ \A t \in Transports, k \in Kids :
         /\ trs[t].child = k => kids[k].of = t
         /\ (trs[t].child # 0 /\ kids[k].of = t) => k <= trs[t].child
         /\ (trs[t].child = 0 /\ kids[k].of = t) => \E j \in Kids : kids[j].of = t /\ kids[j].killed
    /\ \A k \in Kids : kids[k].st # "free" => trs[kids[k].of].kind = "stdio"

(* The timers: whoever waits for a subprocess waits for one that it        *)
(* started; the later ones are waited for too, unless they failed early.   *)
Spawning(r, k) == Waits(r, "c_spawn") /\ req[r].kid = k
Early(k) == kids[k].st = "gone" /\ kids[k].early
Timely ==
    \A r \in Requests, l \in Kids :
        Spawning(r, l) =>
             /\ kids[l].of = req[r].t
             /\ kids[l].st = "gone" => kids[l].early
             /\ \A k \in Kids : (k > l /\ kids[k].st # "free") =>
                  Early(k) \/ \E q \in Requests : Spawning(q, k)
Told ==
    \A t \in Transports :
         (trs[t].connected /\ trs[t].child # 0 /\ kids[trs[t].child].st = "gone")
             => \E k \in Kids : kids[k].of = t /\ Early(k)
TimersInv ==
    /\ \A r \in Requests : Waits(r, "c_spawn") => req[r].kid \in Kids
    /\ Timely /\ Told

(* What is in a table, is waited for there.                                *)
PendingInv ==
    \A t \in Transports : \A id \in pending[t] :
        \E q \in Requests : id = Id(q) /\ req[q].t = t /\ Asks(q)

(* No subprocess runs at all while a connect closes the active transport.  *)
Parted ==
    ~raced => \A r \in Requests : (req[r].at = "h_old" /\ req[r].t = active) =>
                  \A k \in Kids : kids[k].st = "up" => kids[k].killed

(* Who scans, scans the active transport; a connect on its way will report *)
(* on it and name it.                                                      *)
OnTarget ==
    ~mixed =>
        /\ \A r \in Requests : "h_rep" \in Frames(req[r]) => req[r].t = active
        /\ \A r \in Switchers : Busy(r) => req[r].made = active
        /\ \/ report.of \in {0, active} /\ label \in {0, active}
           \/ \E r \in Switchers : Busy(r)

ServerInv ==
    /\ ServerTypes /\ RequestsInv /\ TransportsInv /\ KidsInv /\ TimersInv
    /\ PendingInv /\ WaitsAreHeld /\ NoChildLeftBehind /\ Parted /\ OnTarget

(* What the assumptions say of the places, the children and the requests. *)
LEMMA ConstantsAre ==
  /\ Len(Kinds) \in Nat /\ Len(Kinds) > 0 /\ Transports = 1 .. Len(Kinds)
  /\ Transports \subseteq Nat /\ 0 \notin Transports
  /\ MaxKids \in Nat /\ Kids = 1 .. MaxKids /\ Kids \subseteq Nat /\ 0 \notin Kids
  /\ IsFiniteSet(Requests) /\ None \notin Requests
  /\ \A t \in Transports : Kinds[t] \subseteq KindNames
  /\ 1 \in Transports
BY StudioAssumption DEF Transports, Kids, None, KindNames

(* The points inside a transport and those of a handler are different.     *)
LEMMA LabelsAre ==
  /\ Within \cap Handlers = {} /\ {"idle", "done"} \cap (Within \cup Handlers) = {}
  /\ Within \subseteq Labels /\ Handlers \subseteq Labels /\ {"idle", "done"} \subseteq Labels
  /\ Elsewhere \subseteq Handlers /\ Elsewhere \cap {"h_old", "h_conn", "h_rep"} = {}
BY DEF Within, Handlers, Labels, Elsewhere

(* The server starts in a state of the invariant.                          *)
LEMMA InitServerInv == Init => ServerInv
<1> SUFFICES ASSUME Init PROVE ServerInv
  OBVIOUS
<1>1. /\ req = [r \in Requests |-> Idle] /\ Idle \in Request
      /\ \A r \in Requests : req[r] = Idle
  BY ConstantsAre, LabelsAre DEF Init, Idle, Request, Results, None
<1>2. PICK kind \in Kinds[1] : trs = [t \in Transports |-> IF t = 1 THEN [Unused EXCEPT !.kind = kind] ELSE Unused]
  BY DEF Init
<1>3. kind \in KindNames /\ kind # None
  BY ConstantsAre DEF KindNames, None
<1>4. /\ Unused \in Transport /\ [Unused EXCEPT !.kind = kind] \in Transport
      /\ [Unused EXCEPT !.kind = kind].kind = kind /\ [Unused EXCEPT !.kind = kind].child = 0
      /\ Unused.kind = None /\ Unused.child = 0
  BY <1>3 DEF Unused, Transport
<1>5. /\ trs \in [Transports -> Transport]
      /\ \A t \in Transports : trs[t].child = 0 /\ (trs[t].kind # None <=> t <= 1)
  <2>1. \A t \in Transports : t <= 1 <=> t = 1
    BY ConstantsAre
  <2> QED
    BY <1>2, <1>3, <1>4, <2>1
<1>6. /\ kids \in [Kids -> Kid] /\ \A k \in Kids : kids[k].of = 0 /\ kids[k].st = "free" /\ kids[k] = Unborn
  <2>1. Unborn \in Kid /\ Unborn.of = 0 /\ Unborn.st = "free"
    BY DEF Unborn, Kid
  <2> QED
    BY <2>1 DEF Init
<1>7. ServerTypes
  BY <1>1, <1>5, <1>6, ConstantsAre DEF Init, ServerTypes
<1>8. Idle.at = "idle" /\ Idle.op = None /\ Idle.ret = <<>> /\ Idle.t = 0 /\ ~Idle.wait
  BY DEF Idle
<1>9. RequestsInv
  <2>1. Frames(Idle) = {"idle"} /\ Stacked(Idle)
    BY <1>8, LabelsAre DEF Frames, Stacked
  <2> QED
    BY <1>1, <1>8, <2>1, LabelsAre DEF RequestsInv, Sound, Handlers, Elsewhere, None
<1>10. TransportsInv
  <2>1. Connects = {} /\ Switchers = {}
    BY <1>1, <1>8 DEF Connects, Switchers, None
  <2>2. Cardinality({}) = 0 /\ active = 1
    BY FS_EmptySet DEF Init
  <2> QED
    BY <1>5, <2>1, <2>2, ConstantsAre DEF TransportsInv
<1>11. \A r \in Requests : ~Busy(r)
  BY <1>1, <1>8 DEF Busy
<1>12. KidsInv
  BY <1>5, <1>6, ConstantsAre DEF KidsInv
<1>13. TimersInv
  BY <1>11, <1>5 DEF TimersInv, Timely, Told, Waits, Spawning
<1>14. WaitsAreHeld /\ NoChildLeftBehind /\ Parted
  BY <1>1, <1>6, <1>8, <1>11 DEF WaitsAreHeld, Asks, NoChildLeftBehind, Parted
<1>15. PendingInv
  BY DEF Init, PendingInv
<1>16. OnTarget
  <2>1. Frames(Idle) = {"idle"}
    BY <1>8 DEF Frames
  <2>2. Switchers = {} /\ report.of = 0 /\ label = 0 /\ active = 1
    BY <1>1, <1>8 DEF Switchers, Connects, Init, None
  <2> QED
    BY <1>1, <2>1, <2>2 DEF OnTarget
<1> QED
  BY <1>7, <1>9, <1>10, <1>12, <1>13, <1>14, <1>15, <1>16 DEF ServerInv

(* What a call, a return and an await do to a stack.                       *)
LEMMA StackPush ==
  ASSUME NEW p \in Request, NEW q \in Request, Stacked(p), NEW back \in Labels, q.ret = <<back>> \o p.ret,
         q.at \in Within, back \notin {"h_old", "idle", "done", "c_dial", "c_spawn"},
         back \in Within <=> p.at \in Within
  PROVE  Stacked(q) /\ Frames(q) \subseteq {q.at, back} \cup Frames(p)
<1>1. /\ p.ret \in Seq(Labels) /\ <<back>> \in Seq(Labels) /\ Len(<<back>>) = 1 /\ <<back>>[1] = back
  BY DEF Request
<1>2. /\ Len(q.ret) = Len(p.ret) + 1 /\ q.ret[1] = back /\ q.ret # <<>> /\ Len(p.ret) \in Nat
      /\ DOMAIN p.ret = 1 .. Len(p.ret) /\ DOMAIN q.ret = 1 .. Len(p.ret) + 1
      /\ \A i \in 2 .. Len(q.ret) : i - 1 \in DOMAIN p.ret /\ q.ret[i] = p.ret[i - 1]
  BY <1>1
<1>3. \A i \in DOMAIN q.ret : i = 1 \/ i \in 2 .. Len(q.ret)
  BY <1>2
<1>4. p.ret = <<>> <=> Len(p.ret) = 0
  BY <1>1
<1>5. ASSUME NEW i \in DOMAIN q.ret
      PROVE  /\ q.ret[i] \in Within <=> i < Len(q.ret)
             /\ q.ret[i] \notin {"h_old", "idle", "done", "c_dial", "c_spawn"}
             /\ q.ret[i] \in {back} \cup Frames(p)
  <2>1. CASE i = 1
    <3>1. i < Len(q.ret) <=> p.ret # <<>>
      BY <1>2, <1>4, <2>1
    <3> QED
      BY <1>2, <2>1, <3>1 DEF Stacked
  <2>2. CASE i \in 2 .. Len(q.ret)
    <3>1. i < Len(q.ret) <=> i - 1 < Len(p.ret)
      BY <1>2, <2>2
    <3> QED
      BY <1>2, <2>2, <3>1 DEF Stacked, Frames
  <2> QED
    BY <1>3, <2>1, <2>2
<1>6. Stacked(q)
  BY <1>2, <1>5 DEF Stacked
<1> QED
  BY <1>5, <1>6 DEF Frames

(* A return goes to the point below, of which there is one.                *)
LEMMA StackPop ==
  ASSUME NEW p \in Request, NEW q \in Request, Stacked(p), p.at \in Within, q.at = Head(p.ret), q.ret = Tail(p.ret)
  PROVE  /\ Stacked(q) /\ Frames(q) \subseteq Frames(p)
         /\ q.at \in (Within \cup Handlers) \ {"h_old", "c_dial", "c_spawn"}
<1>1. p.ret \in Seq(Labels) /\ p.ret # <<>>
  BY DEF Request, Stacked
<1>2. /\ Len(q.ret) = Len(p.ret) - 1 /\ q.at = p.ret[1] /\ Len(p.ret) \in Nat /\ Len(p.ret) > 0
      /\ DOMAIN p.ret = 1 .. Len(p.ret) /\ DOMAIN q.ret = 1 .. Len(p.ret) - 1
      /\ \A i \in DOMAIN q.ret : i + 1 \in DOMAIN p.ret /\ q.ret[i] = p.ret[i + 1]
      /\ q.ret \in Seq(Labels) /\ 1 \in DOMAIN p.ret
  BY <1>1
<1>3. q.ret = <<>> <=> Len(q.ret) = 0
  <2>1. q.ret \in Seq(Labels)
    BY <1>2
  <2>2. ASSUME NEW x \in Seq(Labels) PROVE x = <<>> <=> Len(x) = 0
    OBVIOUS
  <2> QED
    BY <2>1, <2>2
<1>4. q.at \in Within <=> q.ret # <<>>
  <2>1. 1 < Len(p.ret) <=> q.ret # <<>>
    BY <1>2, <1>3
  <2> QED
    BY <1>2, <2>1 DEF Stacked
<1>5. ASSUME NEW i \in DOMAIN q.ret
      PROVE  /\ q.ret[i] \in Within <=> i < Len(q.ret)
             /\ q.ret[i] \notin {"h_old", "idle", "done", "c_dial", "c_spawn"}
             /\ q.ret[i] \in Frames(p)
  <2>1. i < Len(q.ret) <=> i + 1 < Len(p.ret)
    BY <1>2
  <2> QED
    BY <1>2, <2>1 DEF Stacked, Frames
<1>6. q.at \in (Within \cup Handlers) \ {"h_old", "c_dial", "c_spawn"}
  BY <1>1, <1>2 DEF Stacked, Labels
<1>7. q.at \in Frames(p)
  BY <1>2 DEF Frames
<1> QED
  BY <1>4, <1>5, <1>6, <1>7 DEF Stacked, Frames

(* A step that neither calls nor returns leaves the stack as it is.        *)
LEMMA StackStays ==
  ASSUME NEW p \in Request, NEW q \in Request, Stacked(p), q.ret = p.ret, p.at \in Within <=> q.at \in Within
  PROVE  Stacked(q) /\ Frames(q) \subseteq {q.at} \cup Frames(p)
BY DEF Stacked, Frames

(* A handler has nothing to return to.                                     *)
LEMMA StackEmpty ==
  ASSUME NEW q \in Request, q.ret = <<>>, q.at \notin Within
  PROVE  Stacked(q) /\ Frames(q) = {q.at}
BY DEF Stacked, Frames

(* A step of the server's own code at request r that leaves the rest of    *)
(* the server alone, but for what r's transport is known to be.            *)
Follows(r, q) ==
    /\ (q.op = req[r].op /\ q.op # None) \/ (req[r].op = None /\ q.op \notin {None, "connect"})
    /\ Stacked(q)
    /\ q.at \notin {"h_old", "idle", "c_spawn"}
    /\ q.at # "done" => (Busy(r) /\ q.t = req[r].t) \/ q.t = active
    /\ q.op = "connect" => q.made = req[r].made
    /\ q.at = "c_dial" => trs[q.t].kind = "mesh"
    /\ q.wait => q.at \in Within
    /\ "h_rep" \in Frames(q) => q.t = active \/ (q.t = req[r].t /\ "h_rep" \in Frames(req[r]))
    /\ q.op = "connect" => q.at # "done" /\ Elsewhere \cap Frames(q) = {}
GoesTo(r, q) ==
    /\ Follows(r, q)
    /\ req' = [req EXCEPT ![r] = q]
    /\ turn' = IF q.wait \/ q.at = "done" THEN None ELSE r
AsksNobody(q) == ~(q.wait /\ q.at \in {"c_init", "l_rpc", "k_rpc"} /\ trs[q.t].kind = "stdio")
Moves(r) == \E q \in Request : GoesTo(r, q) /\ AsksNobody(q)
TransportsStay ==
    /\ trs' \in [Transports -> Transport]
    /\ \A t \in Transports :
         /\ trs'[t].kind = trs[t].kind /\ trs'[t].child = trs[t].child
         /\ trs[t].kind = "stdio" => trs'[t].connected = trs[t].connected
KidsStay ==
    /\ kids' \in [Kids -> Kid]
    /\ \A k \in Kids : /\ kids'[k].of = kids[k].of /\ kids'[k].st = kids[k].st
                       /\ kids'[k].killed = kids[k].killed /\ kids'[k].early = kids[k].early
                       /\ kids'[k].lost = kids[k].lost
Runs(r) == r \in Requests /\ turn \in {None, r} /\ ~req[r].wait /\ req[r].at \notin {"h_old", "done"}
ControlStep(r) ==
    /\ Runs(r) /\ Moves(r) /\ TransportsStay
    /\ UNCHANGED <<active, report, kids, pending, label, raced, mixed>>

(* What the invariant says of one request.                                 *)
LEMMA RequestIs ==
  ASSUME ServerInv, NEW r \in Requests
  PROVE  /\ req[r] \in Request /\ Sound(r, req[r], trs, turn)
         /\ Busy(r) => req[r].t \in Transports /\ trs[req[r].t].kind # None
         /\ turn # r => req[r].at \notin Handlers \ {"h_old"}
BY DEF ServerInv, ServerTypes, RequestsInv, Sound, Busy, Kind

(* The child that a transport holds is its own, and has been started.      *)
LEMMA ChildIs ==
  ASSUME ServerInv, NEW t \in Transports, trs[t].child # 0
  PROVE  /\ trs[t].child \in Kids /\ kids[trs[t].child].of = t /\ kids[trs[t].child].st # "free"
         /\ trs[t].kind = "stdio"
<1>1. trs[t].child \in Kids
  BY DEF ServerInv, ServerTypes, Transport
<1>2. kids[trs[t].child].of = t /\ t # 0
  BY <1>1, ConstantsAre DEF ServerInv, KidsInv
<1>3. kids[trs[t].child].st # "free"
  BY <1>1, <1>2 DEF ServerInv, KidsInv
<1> QED
  BY <1>1, <1>2, <1>3 DEF ServerInv, KidsInv

(* Those who are not moved stay as sound as they were.                     *)
LEMMA OthersAreSound ==
  ASSUME ServerInv, NEW r \in Requests, turn \in {None, r}, turn' \in {None, r},
         NEW f, \A t \in Transports : trs[t].kind # None => f[t].kind = trs[t].kind,
         NEW s \in Requests, s # r
  PROVE  Sound(s, req[s], f, turn')
<1>1. Sound(s, req[s], trs, turn) /\ turn # s /\ turn' # s
  BY RequestIs, ConstantsAre
<1>2. req[s].at \in {"c_dial", "c_spawn"} => req[s].t \in Transports /\ trs[req[s].t].kind # None
  BY <1>1 DEF Sound
<1> QED
  BY <1>1, <1>2 DEF Sound

(* What the server's own code keeps, whatever r puts to a subprocess.      *)
LEMMA CodeKeeps ==
  ASSUME ServerInv, NEW r \in Requests, Runs(r), NEW q \in Request, GoesTo(r, q), TransportsStay, KidsStay,
         pending' \in [Transports -> SUBSET Ids],
         UNCHANGED <<active, report, label, raced, mixed>>
  PROVE  /\ ServerTypes' /\ RequestsInv' /\ TransportsInv' /\ KidsInv' /\ TimersInv'
         /\ NoChildLeftBehind' /\ Parted' /\ OnTarget'
         /\ req'[r] = q /\ (q.at # "done" => q.t \in Transports /\ trs'[q.t].kind = trs[q.t].kind)
<1>1. /\ Follows(r, q) /\ req' = [req EXCEPT ![r] = q]
      /\ turn' = IF q.wait \/ q.at = "done" THEN None ELSE r
  BY DEF GoesTo
<1>2. /\ req \in [Requests -> Request] /\ req' \in [Requests -> Request] /\ req'[r] = q
      /\ \A s \in Requests : s # r => req'[s] = req[s]
  BY <1>1 DEF ServerInv, ServerTypes
<1>3. turn \in {None, r} /\ ~req[r].wait /\ req[r].at \notin {"h_old", "done"}
  BY DEF Runs
<1>4. /\ trs' \in [Transports -> Transport]
      /\ \A t \in Transports :
           /\ trs'[t].kind = trs[t].kind /\ trs'[t].child = trs[t].child
           /\ trs[t].kind = "stdio" => trs'[t].connected = trs[t].connected
  BY DEF TransportsStay
<1>5. Sound(r, req[r], trs, turn) /\ (Busy(r) => req[r].t \in Transports /\ trs[req[r].t].kind # None)
  BY RequestIs
<1>6. active \in Transports /\ trs[active].kind # None
  <2>1. active \in Transports /\ active <= active
    BY ConstantsAre DEF ServerInv, ServerTypes
  <2> QED
    BY <2>1 DEF ServerInv, TransportsInv
<1>7. ServerTypes'
  BY <1>2, <1>4 DEF ServerInv, ServerTypes, KidsStay
<1>8. RequestsInv'
  <2>1. Sound(r, q, trs', turn')
    <3>1. q.at \in Handlers => ~q.wait
      BY <1>1, LabelsAre DEF Follows
    <3>2. q.at \notin {"idle", "done"} => q.t \in Transports /\ trs'[q.t].kind # None
      BY <1>1, <1>4, <1>5, <1>6 DEF Follows
    <3>3. q.at = "c_dial" => trs'[q.t].kind = "mesh"
      BY <1>1, <1>4, <3>2 DEF Follows
    <3>4. q.at # "idle" /\ q.op # None
      BY <1>1 DEF Follows
    <3>5. q.op = "connect" => Elsewhere \cap Frames(q) = {}
      BY <1>1 DEF Follows
    <3>6. /\ q.at \notin {"c_spawn", "h_old"} /\ Stacked(q)
          /\ (q.at \in Handlers \ {"h_old"} => turn' = r) /\ (turn' = r => ~q.wait)
      BY <1>1, <3>1, ConstantsAre, LabelsAre DEF Follows
    <3> QED
      BY <3>2, <3>3, <3>4, <3>5, <3>6 DEF Sound
  <2>2. turn' \in {None, r}
    BY <1>1
  <2>3. \A t \in Transports : trs[t].kind # None => trs'[t].kind = trs[t].kind
    BY <1>4
  <2>4. ASSUME NEW s \in Requests PROVE Sound(s, req'[s], trs', turn')
    BY <1>2, <1>3, <2>1, <2>2, <2>3, OthersAreSound
  <2> QED
    BY <2>4 DEF RequestsInv
<1>9. /\ q.op = "connect" <=> req[r].op = "connect"
      /\ q.op = "connect" => Busy(r) /\ q.at \notin {"h_old", "idle", "done"} /\ req[r].op # None
  <2>1. /\ (q.op = req[r].op /\ q.op # None) \/ (req[r].op = None /\ q.op \notin {None, "connect"})
        /\ q.at \notin {"h_old", "idle"} /\ (q.op = "connect" => q.at # "done")
    BY <1>1 DEF Follows
  <2>2. req[r].at = "idle" <=> req[r].op = None
    BY <1>5 DEF Sound
  <2> QED
    BY <1>3, <2>1, <2>2 DEF Busy, None
<1>10. Connects' = Connects /\ Switchers' = Switchers
  BY <1>2, <1>3, <1>9 DEF Connects, Switchers
<1>11. TransportsInv'
  BY <1>3, <1>4, <1>10 DEF ServerInv, TransportsInv
<1>12. KidsInv'
  <2>1. \A k \in Kids : kids[k].st # "free" => kids[k].of \in Transports
    BY DEF ServerInv, ServerTypes, KidsInv, Kid
  <2> QED
    BY <1>4, <2>1 DEF ServerInv, KidsInv, KidsStay
<1>13. TimersInv'
  <2>1. \A s \in Requests : Waits(s, "c_spawn")' <=> Waits(s, "c_spawn")
    BY <1>1, <1>2, <1>3 DEF Waits, Busy, Follows
  <2>2. \A s \in Requests : Waits(s, "c_spawn") => req'[s] = req[s]
    BY <1>2, <1>3 DEF Waits
  <2>3. \A s \in Requests, k \in Kids : Spawning(s, k)' <=> Spawning(s, k)
    BY <2>1, <2>2 DEF Spawning
  <2>4. Timely'
    BY <2>1, <2>2, <2>3 DEF ServerInv, TimersInv, Timely, Early, Spawning, KidsStay
  <2>5. Told'
    <3>1. ASSUME NEW t \in Transports, trs[t].child # 0 PROVE trs[t].child \in Kids /\ trs[t].kind = "stdio"
      BY ChildIs, <3>1
    <3> QED
      BY <1>4, <3>1 DEF ServerInv, TimersInv, Told, Early, KidsStay
  <2> QED
    BY <1>3, <2>1, <2>2, <2>4, <2>5 DEF ServerInv, TimersInv
<1>14. NoChildLeftBehind' /\ Parted'
  BY <1>1, <1>2, <1>3, <1>4, <1>6 DEF ServerInv, NoChildLeftBehind, Parted, Follows, KidsStay
<1>15. OnTarget'
  <2> SUFFICES ASSUME ~mixed PROVE OnTarget'
    BY <1>3 DEF OnTarget
  <2>1. /\ \A s \in Requests : "h_rep" \in Frames(req[s]) => req[s].t = active
        /\ \A s \in Switchers : Busy(s) => req[s].made = active
        /\ (report.of \in {0, active} /\ label \in {0, active}) \/ \E s \in Switchers : Busy(s)
    BY DEF ServerInv, OnTarget
  <2>2. \A s \in Requests : "h_rep" \in Frames(req'[s]) => req'[s].t = active
    BY <1>1, <1>2, <2>1 DEF Follows
  <2>3. \A s \in Switchers : Busy(s)' <=> Busy(s)
    BY <1>2, <1>9 DEF Busy, Switchers, Connects
  <2>4. \A s \in Switchers : Busy(s) => req'[s].made = active
    BY <1>1, <1>2, <1>9, <2>1 DEF Follows, Switchers, Connects
  <2> QED
    BY <1>3, <1>10, <2>1, <2>2, <2>3, <2>4 DEF OnTarget
<1> QED
  BY <1>1, <1>2, <1>4, <1>5, <1>6, <1>7, <1>8, <1>11, <1>12, <1>13, <1>14, <1>15 DEF Follows

(* The server's own code keeps the invariant when it asks no subprocess.   *)
LEMMA ControlKeeps ==
  ASSUME ServerInv, NEW r \in Requests, ControlStep(r)
  PROVE  ServerInv'
<1>1. PICK q \in Request : GoesTo(r, q) /\ AsksNobody(q)
  BY DEF ControlStep, Moves
<1>2. /\ UNCHANGED <<active, report, kids, pending, label, raced, mixed>>
      /\ Runs(r) /\ TransportsStay /\ KidsStay /\ pending' \in [Transports -> SUBSET Ids]
  BY DEF ControlStep, KidsStay, ServerInv, ServerTypes
<1>3. /\ ServerTypes' /\ RequestsInv' /\ TransportsInv' /\ KidsInv' /\ TimersInv'
      /\ NoChildLeftBehind' /\ Parted' /\ OnTarget'
      /\ req'[r] = q /\ (q.at # "done" => q.t \in Transports /\ trs'[q.t].kind = trs[q.t].kind)
  BY <1>1, <1>2, CodeKeeps
<1>4. WaitsAreHeld'
  <2> SUFFICES ASSUME NEW s \in Requests, Asks(s)' PROVE (Held(s) \/ Abandoned(s))'
    BY DEF WaitsAreHeld
  <2>1. s # r
    BY <1>1, <1>3 DEF Asks, Kind, AsksNobody
  <2>2. req'[s] = req[s]
    BY <1>1, <2>1 DEF GoesTo, ServerInv, ServerTypes
  <2>3. Busy(s) /\ req[s].t \in Transports
    BY <2>2, RequestIs DEF Asks, Busy
  <2>4. Held(s) \/ Abandoned(s)
    BY <1>2, <2>2, <2>3 DEF ServerInv, WaitsAreHeld, Asks, Kind, TransportsStay
  <2> QED
    BY <1>2, <2>2, <2>4 DEF Held, Abandoned, Id
<1>5. PendingInv'
  <2> SUFFICES ASSUME NEW t \in Transports, NEW id \in pending[t]
               PROVE  \E s \in Requests : (id = Id(s) /\ req[s].t = t /\ Asks(s))'
    BY <1>2 DEF PendingInv
  <2>1. PICK s \in Requests : id = Id(s) /\ req[s].t = t /\ Asks(s)
    BY DEF ServerInv, PendingInv
  <2>2. req'[s] = req[s] /\ trs'[t].kind = trs[t].kind
    BY <1>1, <1>2, <2>1 DEF GoesTo, ServerInv, ServerTypes, Runs, Asks, TransportsStay
  <2> QED
    BY <2>1, <2>2 DEF Id, Asks, Busy, Kind
<1> QED
  BY <1>3, <1>4, <1>5 DEF ServerInv

(* A call, a return, an await and an answer move a request so.             *)
LEMMA CallMoves ==
  ASSUME ServerInv, NEW r \in Requests, Ready(r), turn \in {None, r}, req[r].at \in Within,
         NEW m \in Within \ {"c_spawn", "c_dial"}, NEW back \in Within \ {"c_spawn", "c_dial"}, Call(r, m, back)
  PROVE  Moves(r)
<1> DEFINE q == [req[r] EXCEPT !.t = req[r].t, !.at = m, !.ret = <<back>> \o req[r].ret, !.res = None]
<1>1. /\ req[r] \in Request /\ Stacked(req[r]) /\ Sound(r, req[r], trs, turn)
      /\ Busy(r) /\ req[r].op # None
  BY RequestIs DEF Sound, Ready, Busy
<1>2. q \in Request
  <2>1. <<back>> \o req[r].ret \in Seq(Labels) /\ m \in Labels
    BY <1>1, LabelsAre DEF Request
  <2> QED
    BY <1>1, <2>1 DEF Request, Results
<1>3. /\ q.op = req[r].op /\ q.at = m /\ q.t = req[r].t /\ q.made = req[r].made /\ q.wait = req[r].wait
      /\ q.ret = <<back>> \o req[r].ret
  BY <1>1 DEF Request
<1>4. req' = [req EXCEPT ![r] = q] /\ turn' = r
  BY DEF Call, CallOn, ServerInv, ServerTypes
<1> HIDE DEF q
<1>5. Stacked(q) /\ Frames(q) \subseteq {m, back} \cup Frames(req[r])
  BY <1>1, <1>2, <1>3, StackPush, LabelsAre DEF Handlers
<1>6. ~q.wait /\ m \notin Handlers \cup {"idle", "done"} /\ back \notin Handlers
  BY <1>3, LabelsAre DEF Ready
<1>7. Follows(r, q)
  <2>1. "h_rep" \in Frames(q) => "h_rep" \in Frames(req[r])
    BY <1>5, <1>6 DEF Handlers
  <2>2. Elsewhere \cap Frames(q) \subseteq Elsewhere \cap Frames(req[r])
    BY <1>5, <1>6, LabelsAre
  <2>3. m \notin {"h_old", "idle", "c_spawn", "done", "c_dial"}
    BY <1>6 DEF Handlers
  <2> QED
    BY <1>1, <1>3, <1>5, <1>6, <2>1, <2>2, <2>3 DEF Follows, Sound
<1> QED
  BY <1>2, <1>3, <1>4, <1>6, <1>7 DEF Moves, GoesTo, AsksNobody

(* A return to the caller.                                                 *)
LEMMA ReturnMoves ==
  ASSUME ServerInv, NEW r \in Requests, Ready(r), turn \in {None, r}, req[r].at \in Within,
         NEW res \in Results, Return(r, res)
  PROVE  Moves(r)
<1> DEFINE q == [req[r] EXCEPT !.at = Head(req[r].ret), !.ret = Tail(req[r].ret), !.res = res]
<1>1. /\ req[r] \in Request /\ Stacked(req[r]) /\ Sound(r, req[r], trs, turn)
      /\ Busy(r) /\ req[r].op # None
  BY RequestIs DEF Sound, Ready, Busy
<1>2. q \in Request
  <2>1. Head(req[r].ret) \in Labels /\ Tail(req[r].ret) \in Seq(Labels)
    <3>1. req[r].ret \in Seq(Labels) /\ req[r].ret # <<>>
      BY <1>1 DEF Request, Stacked
    <3> QED
      BY <3>1
  <2> QED
    BY <1>1, <2>1 DEF Request
<1>3. /\ q.op = req[r].op /\ q.at = Head(req[r].ret) /\ q.t = req[r].t /\ q.made = req[r].made
      /\ q.wait = req[r].wait /\ q.ret = Tail(req[r].ret)
  BY <1>1 DEF Request
<1>4. req' = [req EXCEPT ![r] = q] /\ turn' = r
  BY DEF Return, ServerInv, ServerTypes
<1> HIDE DEF q
<1>5. Stacked(q) /\ Frames(q) \subseteq Frames(req[r]) /\ q.at \in (Within \cup Handlers) \ {"h_old", "c_dial", "c_spawn"}
  BY <1>1, <1>2, <1>3, StackPop
<1>6. ~q.wait /\ q.at \notin {"idle", "done"}
  BY <1>3, <1>5, LabelsAre DEF Ready
<1>7. Follows(r, q)
  BY <1>1, <1>3, <1>5, <1>6 DEF Follows, Sound
<1> QED
  BY <1>2, <1>4, <1>6, <1>7 DEF Moves, GoesTo, AsksNobody

(* An await of anything but a subprocess.                                  *)
LEMMA AwaitMoves ==
  ASSUME ServerInv, NEW r \in Requests, Ready(r), turn \in {None, r}, req[r].at \in Within,
         NEW m \in Within \ {"c_spawn"}, Await(r, m), Kind(r) # "stdio" \/ m \notin {"c_init", "l_rpc", "k_rpc"},
         m = "c_dial" => Kind(r) = "mesh"
  PROVE  Moves(r)
<1> DEFINE q == [req[r] EXCEPT !.at = m, !.wait = TRUE, !.res = None]
<1>1. /\ req[r] \in Request /\ Stacked(req[r]) /\ Sound(r, req[r], trs, turn)
      /\ Busy(r) /\ req[r].op # None
  BY RequestIs DEF Sound, Ready, Busy
<1>2. q \in Request
  BY <1>1, LabelsAre DEF Request, Results
<1>3. /\ q.op = req[r].op /\ q.at = m /\ q.t = req[r].t /\ q.made = req[r].made /\ q.wait
      /\ q.ret = req[r].ret
  BY <1>1 DEF Request
<1>4. req' = [req EXCEPT ![r] = q] /\ turn' = None
  BY DEF Await, ServerInv, ServerTypes
<1> HIDE DEF q
<1>5. Stacked(q) /\ Frames(q) \subseteq {m} \cup Frames(req[r])
  BY <1>1, <1>2, <1>3, StackStays
<1>6. m \notin Handlers \cup {"idle", "done"}
  BY LabelsAre
<1>7. Follows(r, q)
  <2>1. "h_rep" \in Frames(q) => "h_rep" \in Frames(req[r])
    BY <1>5, <1>6 DEF Handlers
  <2>2. Elsewhere \cap Frames(q) \subseteq Elsewhere \cap Frames(req[r])
    BY <1>5, <1>6, LabelsAre
  <2>3. m \notin {"h_old", "idle", "c_spawn", "done"}
    BY <1>6 DEF Handlers
  <2> QED
    BY <1>1, <1>3, <1>5, <2>1, <2>2, <2>3 DEF Follows, Sound, Kind
<1>8. AsksNobody(q)
  BY <1>3 DEF AsksNobody, Kind
<1> QED
  BY <1>2, <1>3, <1>4, <1>7, <1>8 DEF Moves, GoesTo

(* The answer of a request that is not a connect.                          *)
LEMMA ReplyMoves ==
  ASSUME ServerInv, NEW r \in Requests, req[r].op # "connect", req[r].op # None, NEW res \in Results, Reply(r, res)
  PROVE  Moves(r)
<1> DEFINE q == [Idle EXCEPT !.op = req[r].op, !.at = "done", !.res = res]
<1>1. req[r] \in Request
  BY RequestIs
<1>2. q \in Request /\ q.op = req[r].op /\ q.at = "done" /\ q.ret = <<>> /\ ~q.wait
  <2>1. Idle \in Request /\ Idle.ret = <<>> /\ ~Idle.wait
    BY ConstantsAre, LabelsAre DEF Idle, Request, Results, None
  <2>2. req[r].op \in {None, "connect", "scan", "health", "tools", "execute"} /\ "done" \in Labels
    BY <1>1, LabelsAre DEF Request
  <2> HIDE DEF Idle
  <2> QED
    BY <2>1, <2>2 DEF Request
<1>3. req' = [req EXCEPT ![r] = q] /\ turn' = None
  BY DEF Reply
<1> HIDE DEF q
<1>4. Stacked(q) /\ Frames(q) = {"done"}
  BY <1>2, StackEmpty, LabelsAre
<1>5. Follows(r, q)
  BY <1>2, <1>4 DEF Follows
<1> QED
  BY <1>2, <1>3, <1>5 DEF Moves, GoesTo, AsksNobody

(* No transport changes.                                                   *)
LEMMA TransportsSame ==
  ASSUME ServerInv, UNCHANGED trs
  PROVE  TransportsStay
BY DEF TransportsStay, ServerInv, ServerTypes

(* A transport of another kind than stdio is marked connected or not, with *)
(* or without a client.                                                    *)
LEMMA TransportMarked ==
  ASSUME ServerInv, NEW t \in Transports, trs[t].kind # "stdio", NEW b \in BOOLEAN, NEW c \in BOOLEAN,
         trs' = [trs EXCEPT ![t].client = c, ![t].connected = b]
  PROVE  TransportsStay
<1>1. trs \in [Transports -> Transport] /\ trs[t] \in Transport
  BY DEF ServerInv, ServerTypes
<1> DEFINE x == [trs[t] EXCEPT !.client = c, !.connected = b]
<1>2. x \in Transport /\ x.kind = trs[t].kind /\ x.child = trs[t].child
  BY <1>1 DEF Transport
<1>3. trs' = [trs EXCEPT ![t] = x]
  BY <1>1
<1> HIDE DEF x
<1> QED
  BY <1>1, <1>2, <1>3 DEF TransportsStay

(* The same, the client left as it is.                                     *)
LEMMA TransportConnected ==
  ASSUME ServerInv, NEW t \in Transports, trs[t].kind # "stdio", NEW b \in BOOLEAN,
         SetConnected(t, b)
  PROVE  TransportsStay
<1>1. trs \in [Transports -> Transport] /\ trs[t] \in Transport
  BY DEF ServerInv, ServerTypes
<1> DEFINE x == [trs[t] EXCEPT !.connected = b]
<1>2. x \in Transport /\ x.kind = trs[t].kind /\ x.child = trs[t].child
  BY <1>1 DEF Transport
<1>3. trs' = [trs EXCEPT ![t] = x]
  BY <1>1 DEF SetConnected
<1> HIDE DEF x
<1> QED
  BY <1>1, <1>2, <1>3 DEF TransportsStay

(* A handler goes on with the transport that is active by then.            *)
LEMMA CallActiveMoves ==
  ASSUME ServerInv, NEW r \in Requests, Ready(r), turn \in {None, r}, req[r].at \in Handlers \ {"h_old"},
         NEW m \in {"scan", "call"}, NEW back \in {"h_rep", "h_done"}, CallOn(r, active, m, back),
         back = "h_done" => req[r].op # "connect"
  PROVE  Moves(r)
<1> DEFINE q == [req[r] EXCEPT !.t = active, !.at = m, !.ret = <<back>> \o req[r].ret, !.res = None]
<1>1. /\ req[r] \in Request /\ Stacked(req[r]) /\ Sound(r, req[r], trs, turn)
      /\ Busy(r) /\ req[r].op # None
  BY RequestIs DEF Sound, Ready, Busy
<1>2. active \in Transports
  BY DEF ServerInv, ServerTypes
<1>3. m \in Within /\ m \in Labels /\ back \in Handlers /\ back \in Labels
  BY LabelsAre DEF Within, Handlers
<1>4. q \in Request
  <2>1. <<back>> \o req[r].ret \in Seq(Labels)
    BY <1>1, <1>3 DEF Request
  <2> QED
    BY <1>1, <1>2, <1>3, <2>1 DEF Request, Results
<1>5. /\ q.op = req[r].op /\ q.at = m /\ q.t = active /\ q.made = req[r].made /\ q.wait = req[r].wait
      /\ q.ret = <<back>> \o req[r].ret
  BY <1>1 DEF Request
<1>6. req' = [req EXCEPT ![r] = q] /\ turn' = r
  BY DEF CallOn, ServerInv, ServerTypes
<1> HIDE DEF q
<1>7. req[r].at \notin Within /\ back \notin Within
  BY <1>3, LabelsAre
<1>8. Stacked(q) /\ Frames(q) \subseteq {m, back} \cup Frames(req[r])
  BY <1>1, <1>3, <1>4, <1>5, <1>7, StackPush
<1>9. Follows(r, q)
  <2>1. q.op = "connect" => Elsewhere \cap Frames(q) = {}
    BY <1>1, <1>5, <1>8 DEF Sound, Elsewhere
  <2> QED
    BY <1>1, <1>5, <1>8, <2>1 DEF Follows, Sound, Ready
<1> QED
  BY <1>4, <1>5, <1>6, <1>9 DEF Moves, GoesTo, AsksNobody, Ready

(* Who runs, is busy with a transport that was made.                       *)
LEMMA RunsHere ==
  ASSUME ServerInv, NEW r \in Requests, NEW at \in Labels \ {"h_old"}, Running(r, at)
  PROVE  /\ Runs(r) /\ Ready(r) /\ turn \in {None, r} /\ req[r].at = at
         /\ req[r] \in Request /\ req[r].t \in Transports /\ trs[req[r].t].kind # None
         /\ trs[req[r].t] \in Transport
BY RequestIs DEF Running, Runs, Ready, Busy, ServerInv, ServerTypes

(* The steps of connect, but for the start of a subprocess.                *)
LEMMA InitializedIs ==
  ASSUME ServerInv, NEW r \in Requests, Initialized(r)
  PROVE  ControlStep(r)
<1>1. Running(r, "c_init") /\ UNCHANGED <<active, report, kids, pending, raced, mixed, label>>
  BY DEF Initialized
<1>2. /\ Runs(r) /\ Ready(r) /\ turn \in {None, r} /\ req[r].at = "c_init"
      /\ req[r].t \in Transports
  BY <1>1, RunsHere, LabelsAre DEF Within
<1>3. {"c_init", "list", "c_end"} \subseteq Within /\ "throw" \in Results
  BY DEF Within, Results
<1>4. CASE StdioInitialized(r)
  BY <1>1, <1>2, <1>3, <1>4, CallMoves, TransportsSame DEF StdioInitialized, ControlStep
<1>5. CASE HttpInitialized(r)
  BY <1>1, <1>2, <1>3, <1>5, CallMoves, TransportConnected DEF HttpInitialized, Kind, ControlStep
<1>6. CASE Return(r, "throw") /\ UNCHANGED trs
  BY <1>1, <1>2, <1>3, <1>6, ReturnMoves, TransportsSame DEF ControlStep
<1> QED
  BY <1>4, <1>5, <1>6 DEF Initialized

(* The end of a connect of any kind.                                       *)
LEMMA ConnectedIs ==
  ASSUME ServerInv, NEW r \in Requests, Connected(r)
  PROVE  ControlStep(r)
<1>1. {"c_end", "c_dial"} \subseteq Within /\ "throw" \in Results /\ "ok" \in Results
  BY DEF Within, Results
<1>2. CASE Running(r, "c_end") /\ Return(r, req[r].res) /\ UNCHANGED trs
  <2>1. Runs(r) /\ Ready(r) /\ turn \in {None, r} /\ req[r].at = "c_end" /\ req[r].res \in Results
    BY <1>1, <1>2, RunsHere, LabelsAre DEF Request
  <2> QED
    BY <1>1, <1>2, <2>1, ReturnMoves, TransportsSame DEF Connected, ControlStep
<1>3. CASE MeshDialled(r)
  <2>1. /\ Runs(r) /\ Ready(r) /\ turn \in {None, r} /\ req[r].at = "c_dial"
        /\ req[r].t \in Transports
    BY <1>1, <1>3, RunsHere, LabelsAre DEF MeshDialled
  <2>2. trs[req[r].t].kind # "stdio"
    BY <2>1, RequestIs DEF Sound
  <2>3. Moves(r)
    BY <1>1, <1>3, <2>1, ReturnMoves DEF MeshDialled
  <2>4. TransportsStay
    BY <1>3, <2>1, <2>2, TransportConnected, TransportsSame DEF MeshDialled
  <2> QED
    BY <2>1, <2>3, <2>4 DEF Connected, ControlStep
<1> QED
  BY <1>2, <1>3 DEF Connected

(* connect, and the start of a subprocess by it.                           *)
LEMMA ConnectIs ==
  ASSUME ServerInv, NEW r \in Requests, Connect(r)
  PROVE  ControlStep(r) \/ (Running(r, "connect") /\ Kind(r) = "stdio" /\ ~IsConnected(req[r].t)
                             /\ SpawnChild(r) /\ Waits(r, "c_spawn")')
<1>1. Running(r, "connect") /\ UNCHANGED <<active, report, pending, mixed, label>>
  BY DEF Connect
<1>2. /\ Runs(r) /\ Ready(r) /\ turn \in {None, r} /\ req[r].at = "connect" /\ Busy(r)
      /\ req[r].t \in Transports /\ req[r] \in Request
  BY <1>1, RunsHere, LabelsAre DEF Within, Ready
<1>3. {"connect", "c_init", "c_dial"} \subseteq Within /\ "throw" \in Results /\ "ok" \in Results
  BY DEF Within, Results
<1>4. CASE StdioConnect(r)
  <2>1. CASE Return(r, "ok") /\ UNCHANGED <<kids, trs, raced>>
    BY <1>1, <1>2, <1>3, <2>1, ReturnMoves, TransportsSame DEF ControlStep
  <2>2. CASE Return(r, "throw") /\ UNCHANGED <<kids, trs, raced>>
    BY <1>1, <1>2, <1>3, <2>2, ReturnMoves, TransportsSame DEF ControlStep
  <2>3. CASE ~IsConnected(req[r].t) /\ SpawnChild(r) /\ ~(Return(r, "throw") /\ UNCHANGED <<kids, trs, raced>>)
    <3>1. PICK k \in Kids : req' = [req EXCEPT ![r].at = "c_spawn", ![r].kid = k, ![r].wait = TRUE, ![r].res = None]
      BY <2>3 DEF SpawnChild
    <3>2. req'[r].at = "c_spawn" /\ req'[r].wait
      BY <1>2, <3>1 DEF ServerInv, ServerTypes, Request
    <3> QED
      BY <1>1, <1>4, <2>3, <3>2 DEF Waits, Busy, StdioConnect
  <2> QED
    BY <1>4, <2>1, <2>2, <2>3 DEF StdioConnect
<1>5. CASE HttpConnect(r)
  BY <1>1, <1>2, <1>3, <1>5, AwaitMoves, TransportsSame DEF HttpConnect, ControlStep
<1>6. CASE GrpcConnect(r)
  BY <1>1, <1>2, <1>3, <1>6, ReturnMoves, TransportMarked DEF GrpcConnect, Kind, ControlStep
<1>7. CASE MeshConnect(r)
  <2>1. Moves(r)
    BY <1>2, <1>3, <1>7, AwaitMoves, ReturnMoves DEF MeshConnect
  <2> QED
    BY <1>1, <1>2, <1>7, <2>1, TransportsSame DEF MeshConnect, ControlStep
<1> QED
  BY <1>4, <1>5, <1>6, <1>7 DEF Connect

(* A request that is put to a subprocess: it is held, or the subprocess    *)
(* was gone before its timer.                                              *)
LEMMA SendKeeps ==
  ASSUME ServerInv, NEW r \in Requests, Runs(r), Ready(r), req[r].at \in Within, Kind(r) = "stdio",
         NEW at \in {"c_init", "l_rpc", "k_rpc"}, SendJsonRpc(r, at),
         UNCHANGED <<active, report, trs, label, raced, mixed>>
  PROVE  ServerInv'
<1> DEFINE t == req[r].t
           k == trs[t].child
           id == <<r, req[r].n + 1>>
<1>1. /\ req[r] \in Request /\ Stacked(req[r]) /\ Sound(r, req[r], trs, turn)
      /\ t \in Transports /\ trs[t].kind = "stdio" /\ Ready(r) /\ turn \in {None, r} /\ at \in Within
      /\ Busy(r) /\ req[r].op # None
  BY RequestIs DEF Sound, Runs, Ready, Busy, Kind, Within
<1>2. TransportsStay
  BY TransportsSame
<1>3. ServerTypes
  BY DEF ServerInv
<1>4. CASE k # 0 /\ trs[t].connected
  <2> DEFINE q == [req[r] EXCEPT !.at = at, !.n = @ + 1, !.wait = TRUE, !.res = None, !.kid = 0]
  <2>1. /\ req' = [req EXCEPT ![r] = q] /\ turn' = None
        /\ pending' = [pending EXCEPT ![t] = @ \cup {id}]
        /\ kids' = [kids EXCEPT ![k].owed = IF kids[k].st = "up" THEN @ \cup {id} ELSE @]
    BY <1>3, <1>4 DEF SendJsonRpc, ServerTypes
  <2>2. q \in Request
    <3>1. at \in Labels /\ req[r].n + 1 \in Nat /\ 0 \in Kids \cup {0} /\ None \in Results
      BY <1>1, LabelsAre DEF Request, Results
    <3> QED
      BY <1>1, <3>1 DEF Request
  <2>3. /\ q.op = req[r].op /\ q.at = at /\ q.t = t /\ q.made = req[r].made /\ q.wait
        /\ q.ret = req[r].ret /\ q.n = req[r].n + 1
    BY <1>1 DEF Request
  <2> HIDE DEF q
  <2>4. Stacked(q) /\ Frames(q) \subseteq {at} \cup Frames(req[r])
    BY <1>1, <2>2, <2>3, StackStays
  <2>5. Follows(r, q)
    <3>1. at \notin Handlers \cup {"idle", "done"}
      BY LabelsAre, <1>1
    <3>2. "h_rep" \in Frames(q) => "h_rep" \in Frames(req[r])
      BY <2>4, <3>1 DEF Handlers
    <3>3. Elsewhere \cap Frames(q) \subseteq Elsewhere \cap Frames(req[r])
      BY <2>4, <3>1, LabelsAre
    <3> QED
      BY <1>1, <2>3, <2>4, <3>1, <3>2, <3>3 DEF Follows, Sound
  <2>6. GoesTo(r, q)
    BY <2>1, <2>3, <2>5 DEF GoesTo
  <2>7. k \in Kids /\ kids[k].of = t /\ kids[k] \in Kid /\ id \in Ids
    <3>1. k \in Kids /\ kids[k].of = t
      BY <1>1, <1>4, ChildIs
    <3>2. req[r].n + 1 \in Nat
      BY <1>1 DEF Request
    <3> QED
      BY <1>3, <3>1, <3>2 DEF ServerTypes, Ids
  <2>8. KidsStay /\ \A j \in Kids : j # k => kids'[j] = kids[j]
    <3> DEFINE x == [kids[k] EXCEPT !.owed = IF kids[k].st = "up" THEN @ \cup {id} ELSE @]
    <3>1. /\ x \in Kid /\ x.of = kids[k].of /\ x.st = kids[k].st
          /\ x.killed = kids[k].killed /\ x.early = kids[k].early /\ x.lost = kids[k].lost
      BY <2>7 DEF Kid
    <3>2. kids' = [kids EXCEPT ![k] = x]
      BY <2>1
    <3> HIDE DEF x
    <3> QED
      BY <1>3, <2>7, <3>1, <3>2 DEF KidsStay, ServerTypes
  <2>9. pending' \in [Transports -> SUBSET Ids] /\ pending'[t] = pending[t] \cup {id}
        /\ \A u \in Transports : pending[u] \subseteq pending'[u] /\ pending'[u] \subseteq pending[u] \cup {id}
    BY <1>1, <1>3, <2>1, <2>7 DEF ServerTypes
  <2>10. /\ ServerTypes' /\ RequestsInv' /\ TransportsInv' /\ KidsInv' /\ TimersInv'
         /\ NoChildLeftBehind' /\ Parted' /\ OnTarget' /\ req'[r] = q
    BY <1>2, <2>2, <2>6, <2>8, <2>9, CodeKeeps
  <2>11. kids'[k].owed = IF kids[k].st = "up" THEN kids[k].owed \cup {id} ELSE kids[k].owed
    BY <1>3, <2>1, <2>7 DEF ServerTypes, Kid
  <2>12. WaitsAreHeld'
    <3> SUFFICES ASSUME NEW s \in Requests, Asks(s)' PROVE (Held(s) \/ Abandoned(s))'
      BY DEF WaitsAreHeld
    <3>1. CASE s = r
      <4>1. Id(s)' = id /\ req'[s].t = t
        BY <2>3, <2>10, <3>1 DEF Id
      <4>2. CASE kids[k].st = "up"
        <5>1. kids'[k].of = t /\ kids'[k].st = "up" /\ id \in kids'[k].owed /\ id \in pending'[t]
          BY <2>7, <2>8, <2>9, <2>11, <4>2 DEF KidsStay
        <5> QED
          BY <2>7, <4>1, <5>1 DEF Held
      <4>3. CASE kids[k].st # "up"
        <5>1. kids[k].st = "gone"
          BY <1>1, <1>4, <2>7, <4>3, ChildIs DEF Kid
        <5>2. PICK j \in Kids : kids[j].of = t /\ Early(j)
          BY <1>1, <1>4, <5>1 DEF ServerInv, TimersInv, Told
        <5>3. kids'[j].of = t /\ kids'[j].st = "gone" /\ kids'[j].early
          BY <2>8, <5>2 DEF KidsStay, Early
        <5> QED
          BY <4>1, <5>3 DEF Abandoned
      <4> QED
        BY <4>2, <4>3
    <3>2. CASE s # r
      <4>1. req'[s] = req[s]
        BY <1>3, <2>1, <3>2 DEF ServerTypes
      <4>2. Busy(s) /\ req[s].t \in Transports /\ Asks(s)
        BY <4>1, RequestIs DEF Asks, Busy, Kind
      <4>3. Id(s)' = Id(s) /\ Id(s) # id
        BY <3>2, <4>1 DEF Id
      <4>4. Held(s) \/ Abandoned(s)
        BY <4>2 DEF ServerInv, WaitsAreHeld
      <4>5. Id(s) \in pending'[req[s].t] <=> Id(s) \in pending[req[s].t]
        BY <2>9, <4>2, <4>3
      <4>6. \A j \in Kids : kids[j].owed \subseteq kids'[j].owed
        BY <2>8, <2>11
      <4>7. CASE Held(s)
        BY <2>8, <4>1, <4>3, <4>5, <4>6, <4>7 DEF Held, KidsStay
      <4>8. CASE Abandoned(s)
        BY <2>8, <4>1, <4>3, <4>5, <4>8 DEF Abandoned, KidsStay
      <4> QED
        BY <4>4, <4>7, <4>8
    <3> QED
      BY <3>1, <3>2
  <2>13. PendingInv'
    <3> SUFFICES ASSUME NEW u \in Transports, NEW d \in pending'[u]
                 PROVE  \E s \in Requests : (d = Id(s) /\ req[s].t = u /\ Asks(s))'
      BY DEF PendingInv
    <3>1. CASE d \in pending[u]
      <4>1. PICK s \in Requests : d = Id(s) /\ req[s].t = u /\ Asks(s)
        BY <3>1 DEF ServerInv, PendingInv
      <4>2. req'[s] = req[s]
        BY <1>1, <1>3, <2>1, <4>1 DEF ServerTypes, Ready, Asks
      <4> QED
        BY <4>1, <4>2 DEF Id, Asks, Busy, Kind
    <3>2. CASE d \notin pending[u]
      <4>1. u = t /\ d = id
        BY <1>1, <1>3, <2>1, <2>9, <3>2 DEF ServerTypes
      <4>2. Busy(r)' /\ req'[r].wait /\ Id(r)' = id /\ req'[r].t = t
        <5>1. at \notin {"idle", "done"}
          OBVIOUS
        <5> QED
          BY <2>3, <2>10, <5>1 DEF Id, Busy
      <4>3. req'[r].at = at /\ Kind(r)' = "stdio"
        BY <1>1, <2>3, <2>10 DEF Kind
      <4> QED
        BY <4>1, <4>2, <4>3 DEF Asks
    <3> QED
      BY <3>1, <3>2
  <2> QED
    BY <2>10, <2>12, <2>13 DEF ServerInv
<1>5. CASE ~(k # 0 /\ trs[t].connected)
  <2> DEFINE q == [req[r] EXCEPT !.at = at, !.res = "fail"]
  <2>1. /\ req' = [req EXCEPT ![r] = q] /\ turn' = r /\ UNCHANGED <<pending, kids>>
    BY <1>3, <1>5 DEF SendJsonRpc, ServerTypes
  <2>2. q \in Request
    BY <1>1, LabelsAre DEF Request, Results
  <2>3. /\ q.op = req[r].op /\ q.at = at /\ q.t = t /\ q.made = req[r].made /\ ~q.wait
        /\ q.ret = req[r].ret
    BY <1>1 DEF Request, Ready
  <2> HIDE DEF q
  <2>4. Stacked(q) /\ Frames(q) \subseteq {at} \cup Frames(req[r])
    BY <1>1, <2>2, <2>3, StackStays
  <2>5. Follows(r, q)
    <3>1. at \notin Handlers \cup {"idle", "done"}
      BY LabelsAre, <1>1
    <3>2. "h_rep" \in Frames(q) => "h_rep" \in Frames(req[r])
      BY <2>4, <3>1 DEF Handlers
    <3>3. Elsewhere \cap Frames(q) \subseteq Elsewhere \cap Frames(req[r])
      BY <2>4, <3>1, LabelsAre
    <3> QED
      BY <1>1, <2>3, <2>4, <3>1, <3>2, <3>3 DEF Follows, Sound
  <2>6. Moves(r)
    BY <2>1, <2>2, <2>3, <2>5 DEF Moves, GoesTo, AsksNobody
  <2>7. ControlStep(r)
    BY <1>2, <2>1, <2>6 DEF ControlStep
  <2> QED
    BY <2>7, ControlKeeps
<1> QED
  BY <1>4, <1>5

(* After a subprocess settled it is sent the initialize request.           *)
LEMMA SpawnedKeeps ==
  ASSUME ServerInv, NEW r \in Requests, Spawned(r)
  PROVE  ServerInv'
<1>1. Running(r, "c_spawn") /\ UNCHANGED <<active, report, trs, raced, mixed, label>>
  BY DEF Spawned
<1>2. /\ Runs(r) /\ Ready(r) /\ turn \in {None, r} /\ req[r].at = "c_spawn"
      /\ "c_spawn" \in Within /\ "throw" \in Results
  BY <1>1, RunsHere, LabelsAre DEF Within, Results
<1>3. CASE SendJsonRpc(r, "c_init")
  BY <1>1, <1>2, <1>3, SendKeeps, RequestIs DEF Sound, Kind
<1>4. CASE Return(r, "throw") /\ UNCHANGED <<pending, kids>>
  BY <1>1, <1>2, <1>4, ReturnMoves, TransportsSame, ControlKeeps DEF ControlStep
<1> QED
  BY <1>3, <1>4 DEF Spawned

(* listTools                                                               *)
LEMMA ListToolsKeeps ==
  ASSUME ServerInv, NEW r \in Requests, ListTools(r)
  PROVE  ServerInv'
<1>1. Running(r, "list") /\ UNCHANGED <<active, report, raced, mixed, label>>
  BY DEF ListTools
<1>2. /\ Runs(r) /\ Ready(r) /\ turn \in {None, r} /\ req[r].at = "list" /\ req[r].t \in Transports
  BY <1>1, RunsHere, LabelsAre DEF Within
<1>3. {"list", "l_rpc", "l_neg"} \subseteq Within /\ "ok" \in Results
  BY DEF Within, Results
<1>4. CASE StdioList(r)
  BY <1>1, <1>2, <1>3, <1>4, SendKeeps DEF StdioList
<1>5. CASE HttpList(r)
  BY <1>1, <1>2, <1>3, <1>5, AwaitMoves, TransportsSame, ControlKeeps DEF HttpList, ControlStep
<1>6. CASE GrpcList(r)
  BY <1>1, <1>2, <1>3, <1>6, AwaitMoves, TransportMarked, ControlKeeps DEF GrpcList, Kind, ControlStep
<1>7. CASE MeshList(r)
  BY <1>1, <1>2, <1>3, <1>7, ReturnMoves, TransportsSame, ControlKeeps DEF MeshList, ControlStep
<1> QED
  BY <1>4, <1>5, <1>6, <1>7 DEF ListTools

(* The listing is answered.                                                *)
LEMMA ListedIs ==
  ASSUME ServerInv, NEW r \in Requests, Listed(r) \/ Resolved(r)
  PROVE  ControlStep(r)
<1>1. {"l_rpc", "l_neg", "l_resolve"} \subseteq Within /\ {"ok", "throw", "empty"} \subseteq Results
  BY DEF Within, Results
<1>2. PICK at \in {"l_rpc", "l_neg", "l_resolve"} : Running(r, at)
  BY DEF Listed, Resolved
<1>3. /\ Runs(r) /\ Ready(r) /\ turn \in {None, r} /\ req[r].at \in Within /\ req[r].t \in Transports
      /\ UNCHANGED <<active, report, kids, pending, raced, mixed, label>>
  BY <1>1, <1>2, RunsHere, LabelsAre DEF Handlers, Listed, Resolved
<1>4. CASE StdioListed(r)
  BY <1>1, <1>3, <1>4, ReturnMoves, TransportsSame DEF StdioListed, ControlStep
<1>5. CASE HttpListed(r)
  <2>1. TransportsStay
    BY <1>3, <1>5, TransportConnected DEF HttpListed, Kind
  <2>2. Moves(r)
    BY <1>1, <1>3, <1>5, ReturnMoves DEF HttpListed
  <2> QED
    BY <1>3, <2>1, <2>2 DEF ControlStep
<1>6. CASE GrpcListed(r)
  <2>1. TransportsStay
    BY <1>3, <1>6, TransportConnected DEF GrpcListed, Kind
  <2>2. Moves(r)
    BY <1>1, <1>3, <1>6, ReturnMoves, AwaitMoves DEF GrpcListed
  <2> QED
    BY <1>3, <2>1, <2>2 DEF ControlStep
<1>7. CASE Resolved(r)
  BY <1>1, <1>3, <1>7, ReturnMoves, TransportsSame DEF Resolved, ControlStep
<1> QED
  BY <1>4, <1>5, <1>6, <1>7 DEF Listed

(* scan                                                                    *)
LEMMA ScanIs ==
  ASSUME ServerInv, NEW r \in Requests, Scan(r) \/ ScanConnects(r)
  PROVE  ControlStep(r)
<1>1. {"scan", "s_before", "s_neg", "list", "s_end", "connect", "s_list"} \subseteq Within
  BY DEF Within
<1>2. PICK at \in {"scan", "s_before"} : Running(r, at)
  BY DEF Scan, ScanConnects
<1>3. /\ Runs(r) /\ Ready(r) /\ turn \in {None, r} /\ req[r].at \in Within /\ req[r].t \in Transports
      /\ trs[req[r].t] \in Transport
      /\ UNCHANGED <<active, report, kids, pending, raced, mixed, label>>
  BY <1>1, <1>2, RunsHere, LabelsAre DEF Handlers, Scan, ScanConnects
<1>4. ListOrConnect(r) => Moves(r)
  BY <1>1, <1>3, CallMoves DEF ListOrConnect
<1>5. Await(r, "s_before") \/ Await(r, "s_neg") => Moves(r)
  BY <1>1, <1>3, AwaitMoves
<1>6. CASE StdioScan(r) \/ HttpScan(r)
  BY <1>3, <1>5, <1>6, TransportsSame DEF StdioScan, HttpScan, ControlStep
<1>7. CASE MeshScan(r)
  BY <1>3, <1>4, <1>7, TransportsSame DEF MeshScan, ControlStep
<1>8. CASE GrpcScan(r)
  <2>1. TransportsStay
    BY <1>3, <1>8, TransportMarked, TransportsSame DEF GrpcScan, Kind
  <2> QED
    BY <1>3, <1>5, <1>8, <2>1 DEF GrpcScan, ControlStep
<1>9. CASE ScanConnects(r)
  BY <1>3, <1>4, <1>9, TransportsSame DEF ScanConnects, ControlStep
<1> QED
  BY <1>6, <1>7, <1>8, <1>9 DEF Scan

(* A scan after its connect and after its listing.                         *)
LEMMA ScanAskedIs ==
  ASSUME ServerInv, NEW r \in Requests, ScanAsked(r)
  PROVE  ControlStep(r)
<1>1. {"s_list", "s_end", "s_neg", "s_online", "s_offline", "list"} \subseteq Within
  BY DEF Within
<1>2. PICK at \in {"s_list", "s_end", "s_neg"} : Running(r, at)
  BY DEF ScanAsked
<1>3. /\ Runs(r) /\ Ready(r) /\ turn \in {None, r} /\ req[r].at \in Within /\ req[r].t \in Transports
      /\ trs[req[r].t] \in Transport
      /\ UNCHANGED <<active, report, kids, pending, raced, mixed, label>>
  BY <1>1, <1>2, RunsHere, LabelsAre DEF Handlers, ScanAsked
<1>4. Await(r, "s_online") \/ Await(r, "s_offline") => Moves(r)
  BY <1>1, <1>3, AwaitMoves
<1>5. ScanGoesOn(r) => Moves(r)
  BY <1>1, <1>3, <1>4, CallMoves DEF ScanGoesOn
<1>6. CASE StdioScanned(r) \/ MeshScanned(r)
  BY <1>3, <1>4, <1>5, <1>6, TransportsSame DEF StdioScanned, MeshScanned, ControlStep
<1>7. CASE HttpScanned(r)
  <2>1. TransportsStay
    BY <1>3, <1>7, TransportConnected, TransportsSame DEF HttpScanned, Kind
  <2> QED
    BY <1>3, <1>4, <1>5, <1>7, <2>1 DEF HttpScanned, ControlStep
<1>8. CASE GrpcScanned(r)
  <2>1. trs' = [trs EXCEPT ![req[r].t].connected = trs[req[r].t].connected /\ req[r].res # "fail"]
    BY <1>3, <1>8 DEF GrpcScanned, ServerInv, ServerTypes, Transport
  <2>2. PICK b \in BOOLEAN : SetConnected(req[r].t, b)
    BY <1>3, <2>1 DEF Transport, SetConnected
  <2>3. TransportsStay
    BY <1>3, <1>8, <2>2, TransportConnected DEF GrpcScanned, Kind
  <2>4. Moves(r)
    BY <1>4, <1>8 DEF GrpcScanned
  <2> QED
    BY <1>3, <2>3, <2>4 DEF ControlStep
<1> QED
  BY <1>6, <1>7, <1>8 DEF ScanAsked

(* A scan is over.                                                         *)
LEMMA ScanEndsIs ==
  ASSUME ServerInv, NEW r \in Requests, ScanEnds(r)
  PROVE  ControlStep(r)
<1>1. {"s_online", "s_offline"} \subseteq Within /\ {"online", "offline"} \subseteq Results
  BY DEF Within, Results
<1>2. PICK at \in {"s_online", "s_offline"} : Running(r, at)
  BY DEF ScanEnds
<1>3. /\ Runs(r) /\ Ready(r) /\ turn \in {None, r} /\ req[r].at \in Within
  BY <1>1, <1>2, RunsHere, LabelsAre DEF Handlers
<1>4. Return(r, "online") \/ Return(r, "offline") => Moves(r)
  BY <1>1, <1>3, ReturnMoves
<1> QED
  BY <1>3, <1>4, TransportsSame DEF ScanEnds, ControlStep

(* callTool                                                                *)
LEMMA CallToolKeeps ==
  ASSUME ServerInv, NEW r \in Requests, CallTool(r)
  PROVE  ServerInv'
<1>1. Running(r, "call") /\ UNCHANGED <<active, report, raced, mixed, label>>
  BY DEF CallTool
<1>2. /\ Runs(r) /\ Ready(r) /\ turn \in {None, r} /\ req[r].at = "call" /\ req[r].t \in Transports
  BY <1>1, RunsHere, LabelsAre DEF Within
<1>3. {"call", "k_rpc", "k_neg", "k_mesh", "connect", "k_joined"} \subseteq Within
  BY DEF Within
<1>4. CASE StdioCall(r)
  BY <1>1, <1>2, <1>3, <1>4, SendKeeps DEF StdioCall
<1>5. CASE HttpCall(r)
  BY <1>1, <1>2, <1>3, <1>5, AwaitMoves, TransportsSame, ControlKeeps DEF HttpCall, ControlStep
<1>6. CASE GrpcCall(r)
  BY <1>1, <1>2, <1>3, <1>6, AwaitMoves, TransportMarked, ControlKeeps DEF GrpcCall, Kind, ControlStep
<1>7. CASE MeshCall(r)
  <2>1. Moves(r)
    BY <1>2, <1>3, <1>7, AwaitMoves, CallMoves DEF MeshCall
  <2> QED
    BY <1>1, <1>2, <1>7, <2>1, TransportsSame, ControlKeeps DEF MeshCall, ControlStep
<1> QED
  BY <1>4, <1>5, <1>6, <1>7 DEF CallTool

(* The call is negotiated, joined or answered.                             *)
LEMMA CalledIs ==
  ASSUME ServerInv, NEW r \in Requests, GrpcNegotiated(r) \/ MeshJoined(r) \/ Called(r)
  PROVE  ControlStep(r)
<1>1. /\ {"k_neg", "k_joined", "k_rpc", "k_stream", "k_mesh"} \subseteq Within
      /\ {"throw", "error"} \subseteq Results /\ Outcome(r) \in Results
  BY DEF Within, Results, Outcome
<1>2. PICK at \in {"k_neg", "k_joined", "k_rpc", "k_stream", "k_mesh"} : Running(r, at)
  BY DEF GrpcNegotiated, MeshJoined, Called, StdioCalled, HttpCalled, GrpcCalled, MeshCalled
<1>3. /\ Runs(r) /\ Ready(r) /\ turn \in {None, r} /\ req[r].at \in Within
      /\ UNCHANGED <<active, report, trs, kids, pending, raced, mixed, label>>
  BY <1>1, <1>2, RunsHere, LabelsAre DEF Handlers, GrpcNegotiated, MeshJoined, Called
<1>4. Return(r, "throw") \/ Return(r, "error") \/ Return(r, Outcome(r)) => Moves(r)
  BY <1>1, <1>3, ReturnMoves
<1>5. Await(r, "k_stream") \/ Await(r, "k_mesh") => Moves(r)
  BY <1>1, <1>3, AwaitMoves
<1>6. Moves(r)
  BY <1>4, <1>5 DEF GrpcNegotiated, MeshJoined, Called, StdioCalled, HttpCalled, GrpcCalled, MeshCalled
<1> QED
  BY <1>3, <1>6, TransportsSame DEF ControlStep

(* The handlers after their first await.                                   *)
LEMMA HandlerIs ==
  ASSUME ServerInv, NEW r \in Requests,
         ConnectScans(r) \/ ToolsAnswered(r) \/ ExecuteChecks(r) \/ ExecuteAnswers(r)
  PROVE  ControlStep(r)
<1>1. PICK at \in {"h_conn", "h_tools", "h_exec", "h_done"} : Running(r, at)
  BY DEF ConnectScans, ToolsAnswered, ExecuteChecks, ExecuteAnswers
<1>2. {"h_conn", "h_tools", "h_exec", "h_done"} \subseteq Handlers \ {"h_old"} /\ {"error", "result"} \subseteq Results
  BY DEF Handlers, Results
<1>3. /\ Runs(r) /\ Ready(r) /\ turn \in {None, r} /\ req[r].at = at /\ req[r].at \in Handlers \ {"h_old"}
      /\ UNCHANGED <<active, report, trs, kids, pending, raced, mixed, label>>
  BY <1>1, <1>2, RunsHere, LabelsAre DEF ConnectScans, ToolsAnswered, ExecuteChecks, ExecuteAnswers
<1>4. req[r].op # None /\ (at # "h_conn" => req[r].op # "connect")
  <2>1. Sound(r, req[r], trs, turn) /\ at \in Frames(req[r])
    BY <1>3, RequestIs DEF Frames
  <2> QED
    BY <1>3, <2>1 DEF Sound, Elsewhere, Ready, Busy
<1>5. Reply(r, "error") \/ Reply(r, "result") => (at # "h_conn" => Moves(r))
  BY <1>2, <1>4, ReplyMoves
<1>6. CallOn(r, active, "scan", "h_rep") => Moves(r)
  BY <1>3, CallActiveMoves
<1>7. CallOn(r, active, "call", "h_done") => (at # "h_conn" => Moves(r))
  BY <1>3, <1>4, CallActiveMoves
<1>8. Moves(r)
  <2>1. CASE ConnectScans(r)
    BY <1>6, <2>1 DEF ConnectScans
  <2>2. CASE ToolsAnswered(r)
    BY <1>3, <1>5, <2>2 DEF ToolsAnswered, Running
  <2>3. CASE ExecuteChecks(r)
    BY <1>3, <1>5, <1>7, <2>3 DEF ExecuteChecks, Running
  <2>4. CASE ExecuteAnswers(r)
    BY <1>3, <1>5, <2>4 DEF ExecuteAnswers, Running
  <2> QED
    BY <2>1, <2>2, <2>3, <2>4
<1> QED
  BY <1>3, <1>8, TransportsSame DEF ControlStep

(* The arrival of a request that is not a connect.                         *)
LEMMA ArrivalIs ==
  ASSUME ServerInv, NEW r \in Requests, NEW op \in {"scan", "health", "tools", "execute"},
         ApiScan(r, op) \/ ApiTools(r, op)
  PROVE  ControlStep(r)
<1>1. /\ turn = None /\ req[r].op = None
      /\ UNCHANGED <<active, report, trs, kids, pending, raced, mixed, label>>
  BY DEF ApiScan, ApiTools, Arrives, Event
<1>2. req[r] \in Request /\ Stacked(req[r]) /\ req[r].at = "idle" /\ ~req[r].wait
  BY <1>1, RequestIs DEF Sound
<1>3. Runs(r)
  BY <1>1, <1>2 DEF Runs
<1>4. req[r].ret = <<>> /\ Frames(req[r]) = {"idle"}
  <2>1. "idle" \notin Within
    BY LabelsAre
  <2>2. req[r].ret = <<>>
    BY <1>2, <2>1 DEF Stacked
  <2>3. req[r] = req[r] /\ req[r].at \notin Within
    BY <1>2, <2>1
  <2> QED
    BY <1>2, <2>2, <2>3, StackEmpty
<1>5. active \in Transports /\ op # None /\ op # "connect" /\ turn' \in {None, r}
  BY <1>1 DEF ServerInv, ServerTypes, None, ApiScan, ApiTools
<1>6. ASSUME NEW m \in {"scan", "list"}, NEW back \in {"h_rep", "h_tools", "h_exec"}, turn' = r,
             req' = [req EXCEPT ![r].op = op, ![r].t = active, ![r].at = m, ![r].ret = <<back>>]
      PROVE  Moves(r)
  <2> DEFINE q == [req[r] EXCEPT !.op = op, !.t = active, !.at = m, !.ret = <<back>>]
  <2>1. m \in Within /\ m \in Labels /\ back \in Handlers /\ back \in Labels /\ <<back>> \in Seq(Labels)
    BY LabelsAre DEF Within, Handlers
  <2>2. q \in Request
    BY <1>2, <1>5, <2>1 DEF Request
  <2>3. /\ q.op = op /\ q.at = m /\ q.t = active /\ q.wait = req[r].wait
        /\ q.ret = <<back>> \o req[r].ret
    BY <1>2, <1>4, <2>1 DEF Request
  <2>4. req' = [req EXCEPT ![r] = q]
    BY <1>6 DEF ServerInv, ServerTypes
  <2> HIDE DEF q
  <2>5. Stacked(q) /\ Frames(q) \subseteq {m, back} \cup Frames(req[r])
    <3>1. back \notin Within /\ req[r].at \notin Within
      BY <1>2, <2>1, LabelsAre
    <3>2. back \notin {"h_old", "idle", "done", "c_dial", "c_spawn"}
      OBVIOUS
    <3> QED
      BY <1>2, <2>1, <2>2, <2>3, <3>1, <3>2, StackPush
  <2>6. Follows(r, q)
    BY <1>1, <1>2, <1>5, <2>1, <2>3, <2>5 DEF Follows
  <2> QED
    BY <1>2, <1>6, <2>2, <2>3, <2>4, <2>6 DEF Moves, GoesTo, AsksNobody
<1>7. ASSUME UNCHANGED turn, req' = [req EXCEPT ![r].op = op, ![r].at = "done"]
      PROVE  Moves(r)
  <2> DEFINE q == [req[r] EXCEPT !.op = op, !.at = "done"]
  <2>1. q \in Request
    <3>1. "done" \in Labels
      BY LabelsAre
    <3> QED
      BY <1>2, <3>1 DEF Request
  <2>2. q.op = op /\ q.at = "done" /\ q.ret = <<>> /\ ~q.wait
    BY <1>2, <1>4 DEF Request
  <2>3. req' = [req EXCEPT ![r] = q]
    BY <1>7 DEF ServerInv, ServerTypes
  <2> HIDE DEF q
  <2>4. Stacked(q) /\ Frames(q) = {"done"}
    BY <2>1, <2>2, StackEmpty, LabelsAre
  <2>5. Follows(r, q)
    BY <1>1, <1>5, <2>2, <2>4 DEF Follows
  <2> QED
    BY <1>1, <1>7, <2>1, <2>2, <2>3, <2>5 DEF Moves, GoesTo, AsksNobody
<1>8. Moves(r)
  <2>1. CASE ApiScan(r, op)
    BY <1>6, <1>7, <2>1 DEF ApiScan
  <2>2. CASE ApiTools(r, op)
    BY <1>6, <2>2 DEF ApiTools
  <2> QED
    BY <2>1, <2>2
<1> QED
  BY <1>1, <1>3, <1>8, TransportsSame DEF ControlStep

(* The connects, and those that have closed the old transport, are finite. *)
LEMMA SwitchersAre ==
  ASSUME ServerInv
  PROVE  /\ Connects \subseteq Requests /\ Switchers \subseteq Connects
         /\ IsFiniteSet(Connects) /\ IsFiniteSet(Switchers)
         /\ Cardinality(Connects) \in Nat /\ Cardinality(Switchers) \in Nat
<1>1. Connects \subseteq Requests /\ Switchers \subseteq Connects
  BY DEF Connects, Switchers
<1>2. IsFiniteSet(Connects) /\ IsFiniteSet(Switchers)
  BY <1>1, ConstantsAre, FS_Subset
<1> QED
  BY <1>1, <1>2, FS_CardinalityType

(* A request is answered.                                                  *)
LEMMA AnswerKeeps ==
  ASSUME ServerInv, NEW r \in Requests, Ready(r), turn \in {None, r}, NEW res \in Results, Reply(r, res),
         UNCHANGED <<active, trs, kids, pending, raced, mixed>>
  PROVE  /\ ServerTypes' /\ RequestsInv' /\ TransportsInv' /\ KidsInv' /\ TimersInv'
         /\ PendingInv' /\ WaitsAreHeld' /\ NoChildLeftBehind' /\ Parted'
         /\ Frames(req'[r]) = {"done"} /\ ~Busy(r)' /\ \A s \in Requests : s # r => req'[s] = req[s]
         /\ Switchers' \subseteq Switchers \cup {r} /\ Switchers \subseteq Switchers'
<1> DEFINE q == [Idle EXCEPT !.op = req[r].op, !.at = "done", !.res = res]
<1>1. /\ req[r] \in Request /\ Sound(r, req[r], trs, turn) /\ Busy(r) /\ req[r].op # None /\ ~req[r].wait
  BY RequestIs DEF Sound, Ready, Busy
<1>2. q \in Request /\ q.op = req[r].op /\ q.at = "done" /\ q.ret = <<>> /\ ~q.wait
  <2>1. Idle \in Request /\ Idle.ret = <<>> /\ ~Idle.wait
    BY ConstantsAre, LabelsAre DEF Idle, Request, Results, None
  <2>2. req[r].op \in {None, "connect", "scan", "health", "tools", "execute"} /\ "done" \in Labels
    BY <1>1, LabelsAre DEF Request
  <2> HIDE DEF Idle
  <2> QED
    BY <2>1, <2>2 DEF Request
<1>3. req' = [req EXCEPT ![r] = q] /\ turn' = None
  BY DEF Reply
<1> HIDE DEF q
<1>4. /\ req \in [Requests -> Request] /\ req' \in [Requests -> Request] /\ req'[r] = q
      /\ \A s \in Requests : s # r => req'[s] = req[s]
  BY <1>2, <1>3 DEF ServerInv, ServerTypes
<1>5. Stacked(q) /\ Frames(q) = {"done"}
  BY <1>2, StackEmpty, LabelsAre
<1>6. ServerTypes'
  BY <1>4 DEF ServerInv, ServerTypes
<1>7. RequestsInv'
  <2>1. Sound(r, q, trs', turn')
    <3>1. None # r /\ "done" \notin Handlers
      BY ConstantsAre, LabelsAre
    <3> QED
      BY <1>1, <1>2, <1>3, <1>5, <3>1 DEF Sound, Elsewhere
  <2>2. ASSUME NEW s \in Requests, s # r PROVE Sound(s, req[s], trs', turn')
    <3>1. turn' \in {None, r} /\ \A t \in Transports : trs[t].kind # None => trs'[t].kind = trs[t].kind
      BY <1>3
    <3> QED
      BY <2>2, <3>1, OthersAreSound
  <2>3. ASSUME NEW s \in Requests PROVE Sound(s, req'[s], trs', turn')
    BY <1>4, <2>1, <2>2
  <2> QED
    BY <2>3 DEF RequestsInv
<1>8. Connects' = Connects /\ Switchers' \subseteq Switchers \cup {r} /\ Switchers \subseteq Switchers'
  BY <1>2, <1>4 DEF Connects, Switchers
<1>9. TransportsInv'
  <2>1. Cardinality(Switchers) <= Cardinality(Switchers') /\ Cardinality(Switchers') \in Nat /\ Cardinality(Switchers) \in Nat
    <3>1. IsFiniteSet(Switchers')
      BY <1>8, SwitchersAre, FS_Subset DEF Switchers
    <3> QED
      BY <1>8, <3>1, SwitchersAre, FS_Subset, FS_CardinalityType
  <2>2. active \in Nat /\ active <= Cardinality(Switchers) + 1
    BY ConstantsAre DEF ServerInv, ServerTypes, TransportsInv
  <2>3. active <= Cardinality(Switchers') + 1
    BY <2>1, <2>2
  <2> QED
    BY <1>8, <2>3 DEF ServerInv, TransportsInv
<1>10. KidsInv'
  BY DEF ServerInv, KidsInv
<1>11. TimersInv'
  <2>1. \A s \in Requests : Waits(s, "c_spawn")' <=> Waits(s, "c_spawn")
    BY <1>1, <1>2, <1>4 DEF Waits, Busy
  <2>2. \A s \in Requests : Waits(s, "c_spawn") => req'[s] = req[s]
    BY <1>1, <1>4 DEF Waits
  <2>3. \A s \in Requests, k \in Kids : Spawning(s, k)' <=> Spawning(s, k)
    BY <2>1, <2>2 DEF Spawning
  <2>4. Timely'
    BY <2>1, <2>2, <2>3 DEF ServerInv, TimersInv, Timely, Early, Spawning
  <2> QED
    BY <2>1, <2>2, <2>4 DEF ServerInv, TimersInv, Told, Early
<1>12. WaitsAreHeld'
  <2> SUFFICES ASSUME NEW s \in Requests, Asks(s)' PROVE (Held(s) \/ Abandoned(s))'
    BY DEF WaitsAreHeld
  <2>1. s # r /\ req'[s] = req[s]
    BY <1>2, <1>4 DEF Asks
  <2> QED
    BY <2>1 DEF ServerInv, WaitsAreHeld, Asks, Busy, Kind, Held, Abandoned, Id
<1>13. NoChildLeftBehind' /\ Parted'
  BY <1>2, <1>4 DEF ServerInv, NoChildLeftBehind, Parted
<1>14. PendingInv'
  <2> SUFFICES ASSUME NEW t \in Transports, NEW id \in pending[t]
               PROVE  \E s \in Requests : (id = Id(s) /\ req[s].t = t /\ Asks(s))'
    BY DEF PendingInv
  <2>1. PICK s \in Requests : id = Id(s) /\ req[s].t = t /\ Asks(s)
    BY DEF ServerInv, PendingInv
  <2>2. req'[s] = req[s]
    BY <1>1, <1>4, <2>1 DEF Asks
  <2> QED
    BY <2>1, <2>2 DEF Id, Asks, Busy, Kind
<1>15. ~Busy(r)'
  BY <1>2, <1>4 DEF Busy
<1> QED
  BY <1>4, <1>5, <1>6, <1>7, <1>8, <1>9, <1>10, <1>11, <1>12, <1>13, <1>14, <1>15

(* A report is of the transport that its request scanned: the active one.  *)
LEMMA ReportStoredKeeps ==
  ASSUME ServerInv, NEW r \in Requests, ReportStored(r)
  PROVE  ServerInv'
<1>1. Running(r, "h_rep") /\ Reply(r, req[r].res) /\ UNCHANGED <<active, trs, kids, pending, raced, mixed>>
  BY DEF ReportStored
<1>2. /\ Ready(r) /\ turn \in {None, r} /\ req[r].at = "h_rep" /\ req[r].res \in Results
      /\ Busy(r)
  <2>1. "h_rep" \in Labels \ {"h_old"}
    BY LabelsAre DEF Handlers
  <2> QED
    BY <1>1, <2>1, RunsHere, ConstantsAre DEF Request, Ready
<1>3. report' = [of |-> req[r].t, online |-> req[r].res = "online"]
  BY DEF ReportStored
<1>5. /\ ServerTypes' /\ RequestsInv' /\ TransportsInv' /\ KidsInv' /\ TimersInv'
      /\ PendingInv' /\ WaitsAreHeld' /\ NoChildLeftBehind' /\ Parted'
      /\ Frames(req'[r]) = {"done"} /\ ~Busy(r)' /\ \A s \in Requests : s # r => req'[s] = req[s]
      /\ Switchers' \subseteq Switchers \cup {r} /\ Switchers \subseteq Switchers'
  BY <1>1, <1>2, AnswerKeeps
<1>6. OnTarget'
  <2> SUFFICES ASSUME ~mixed PROVE OnTarget'
    BY <1>1 DEF OnTarget
  <2>1. /\ \A s \in Requests : "h_rep" \in Frames(req[s]) => req[s].t = active
        /\ \A s \in Switchers : Busy(s) => req[s].made = active
        /\ (report.of \in {0, active} /\ label \in {0, active}) \/ \E s \in Switchers : Busy(s)
    BY DEF ServerInv, OnTarget
  <2>2. req[r].t = active
    BY <1>2, <2>1 DEF Frames
  <2>3. \A s \in Requests : s # r => (Busy(s)' <=> Busy(s))
    BY <1>5 DEF Busy
  <2>4. Switchers \subseteq Requests
    BY SwitchersAre
  <2>5. \A s \in Requests : "h_rep" \in Frames(req'[s]) => req'[s].t = active
    BY <1>5, <2>1
  <2>6. \A s \in Switchers' : Busy(s)' => req'[s].made = active
    BY <1>5, <2>1, <2>3, <2>4
  <2>7. (report'.of \in {0, active} /\ label' \in {0, active}) \/ \E s \in Switchers' : Busy(s)'
    <3>1. CASE req[r].op = "connect"
      <4>1. r \in Switchers /\ label' \in {req[r].made, 0}
        BY <1>2, <3>1 DEF Switchers, Connects, ReportStored
      <4> QED
        BY <1>2, <1>3, <2>1, <2>2, <4>1
    <3>2. CASE req[r].op # "connect"
      <4>1. r \notin Switchers /\ label' = label
        BY <3>2 DEF Switchers, Connects, ReportStored
      <4> QED
        BY <1>3, <1>5, <2>1, <2>2, <2>3, <2>4, <4>1
    <3> QED
      BY <3>1, <3>2
  <2> QED
    BY <1>1, <2>5, <2>6, <2>7 DEF OnTarget
<1> QED
  BY <1>5, <1>6 DEF ServerInv

(* The factory refuses: the old transport stays, closed.                   *)
LEMMA SwitchRefused ==
  ASSUME ServerInv, NEW r \in Requests, Running(r, "h_old"), Reply(r, "error"),
         UNCHANGED <<active, report, trs, kids, pending, raced, mixed, label>>
  PROVE  ServerInv'
<1>1. Ready(r) /\ turn \in {None, r} /\ req[r].at = "h_old" /\ "error" \in Results
  BY DEF Running, Results
<1>2. /\ ServerTypes' /\ RequestsInv' /\ TransportsInv' /\ KidsInv' /\ TimersInv'
      /\ PendingInv' /\ WaitsAreHeld' /\ NoChildLeftBehind' /\ Parted'
      /\ Frames(req'[r]) = {"done"} /\ ~Busy(r)' /\ \A s \in Requests : s # r => req'[s] = req[s]
      /\ Switchers' \subseteq Switchers \cup {r} /\ Switchers \subseteq Switchers'
  BY <1>1, AnswerKeeps
<1>3. OnTarget'
  <2> SUFFICES ASSUME ~mixed PROVE OnTarget'
    BY DEF OnTarget
  <2>1. /\ \A s \in Requests : "h_rep" \in Frames(req[s]) => req[s].t = active
        /\ \A s \in Switchers : Busy(s) => req[s].made = active
        /\ (report.of \in {0, active} /\ label \in {0, active}) \/ \E s \in Switchers : Busy(s)
    BY DEF ServerInv, OnTarget
  <2>2. \A s \in Requests : s # r => (Busy(s)' <=> Busy(s))
    BY <1>2 DEF Busy
  <2>3. Switchers \subseteq Requests /\ r \notin Switchers
    BY <1>1, SwitchersAre DEF Switchers
  <2>4. \A s \in Requests : "h_rep" \in Frames(req'[s]) => req'[s].t = active
    BY <1>2, <2>1
  <2>5. \A s \in Switchers' : Busy(s)' => req'[s].made = active
    BY <1>2, <2>1, <2>2, <2>3
  <2>6. (report.of \in {0, active} /\ label \in {0, active}) \/ \E s \in Switchers' : Busy(s)'
    BY <1>2, <2>1, <2>2, <2>3
  <2> QED
    BY <2>4, <2>5, <2>6 DEF OnTarget
<1> QED
  BY <1>2, <1>3 DEF ServerInv

(* The transport that a switch makes: the next one, of which there is a    *)
(* kind, and that nothing refers to.                                       *)
LEMMA NextTransport ==
  ASSUME ServerInv, NEW r \in Requests, req[r].at = "h_old"
  PROVE  /\ Cardinality({u \in Transports : trs[u].kind # None}) + 1 = active + 1
         /\ active + 1 \in Transports /\ active \in Transports
         /\ trs[active + 1].kind = None /\ trs[active + 1].child = 0
         /\ \A k \in Kids : kids[k].of # active + 1
         /\ \A s \in Requests : Busy(s) => req[s].t # active + 1
         /\ \A k \in Kids : kids[k].of \in Transports \cup {0}
         /\ Cardinality(Switchers \cup {r}) = Cardinality(Switchers) + 1
         /\ (Switchers \cup {r}) \subseteq Connects
         /\ active <= Cardinality(Switchers) + 1 /\ Cardinality(Switchers) \in Nat
<1>1. active \in Transports /\ active \in Nat /\ active > 0
  BY ConstantsAre DEF ServerInv, ServerTypes
<1>2. \A u \in Transports : trs[u].kind # None <=> u <= active
  BY DEF ServerInv, TransportsInv
<1>3. {u \in Transports : trs[u].kind # None} = 1 .. active
  <2>1. Transports = 1 .. Len(Kinds) /\ Len(Kinds) \in Nat
    BY ConstantsAre
  <2> QED
    BY <1>1, <1>2, <2>1
<1>4. Cardinality(1 .. active) = active
  BY <1>1, FS_Interval
<1>5. /\ r \in Connects /\ r \notin Switchers
  BY RequestIs DEF Sound, Connects, Switchers
<1>6. /\ Cardinality(Switchers \cup {r}) = Cardinality(Switchers) + 1
      /\ Switchers \cup {r} \subseteq Connects
  BY <1>5, SwitchersAre, FS_AddElement
<1>7. Cardinality(Switchers \cup {r}) <= Cardinality(Connects) /\ Cardinality(Connects) \in Nat /\ Cardinality(Switchers) \in Nat
  BY <1>6, SwitchersAre, FS_Subset
<1>8. active <= Cardinality(Switchers) + 1 /\ Cardinality(Connects) <= Len(Kinds) - 1
  BY DEF ServerInv, TransportsInv
<1>9. active + 1 \in Transports
  <2>1. active + 1 <= Len(Kinds) /\ active + 1 \in Nat /\ active + 1 > 0
    BY <1>1, <1>6, <1>7, <1>8, ConstantsAre
  <2> QED
    BY <2>1, ConstantsAre
<1>10. trs[active + 1].kind = None
  <2>1. ~(active + 1 <= active)
    BY <1>1
  <2> QED
    BY <1>2, <1>9, <2>1
<1>11. trs[active + 1].child = 0
  <2>1. None # "stdio"
    BY DEF None
  <2> QED
    BY <1>9, <1>10, <2>1, ChildIs
<1>12. \A k \in Kids : kids[k].of \in Transports \cup {0} /\ kids[k].of # active + 1
  <2> SUFFICES ASSUME NEW k \in Kids PROVE kids[k].of \in Transports \cup {0} /\ kids[k].of # active + 1
    OBVIOUS
  <2>1. kids[k].of \in Transports \cup {0}
    BY DEF ServerInv, ServerTypes, Kid
  <2>2. kids[k].of # 0 => trs[kids[k].of].kind = "stdio"
    BY DEF ServerInv, KidsInv
  <2> QED
    BY <1>9, <1>10, <2>1, <2>2, ConstantsAre DEF None
<1>13. \A s \in Requests : Busy(s) => req[s].t # active + 1
  BY <1>10, RequestIs
<1> QED
  BY <1>1, <1>3, <1>4, <1>6, <1>7, <1>8, <1>9, <1>10, <1>11, <1>12, <1>13

(* A switch makes the next transport and the active one of it.             *)
LEMMA SwitchKeeps ==
  ASSUME ServerInv, NEW r \in Requests, SwitchTarget(r)
  PROVE  ServerInv'
<1> DEFINE t == active + 1
<1>1. /\ Running(r, "h_old") /\ UNCHANGED <<report, kids, pending, label>>
  BY DEF SwitchTarget
<1>2. /\ req[r] \in Request /\ Sound(r, req[r], trs, turn) /\ req[r].at = "h_old" /\ ~req[r].wait
      /\ turn \in {None, r} /\ Busy(r) /\ req[r].op = "connect"
  BY <1>1, RequestIs DEF Running, Ready, Sound
<1>3. CASE Reply(r, "error") /\ UNCHANGED <<trs, active, raced, mixed>>
  BY <1>1, <1>3, SwitchRefused
<1>4. CASE ~(Reply(r, "error") /\ UNCHANGED <<trs, active, raced, mixed>>)
  <2>1. /\ t \in Transports /\ active \in Transports
        /\ trs[t].kind = None /\ trs[t].child = 0
        /\ \A k \in Kids : kids[k].of # t
        /\ \A s \in Requests : Busy(s) => req[s].t # t
        /\ \A k \in Kids : kids[k].of \in Transports \cup {0}
        /\ Cardinality(Switchers \cup {r}) = Cardinality(Switchers) + 1
        /\ (Switchers \cup {r}) \subseteq Connects
        /\ active <= Cardinality(Switchers) + 1 /\ Cardinality(Switchers) \in Nat
        /\ Cardinality({u \in Transports : trs[u].kind # None}) + 1 = t
    BY <1>2, NextTransport
  <2>2. PICK kind \in Kinds[t] :
           /\ trs' = [trs EXCEPT ![t] = [Unused EXCEPT !.kind = kind]]
           /\ active' = t
           /\ raced' = (raced \/ active # req[r].t)
           /\ mixed' = (mixed \/ \E s \in Requests \ {r} :
                                 Scanning(s) \/ (Busy(s) /\ req[s].op = "connect"))
           /\ req' = [req EXCEPT ![r].t = t, ![r].made = t, ![r].at = "connect",
                                 ![r].ret = <<"h_conn">>, ![r].res = None]
           /\ turn' = r
    BY <1>4, <2>1 DEF SwitchTarget
  <2>3. kind \in KindNames /\ kind # None
    BY <2>1, ConstantsAre DEF KindNames, None
  <2> DEFINE x == [Unused EXCEPT !.kind = kind]
             q == [req[r] EXCEPT !.t = t, !.made = t, !.at = "connect", !.ret = <<"h_conn">>, !.res = None]
  <2>4. x \in Transport /\ x.kind = kind /\ x.child = 0 /\ ~x.connected
    BY <2>3 DEF Unused, Transport
  <2>5. "connect" \in Within /\ "h_conn" \in Handlers /\ "connect" \in Labels /\ "h_conn" \in Labels
    BY LabelsAre DEF Within, Handlers
  <2>6. q \in Request
    <3>1. <<"h_conn">> \in Seq(Labels) /\ None \in Results
      BY <2>5 DEF Results
    <3> QED
      BY <1>2, <2>1, <2>5, <3>1 DEF Request
  <2>7. /\ q.op = "connect" /\ q.at = "connect" /\ q.t = t /\ q.made = t /\ ~q.wait /\ q.ret = <<"h_conn">>
    BY <1>2 DEF Request
  <2>8. req' = [req EXCEPT ![r] = q] /\ trs' = [trs EXCEPT ![t] = x]
    BY <2>2 DEF ServerInv, ServerTypes
  <2> HIDE DEF q, x
  <2>9. /\ req' \in [Requests -> Request] /\ req'[r] = q /\ \A s \in Requests : s # r => req'[s] = req[s]
        /\ trs' \in [Transports -> Transport] /\ trs'[t] = x /\ \A u \in Transports : u # t => trs'[u] = trs[u]
    BY <2>1, <2>4, <2>6, <2>8 DEF ServerInv, ServerTypes
  <2>10. ServerTypes'
    BY <1>1, <2>1, <2>2, <2>9 DEF ServerInv, ServerTypes
  <2>11. Stacked(q) /\ Frames(q) \subseteq {"connect", "h_conn", "h_old"}
    <3>1. req[r].ret = <<>> /\ Frames(req[r]) = {"h_old"} /\ req[r].at \notin Within
      <4>1. "h_old" \notin Within
        BY LabelsAre DEF Handlers
      <4>2. req[r].ret = <<>>
        BY <1>2, <4>1 DEF Sound, Stacked
      <4> QED
        BY <1>2, <4>1, <4>2, StackEmpty
    <3>2. q.ret = <<"h_conn">> \o req[r].ret
      BY <2>5, <2>7, <3>1
    <3>3. PICK back \in Labels : back = "h_conn"
      BY <2>5
    <3>4. back \notin Within /\ back \notin {"h_old", "idle", "done", "c_dial", "c_spawn"}
      BY <2>5, <3>3, LabelsAre
    <3>5. Stacked(q) /\ Frames(q) \subseteq {q.at, back} \cup Frames(req[r])
      <4>1. q.at \in Within /\ q.ret = <<back>> \o req[r].ret /\ Stacked(req[r])
        BY <1>2, <2>5, <2>7, <3>2, <3>3 DEF Sound
      <4> QED
        BY <1>2, <2>6, <3>1, <3>4, <4>1, StackPush
    <3> QED
      BY <2>7, <3>1, <3>3, <3>5
  <2>12. RequestsInv'
    <3>1. Sound(r, q, trs', turn')
      <4>1. "connect" \notin Handlers /\ Elsewhere \cap Frames(q) = {}
        BY <2>5, <2>11, LabelsAre DEF Elsewhere
      <4> QED
        BY <2>1, <2>2, <2>3, <2>4, <2>7, <2>9, <2>11, <4>1 DEF Sound, None
    <3>2. \A u \in Transports : trs[u].kind # None => trs'[u].kind = trs[u].kind
      BY <2>1, <2>9
    <3>3. ASSUME NEW s \in Requests, s # r PROVE Sound(s, req[s], trs', turn')
      BY <1>2, <2>2, <3>2, <3>3, OthersAreSound
    <3>4. ASSUME NEW s \in Requests PROVE Sound(s, req'[s], trs', turn')
      BY <2>9, <3>1, <3>3
    <3> QED
      BY <3>4 DEF RequestsInv
  <2>13. Connects' = Connects /\ Switchers' = Switchers \cup {r}
    BY <1>2, <2>7, <2>9 DEF Connects, Switchers
  <2>14. TransportsInv'
    <3>1. \A u \in Transports : trs'[u].kind # None <=> u <= active'
      <4> SUFFICES ASSUME NEW u \in Transports PROVE trs'[u].kind # None <=> u <= active'
        OBVIOUS
      <4>1. trs[u].kind # None <=> u <= active
        BY DEF ServerInv, TransportsInv
      <4>2. u \in Nat /\ active \in Nat
        BY <2>1, ConstantsAre
      <4>3. CASE u = t
        BY <2>2, <2>3, <2>4, <2>9, <4>2, <4>3
      <4>4. CASE u # t
        <5>1. u <= active <=> u <= active + 1
          BY <4>2, <4>4
        <5> QED
          BY <2>2, <2>9, <4>1, <4>4, <5>1
      <4> QED
        BY <4>3, <4>4
    <3>2. active' <= Cardinality(Switchers') + 1
      BY <2>1, <2>2, <2>13, ConstantsAre
    <3> QED
      BY <2>13, <3>1, <3>2 DEF ServerInv, TransportsInv
  <2>15. KidsInv'
    <3>1. \A k \in Kids : kids[k].st # "free" => kids[k].of \in Transports /\ kids[k].of # t
      BY <2>1 DEF ServerInv, KidsInv
    <3>2. \A k \in Kids : kids[k].st # "free" => trs'[kids[k].of].kind = "stdio"
      BY <2>9, <3>1 DEF ServerInv, KidsInv
    <3>3. ASSUME NEW u \in Transports, NEW k \in Kids
          PROVE  /\ trs'[u].child = k => kids[k].of = u
                 /\ (trs'[u].child # 0 /\ kids[k].of = u) => k <= trs'[u].child
                 /\ (trs'[u].child = 0 /\ kids[k].of = u) => \E j \in Kids : kids[j].of = u /\ kids[j].killed
      <4>1. CASE u = t
        BY <2>1, <2>4, <2>9, <4>1, ConstantsAre
      <4>2. CASE u # t
        BY <2>9, <4>2 DEF ServerInv, KidsInv
      <4> QED
        BY <4>1, <4>2
    <3> QED
      BY <1>1, <3>2, <3>3 DEF ServerInv, KidsInv
  <2>16. TimersInv'
    <3>1. \A s \in Requests : Waits(s, "c_spawn")' <=> Waits(s, "c_spawn")
      BY <1>2, <2>7, <2>9 DEF Waits, Busy
    <3>2. \A s \in Requests : Waits(s, "c_spawn") => req'[s] = req[s]
      BY <1>2, <2>9 DEF Waits
    <3>3. \A s \in Requests, k \in Kids : Spawning(s, k)' <=> Spawning(s, k)
      BY <3>1, <3>2 DEF Spawning
    <3>4. Timely'
      BY <1>1, <3>1, <3>2, <3>3 DEF ServerInv, TimersInv, Timely, Early, Spawning
    <3>5. Told'
      BY <1>1, <2>4, <2>9 DEF ServerInv, TimersInv, Told, Early
    <3> QED
      BY <3>1, <3>2, <3>4, <3>5 DEF ServerInv, TimersInv
  <2>17. ASSUME NEW s \in Requests, Asks(s) \/ Asks(s)'
         PROVE  /\ req'[s] = req[s] /\ (Asks(s) <=> Asks(s)') /\ Id(s)' = Id(s)
                /\ (Held(s) => Held(s)') /\ (Abandoned(s) => Abandoned(s)')
    <3>1. s # r
      BY <1>2, <2>7, <2>9, <2>17 DEF Asks
    <3>2. req'[s] = req[s] /\ Busy(s)
      BY <2>9, <2>17, <3>1 DEF Asks, Busy
    <3>3. req[s].t # t /\ req[s].t \in Transports
      BY <2>1, <3>2, RequestIs
    <3> QED
      BY <1>1, <2>9, <3>2, <3>3 DEF Asks, Busy, Kind, Held, Abandoned, Id
  <2>18. WaitsAreHeld'
    BY <2>17 DEF ServerInv, WaitsAreHeld
  <2>19. PendingInv'
    <3> SUFFICES ASSUME NEW u \in Transports, NEW id \in pending[u]
                 PROVE  \E s \in Requests : (id = Id(s) /\ req[s].t = u /\ Asks(s))'
      BY <1>1 DEF PendingInv
    <3>1. PICK s \in Requests : id = Id(s) /\ req[s].t = u /\ Asks(s)
      BY DEF ServerInv, PendingInv
    <3> QED
      BY <2>17, <3>1
  <2>20. NoChildLeftBehind'
    BY <1>1, <1>2, <2>2 DEF ServerInv, Parted, NoChildLeftBehind
  <2>21. Parted'
    <3>1. ASSUME NEW s \in Requests, req'[s].at = "h_old", req'[s].t = t PROVE FALSE
      BY <2>1, <2>7, <2>9, <3>1 DEF Busy
    <3> QED
      BY <2>2, <3>1 DEF Parted
  <2>22. OnTarget'
    <3> SUFFICES ASSUME ~mixed, \A s \in Requests \ {r} : ~Scanning(s) /\ ~(Busy(s) /\ req[s].op = "connect")
                 PROVE  OnTarget'
      BY <2>2 DEF OnTarget
    <3>1. ASSUME NEW s \in Requests, "h_rep" \in Frames(req'[s]) PROVE FALSE
      <4>1. s # r
        BY <2>9, <2>11, <3>1
      <4>2. "h_rep" \in Frames(req[s]) /\ Sound(s, req[s], trs, turn) /\ turn # s
        BY <1>2, <2>9, <3>1, <4>1, RequestIs, ConstantsAre
      <4>3. req[s].at # "h_rep"
        BY <4>2 DEF Sound, Handlers
      <4>4. PICK i \in DOMAIN req[s].ret : req[s].ret[i] = "h_rep"
        BY <4>2, <4>3 DEF Frames
      <4>5. Busy(s)
        <5>1. req[s].ret # <<>>
          BY <4>4
        <5> QED
          BY <4>2, <5>1, LabelsAre DEF Sound, Stacked, Busy
      <4> QED
        BY <4>1, <4>4, <4>5 DEF Scanning
    <3>2. \A s \in Requests : s # r => (Busy(s)' <=> Busy(s))
      BY <2>9 DEF Busy
    <3>3. \A s \in Switchers' : Busy(s)' => s = r
      BY <2>13, <3>2 DEF Switchers, Connects
    <3>4. r \in Switchers' /\ Busy(r)' /\ req'[r].made = t
      BY <2>7, <2>9, <2>13 DEF Busy
    <3> QED
      BY <2>2, <3>1, <3>3, <3>4 DEF OnTarget
  <2> QED
    BY <2>10, <2>12, <2>14, <2>15, <2>16, <2>18, <2>19, <2>20, <2>21, <2>22 DEF ServerInv
<1> QED
  BY <1>3, <1>4

(* A stdio transport starts a subprocess.                                  *)
LEMMA SpawnKeeps ==
  ASSUME ServerInv, NEW r \in Requests, Running(r, "connect"), Kind(r) = "stdio", ~IsConnected(req[r].t),
         SpawnChild(r), Waits(r, "c_spawn")', UNCHANGED <<active, report, pending, mixed, label>>
  PROVE  ServerInv'
<1> DEFINE t == req[r].t
<1>1. /\ req[r] \in Request /\ Sound(r, req[r], trs, turn) /\ req[r].at = "connect" /\ ~req[r].wait
      /\ turn \in {None, r} /\ Busy(r) /\ t \in Transports /\ trs[t].kind = "stdio" /\ req[r].op # None
  BY RequestIs DEF Running, Ready, Busy, Sound, Kind
<1>2. ~Return(r, "throw")
  <2>1. ASSUME Return(r, "throw") PROVE FALSE
    <3>1. req'[r].wait = req[r].wait
      BY <2>1 DEF Return, ServerInv, ServerTypes, Request
    <3> QED
      BY <1>1, <3>1 DEF Waits
  <2> QED
    BY <2>1
<1>3. PICK k \in {j \in Kids : kids[j].st = "free"} :
         /\ \A j \in {j \in Kids : kids[j].st = "free"} : k <= j
         /\ kids' = [kids EXCEPT ![k] = [Unborn EXCEPT !.of = t, !.st = "up"]]
         /\ trs' = [trs EXCEPT ![t].child = k]
         /\ raced' = \/ raced
                     \/ t # active
                     \/ trs[t].child # 0 /\ kids[trs[t].child].st = "up"
                     \/ \E q \in Requests : Busy(q) /\ req[q].at = "h_old"
         /\ req' = [req EXCEPT ![r].at = "c_spawn", ![r].kid = k, ![r].wait = TRUE, ![r].res = None]
         /\ turn' = None
  BY <1>2 DEF SpawnChild
<1>4. k \in Kids /\ kids[k].st = "free" /\ kids[k].of = 0 /\ k # 0 /\ 0 \notin Transports
  BY <1>3, ConstantsAre DEF ServerInv, KidsInv
<1> DEFINE x == [Unborn EXCEPT !.of = t, !.st = "up"]
           y == [trs[t] EXCEPT !.child = k]
           q == [req[r] EXCEPT !.at = "c_spawn", !.kid = k, !.wait = TRUE, !.res = None]
<1>5. x \in Kid /\ x.of = t /\ x.st = "up"
  BY <1>1 DEF Unborn, Kid
<1>6. y \in Transport /\ y.kind = trs[t].kind /\ y.connected = trs[t].connected /\ y.child = k
  BY <1>1, <1>4 DEF ServerInv, ServerTypes, Transport
<1>7. "c_spawn" \in Within /\ "c_spawn" \in Labels /\ None \in Results
  BY LabelsAre DEF Within, Results
<1>8. q \in Request
  BY <1>1, <1>4, <1>7 DEF Request
<1>9. /\ q.op = req[r].op /\ q.at = "c_spawn" /\ q.t = t /\ q.made = req[r].made /\ q.wait
      /\ q.ret = req[r].ret /\ q.kid = k
  BY <1>1 DEF Request
<1>10. /\ kids' = [kids EXCEPT ![k] = x] /\ trs' = [trs EXCEPT ![t] = y] /\ req' = [req EXCEPT ![r] = q]
  BY <1>3 DEF ServerInv, ServerTypes
<1> HIDE DEF x, y, q
<1>11. /\ kids' \in [Kids -> Kid] /\ kids'[k] = x /\ \A j \in Kids : j # k => kids'[j] = kids[j]
  BY <1>4, <1>5, <1>10 DEF ServerInv, ServerTypes
<1>12. /\ trs' \in [Transports -> Transport] /\ trs'[t] = y /\ \A u \in Transports : u # t => trs'[u] = trs[u]
       /\ \A u \in Transports : trs'[u].kind = trs[u].kind /\ trs'[u].connected = trs[u].connected
  BY <1>1, <1>6, <1>10 DEF ServerInv, ServerTypes
<1>13. /\ req' \in [Requests -> Request] /\ req'[r] = q /\ \A s \in Requests : s # r => req'[s] = req[s]
  BY <1>8, <1>10 DEF ServerInv, ServerTypes
<1>14. ServerTypes'
  <2>1. raced' \in BOOLEAN
    BY <1>3
  <2> QED
    BY <1>11, <1>12, <1>13, <2>1 DEF ServerInv, ServerTypes
<1>15. Stacked(q) /\ Frames(q) \subseteq {"c_spawn"} \cup Frames(req[r])
  <2>1. Stacked(req[r]) /\ req[r].at \in Within
    BY <1>1 DEF Sound, Within
  <2> QED
    BY <1>1, <1>7, <1>8, <1>9, <2>1, StackStays
<1>16. RequestsInv'
  <2>1. Sound(r, q, trs', turn')
    <3>1. "c_spawn" \notin Handlers /\ None # r /\ "c_spawn" \notin Elsewhere
      BY <1>7, ConstantsAre, LabelsAre
    <3>2. q.op = "connect" => Elsewhere \cap Frames(q) = {}
      BY <1>1, <1>9, <1>15, <3>1 DEF Sound
    <3>3. trs'[t].kind = "stdio" /\ trs'[t].kind # None
      BY <1>1, <1>12 DEF None
    <3> QED
      BY <1>1, <1>3, <1>9, <1>15, <3>1, <3>2, <3>3 DEF Sound
  <2>2. ASSUME NEW s \in Requests, s # r PROVE Sound(s, req[s], trs', turn')
    <3>1. turn' \in {None, r} /\ \A u \in Transports : trs[u].kind # None => trs'[u].kind = trs[u].kind
      BY <1>3, <1>12
    <3> QED
      BY <1>1, <2>2, <3>1, OthersAreSound
  <2>3. ASSUME NEW s \in Requests PROVE Sound(s, req'[s], trs', turn')
    BY <1>13, <2>1, <2>2
  <2> QED
    BY <2>3 DEF RequestsInv
<1>17. Connects' = Connects /\ Switchers' = Switchers
  BY <1>1, <1>9, <1>13 DEF Connects, Switchers
<1>18. TransportsInv'
  BY <1>12, <1>17 DEF ServerInv, TransportsInv
<1>19. \A j \in Kids : j > k => kids[j].st = "free"
  <2> SUFFICES ASSUME NEW j \in Kids, j > k PROVE kids[j].st = "free"
    OBVIOUS
  <2>1. k <= j
    BY <1>4, ConstantsAre
  <2> QED
    BY <1>4, <2>1 DEF ServerInv, KidsInv
<1>20. \A j \in Kids : j < k => kids[j].st # "free"
  <2> SUFFICES ASSUME NEW j \in Kids, j < k, kids[j].st = "free" PROVE FALSE
    OBVIOUS
  <2>1. k <= j
    BY <1>3
  <2> QED
    BY <2>1, <1>4, ConstantsAre
<1>21. \A j \in Kids : (kids[j].st = "free" <=> kids[j].of = 0) /\ (kids[j].of \in Transports => j < k)
  <2> SUFFICES ASSUME NEW j \in Kids PROVE (kids[j].st = "free" <=> kids[j].of = 0) /\ (kids[j].of \in Transports => j < k)
    OBVIOUS
  <2>1. kids[j].st = "free" <=> kids[j].of = 0
    BY DEF ServerInv, KidsInv
  <2>2. j < k \/ j = k \/ j > k
    BY <1>4, ConstantsAre
  <2> QED
    BY <1>4, <1>19, <2>1, <2>2
<1>22. KidsInv'
  <2>1. ASSUME NEW i \in Kids, NEW j \in Kids, i <= j, kids'[j].st # "free" PROVE kids'[i].st # "free"
    <3>1. CASE i = k
      BY <1>5, <1>11, <3>1
    <3>2. CASE i # k
      <4>1. CASE j = k
        <5>1. i < k
          BY <2>1, <3>2, <4>1, <1>4, ConstantsAre
        <5> QED
          BY <1>11, <1>20, <3>2, <5>1
      <4>2. CASE j # k
        BY <1>11, <2>1, <3>2, <4>2 DEF ServerInv, KidsInv
      <4> QED
        BY <4>1, <4>2
    <3> QED
      BY <3>1, <3>2
  <2>2. \A j \in Kids : kids'[j].st = "free" <=> kids'[j].of = 0
    BY <1>1, <1>4, <1>5, <1>11, <1>21
  <2>3. ASSUME NEW u \in Transports, NEW j \in Kids
        PROVE  /\ trs'[u].child = j => kids'[j].of = u
               /\ (trs'[u].child # 0 /\ kids'[j].of = u) => j <= trs'[u].child
               /\ (trs'[u].child = 0 /\ kids'[j].of = u) => \E i \in Kids : kids'[i].of = u /\ kids'[i].killed
    <3>1. CASE u = t
      <4>1. trs'[u].child = k
        BY <1>6, <1>12, <3>1
      <4>2. kids'[j].of = u => j <= k
        <5>1. k <= k /\ (j < k => j <= k)
          BY <1>4, ConstantsAre
        <5> QED
          BY <1>11, <1>21, <5>1
      <4> QED
        BY <1>4, <1>5, <1>11, <3>1, <4>1, <4>2
    <3>2. CASE u # t
      <4>1. trs'[u] = trs[u] /\ (kids'[j].of = u => j # k /\ kids'[j] = kids[j]) /\ trs[u].child # k
        <5>1. trs[u].child = k => kids[k].of = u
          BY <1>4 DEF ServerInv, KidsInv
        <5> QED
          BY <1>4, <1>5, <1>11, <1>12, <3>2, <5>1
      <4>2. /\ trs[u].child = j => kids[j].of = u
            /\ (trs[u].child # 0 /\ kids[j].of = u) => j <= trs[u].child
            /\ (trs[u].child = 0 /\ kids[j].of = u) => \E i \in Kids : kids[i].of = u /\ kids[i].killed
        BY DEF ServerInv, KidsInv
      <4>3. \A i \in Kids : kids[i].of = u => kids'[i] = kids[i]
        BY <1>4, <1>11
      <4> QED
        BY <1>11, <4>1, <4>2, <4>3
    <3> QED
      BY <3>1, <3>2
  <2>4. \A j \in Kids : kids'[j].st # "free" => trs'[kids'[j].of].kind = "stdio"
    <3> SUFFICES ASSUME NEW j \in Kids, kids'[j].st # "free" PROVE trs'[kids'[j].of].kind = "stdio"
      OBVIOUS
    <3>1. CASE j = k
      BY <1>1, <1>5, <1>11, <1>12, <3>1
    <3>2. CASE j # k
      <4>1. kids'[j] = kids[j] /\ kids[j].of \in Transports /\ trs[kids[j].of].kind = "stdio"
        BY <1>11, <1>21, <3>2 DEF ServerInv, ServerTypes, KidsInv, Kid
      <4> QED
        BY <1>12, <4>1
    <3> QED
      BY <3>1, <3>2
  <2> QED
    BY <2>1, <2>2, <2>3, <2>4 DEF KidsInv
<1>23. \A s \in Requests, l \in Kids : Spawning(s, l)' <=> Spawning(s, l) \/ (s = r /\ l = k)
  BY <1>1, <1>9, <1>13 DEF Spawning, Waits, Busy
<1>24. \A j \in Kids : kids[j].of \in Transports => kids'[j] = kids[j]
  BY <1>4, <1>11
<1>25. TimersInv'
  <2>1. \A s \in Requests : Waits(s, "c_spawn")' => req'[s].kid \in Kids
    BY <1>4, <1>9, <1>13 DEF ServerInv, TimersInv, Waits, Busy
  <2>2. ASSUME NEW s \in Requests, NEW l \in Kids, Spawning(s, l)'
        PROVE  /\ kids'[l].of = req'[s].t
               /\ kids'[l].st = "gone" => kids'[l].early
               /\ \A j \in Kids : (j > l /\ kids'[j].st # "free") =>
                    Early(j)' \/ \E u \in Requests : Spawning(u, j)'
    <3>1. CASE s = r
      <4>1. l = k
        BY <1>9, <1>13, <2>2, <3>1 DEF Spawning
      <4>2. \A j \in Kids : j > k => kids'[j].st = "free"
        <5>1. ~(k > k)
          BY <1>4, ConstantsAre
        <5> QED
          BY <1>11, <1>19, <5>1
      <4> QED
        BY <1>5, <1>9, <1>11, <1>13, <3>1, <4>1, <4>2
    <3>2. CASE s # r
      <4>1. Spawning(s, l) /\ req'[s] = req[s] /\ req[s].t \in Transports
        BY <1>13, <1>23, <2>2, <3>2, RequestIs DEF Spawning, Waits
      <4>2. /\ kids[l].of = req[s].t
            /\ kids[l].st = "gone" => kids[l].early
            /\ \A j \in Kids : (j > l /\ kids[j].st # "free") =>
                  Early(j) \/ \E u \in Requests : Spawning(u, j)
        BY <4>1 DEF ServerInv, TimersInv, Timely
      <4>3. kids'[l] = kids[l]
        BY <1>24, <4>1, <4>2
      <4>4. ASSUME NEW j \in Kids, j > l, kids'[j].st # "free"
            PROVE  Early(j)' \/ \E u \in Requests : Spawning(u, j)'
        <5>1. CASE j = k
          BY <1>23, <5>1
        <5>2. CASE j # k
          BY <1>11, <1>23, <4>2, <4>4, <5>2 DEF Early
        <5> QED
          BY <5>1, <5>2
      <4> QED
        BY <4>1, <4>2, <4>3, <4>4
    <3> QED
      BY <3>1, <3>2
  <2>3. Told'
    <3> SUFFICES ASSUME NEW u \in Transports, trs'[u].connected, trs'[u].child # 0, kids'[trs'[u].child].st = "gone"
                 PROVE  \E j \in Kids : kids'[j].of = u /\ Early(j)'
      BY DEF Told
    <3>1. u # t
      BY <1>5, <1>6, <1>11, <1>12
    <3>2. trs'[u] = trs[u] /\ kids[trs[u].child].st = "gone"
      <4>1. trs'[u] = trs[u] /\ trs[u].child # 0
        BY <1>12, <3>1
      <4>2. trs[u].child \in Kids /\ kids[trs[u].child].of = u
        BY <4>1, ChildIs
      <4> QED
        BY <1>24, <4>1, <4>2
    <3>3. PICK j \in Kids : kids[j].of = u /\ Early(j)
      BY <3>2 DEF ServerInv, TimersInv, Told
    <3> QED
      BY <1>24, <3>3 DEF Early
  <2> QED
    BY <2>1, <2>2, <2>3 DEF TimersInv, Timely
<1>26. ASSUME NEW s \in Requests, Asks(s) \/ Asks(s)'
       PROVE  /\ req'[s] = req[s] /\ (Asks(s) <=> Asks(s)') /\ Id(s)' = Id(s)
              /\ (Held(s) => Held(s)') /\ (Abandoned(s) => Abandoned(s)')
  <2>1. s # r
    BY <1>1, <1>9, <1>13, <1>26 DEF Asks
  <2>2. req'[s] = req[s] /\ Busy(s)
    BY <1>13, <1>26, <2>1 DEF Asks, Busy
  <2>3. req[s].t \in Transports
    BY <2>2, RequestIs
  <2>4. \A j \in Kids : kids[j].of = req[s].t => kids'[j] = kids[j]
    BY <1>24, <2>3
  <2>5. Held(s) => Held(s)'
    BY <2>2, <2>4 DEF Held, Id
  <2>6. Abandoned(s) => Abandoned(s)'
    BY <2>2, <2>4 DEF Abandoned, Id
  <2> QED
    BY <1>12, <2>2, <2>3, <2>5, <2>6 DEF Asks, Busy, Kind, Id
<1>27. WaitsAreHeld'
  BY <1>26 DEF ServerInv, WaitsAreHeld
<1>28. PendingInv'
  <2> SUFFICES ASSUME NEW u \in Transports, NEW id \in pending[u]
               PROVE  \E s \in Requests : (id = Id(s) /\ req[s].t = u /\ Asks(s))'
    BY DEF PendingInv
  <2>1. PICK s \in Requests : id = Id(s) /\ req[s].t = u /\ Asks(s)
    BY DEF ServerInv, PendingInv
  <2> QED
    BY <1>26, <2>1
<1>29. NoChildLeftBehind'
  <2> SUFFICES ASSUME NEW j \in Kids, kids'[j].st = "up", ~kids'[j].killed, ~raced'
               PROVE  kids'[j].of = active /\ trs'[active].child = j
    BY DEF NoChildLeftBehind
  <2>1. ~raced /\ t = active /\ ~(trs[t].child # 0 /\ kids[trs[t].child].st = "up")
    BY <1>3
  <2>2. CASE j = k
    BY <1>5, <1>6, <1>11, <1>12, <2>1, <2>2
  <2>3. CASE j # k
    <3>1. kids[j].of = active /\ trs[active].child = j /\ kids[j].st = "up"
      BY <1>11, <2>1, <2>3 DEF ServerInv, NoChildLeftBehind
    <3>2. j # 0
      BY ConstantsAre
    <3> QED
      BY <2>1, <3>1, <3>2
  <2> QED
    BY <2>2, <2>3
<1>30. Parted'
  <2>1. ~raced' => \A s \in Requests : req'[s].at # "h_old"
    BY <1>3, <1>9, <1>13 DEF Busy
  <2> QED
    BY <2>1 DEF Parted
<1>31. OnTarget'
  <2> SUFFICES ASSUME ~mixed PROVE OnTarget'
    BY DEF OnTarget
  <2>1. /\ \A s \in Requests : "h_rep" \in Frames(req[s]) => req[s].t = active
        /\ \A s \in Switchers : Busy(s) => req[s].made = active
        /\ (report.of \in {0, active} /\ label \in {0, active}) \/ \E s \in Switchers : Busy(s)
    BY DEF ServerInv, OnTarget
  <2>2. \A s \in Requests : "h_rep" \in Frames(req'[s]) => req'[s].t = active
    BY <1>9, <1>13, <1>15, <2>1
  <2>3. \A s \in Requests : (Busy(s)' <=> Busy(s)) /\ req'[s].made = req[s].made
    BY <1>1, <1>9, <1>13 DEF Busy
  <2>4. Switchers \subseteq Requests
    BY SwitchersAre
  <2> QED
    BY <1>17, <2>1, <2>2, <2>3, <2>4 DEF OnTarget
<1> QED
  BY <1>14, <1>16, <1>18, <1>22, <1>25, <1>27, <1>28, <1>29, <1>30, <1>31 DEF ServerInv

(* A connect arrives: the active transport is closed.                      *)
LEMMA ApiConnectKeeps ==
  ASSUME ServerInv, NEW r \in Requests, ApiConnect(r)
  PROVE  ServerInv'
<1>1. /\ turn = None /\ req[r].op = None /\ Cardinality(Connects) < Len(Kinds) - 1
      /\ Disconnect(active) /\ UNCHANGED <<active, report, turn, raced, mixed, label>>
      /\ req' = [req EXCEPT ![r].op = "connect", ![r].t = active, ![r].at = "h_old", ![r].wait = TRUE]
  BY DEF ApiConnect, Arrives, Event, Connects
<1>2. /\ req[r] \in Request /\ Stacked(req[r]) /\ req[r].at = "idle" /\ ~req[r].wait
      /\ active \in Transports /\ trs[active] \in Transport
  BY <1>1, RequestIs DEF Sound, ServerInv, ServerTypes
<1>3. trs[active].kind # None
  BY <1>2, ConstantsAre DEF ServerInv, TransportsInv
<1> DEFINE c == trs[active].child
           q == [req[r] EXCEPT !.op = "connect", !.t = active, !.at = "h_old", !.wait = TRUE]
           y == [trs[active] EXCEPT !.connected = FALSE, !.client = FALSE, !.child = 0]
<1>4. "h_old" \in Labels /\ "h_old" \in Handlers /\ "h_old" \notin Within /\ "idle" \notin Within
  BY LabelsAre DEF Handlers
<1>5. q \in Request
  BY <1>2, <1>4 DEF Request
<1>6. /\ q.op = "connect" /\ q.at = "h_old" /\ q.t = active /\ q.wait /\ q.ret = req[r].ret
  BY <1>2 DEF Request
<1>7. y \in Transport /\ y.kind = trs[active].kind /\ y.child = 0 /\ ~y.connected
  BY <1>2 DEF Transport
<1>8. req' = [req EXCEPT ![r] = q] /\ trs' = [trs EXCEPT ![active] = y] /\ pending' = [pending EXCEPT ![active] = {}]
  BY <1>1 DEF Disconnect, ServerInv, ServerTypes
<1> HIDE DEF q, y
<1>9. /\ trs' \in [Transports -> Transport] /\ trs'[active] = y /\ \A u \in Transports : u # active => trs'[u] = trs[u]
      /\ \A u \in Transports : trs'[u].kind = trs[u].kind
  BY <1>2, <1>7, <1>8 DEF ServerInv, ServerTypes
<1>10. /\ req' \in [Requests -> Request] /\ req'[r] = q /\ \A s \in Requests : s # r => req'[s] = req[s]
  BY <1>5, <1>8 DEF ServerInv, ServerTypes
<1>11. /\ pending' \in [Transports -> SUBSET Ids] /\ pending'[active] = {}
       /\ \A u \in Transports : u # active => pending'[u] = pending[u]
  BY <1>2, <1>8 DEF ServerInv, ServerTypes
<1>12. /\ kids' \in [Kids -> Kid] /\ \A k \in Kids : k # c => kids'[k] = kids[k]
       /\ \A k \in Kids : /\ kids'[k].of = kids[k].of /\ kids'[k].st = kids[k].st /\ kids'[k].early = kids[k].early
                          /\ kids[k].killed => kids'[k].killed
       /\ c # 0 => c \in Kids /\ kids[c].of = active /\ kids'[c].killed
  <2>1. CASE c = 0
    BY <1>1, <2>1 DEF Disconnect, ServerInv, ServerTypes
  <2>2. CASE c # 0
    <3> DEFINE x == [kids[c] EXCEPT !.killed = TRUE, !.owed = {}]
    <3>1. c \in Kids /\ kids[c].of = active /\ kids[c] \in Kid
      BY <1>2, <2>2, ChildIs DEF ServerInv, ServerTypes
    <3>2. x \in Kid /\ x.of = kids[c].of /\ x.st = kids[c].st /\ x.early = kids[c].early /\ x.killed
      BY <3>1 DEF Kid
    <3>3. kids' = [kids EXCEPT ![c] = x]
      BY <1>1, <2>2 DEF Disconnect, ServerInv, ServerTypes
    <3> HIDE DEF x
    <3> QED
      BY <3>1, <3>2, <3>3 DEF ServerInv, ServerTypes
  <2> QED
    BY <2>1, <2>2
<1>13. ServerTypes'
  BY <1>1, <1>9, <1>10, <1>11, <1>12 DEF ServerInv, ServerTypes
<1>14. req[r].ret = <<>> /\ Stacked(q) /\ Frames(q) = {"h_old"}
  <2>1. req[r].ret = <<>>
    BY <1>2, <1>4 DEF Stacked
  <2> QED
    BY <1>4, <1>5, <1>6, <2>1, StackEmpty
<1>15. RequestsInv'
  <2>1. Sound(r, q, trs', turn')
    BY <1>1, <1>2, <1>3, <1>6, <1>9, <1>14, ConstantsAre DEF Sound, Elsewhere, None
  <2>2. ASSUME NEW s \in Requests, s # r PROVE Sound(s, req[s], trs', turn')
    BY <1>1, <1>9, <2>2, OthersAreSound
  <2>3. ASSUME NEW s \in Requests PROVE Sound(s, req'[s], trs', turn')
    BY <1>10, <2>1, <2>2
  <2> QED
    BY <2>3 DEF RequestsInv
<1>16. Connects' = Connects \cup {r} /\ Switchers' = Switchers /\ r \notin Connects
  BY <1>1, <1>6, <1>10 DEF Connects, Switchers, None
<1>17. TransportsInv'
  <2>1. Cardinality(Connects') = Cardinality(Connects) + 1
    BY <1>16, SwitchersAre, FS_AddElement
  <2>2. Cardinality(Connects') <= Len(Kinds) - 1
    BY <1>1, <2>1, SwitchersAre, ConstantsAre
  <2> QED
    BY <1>1, <1>9, <1>16, <2>2 DEF ServerInv, TransportsInv
<1>18. KidsInv'
  <2>1. ASSUME NEW u \in Transports, NEW k \in Kids
        PROVE  /\ trs'[u].child = k => kids'[k].of = u
               /\ (trs'[u].child # 0 /\ kids'[k].of = u) => k <= trs'[u].child
               /\ (trs'[u].child = 0 /\ kids'[k].of = u) => \E j \in Kids : kids'[j].of = u /\ kids'[j].killed
    <3>1. /\ trs[u].child = k => kids[k].of = u
          /\ (trs[u].child # 0 /\ kids[k].of = u) => k <= trs[u].child
          /\ (trs[u].child = 0 /\ kids[k].of = u) => \E j \in Kids : kids[j].of = u /\ kids[j].killed
      BY DEF ServerInv, KidsInv
    <3>2. CASE u = active
      <4>1. trs'[u].child = 0 /\ 0 # k
        BY <1>7, <1>9, <3>2, ConstantsAre
      <4>2. (kids[k].of = u /\ c = 0) => \E j \in Kids : kids'[j].of = u /\ kids'[j].killed
        BY <1>12, <3>1, <3>2
      <4>3. c # 0 => \E j \in Kids : kids'[j].of = u /\ kids'[j].killed
        BY <1>12, <3>2
      <4> QED
        BY <1>12, <4>1, <4>2, <4>3
    <3>3. CASE u # active
      BY <1>9, <1>12, <3>1, <3>3
    <3> QED
      BY <3>2, <3>3
  <2>2. \A k \in Kids : kids[k].st # "free" => kids[k].of \in Transports
    BY DEF ServerInv, ServerTypes, KidsInv, Kid
  <2> QED
    BY <1>9, <1>12, <2>1, <2>2 DEF ServerInv, KidsInv
<1>19. TimersInv'
  <2>1. \A s \in Requests : Waits(s, "c_spawn")' <=> Waits(s, "c_spawn")
    BY <1>2, <1>6, <1>10 DEF Waits, Busy
  <2>2. \A s \in Requests : Waits(s, "c_spawn") => req'[s] = req[s]
    BY <1>2, <1>10 DEF Waits
  <2>3. \A s \in Requests, k \in Kids : Spawning(s, k)' <=> Spawning(s, k)
    BY <2>1, <2>2 DEF Spawning
  <2>4. Timely'
    BY <1>12, <2>1, <2>2, <2>3 DEF ServerInv, TimersInv, Timely, Early, Spawning
  <2>5. Told'
    <3>1. ASSUME NEW u \in Transports, trs[u].child # 0 PROVE trs[u].child \in Kids
      BY <3>1, ChildIs
    <3> QED
      BY <1>7, <1>9, <1>12, <3>1 DEF ServerInv, TimersInv, Told, Early
  <2> QED
    BY <2>1, <2>2, <2>4, <2>5 DEF ServerInv, TimersInv
<1>20. ASSUME NEW s \in Requests, Asks(s) \/ Asks(s)'
       PROVE  req'[s] = req[s] /\ Asks(s) /\ Asks(s)' /\ Id(s)' = Id(s) /\ req[s].t \in Transports
  <2>1. s # r
    BY <1>2, <1>6, <1>10, <1>20 DEF Asks, Busy
  <2>2. req'[s] = req[s] /\ Busy(s)
    BY <1>10, <1>20, <2>1 DEF Asks, Busy
  <2>3. req[s].t \in Transports
    BY <2>2, RequestIs
  <2> QED
    BY <1>9, <1>20, <2>2, <2>3 DEF Asks, Busy, Kind, Id
<1>21. WaitsAreHeld'
  <2> SUFFICES ASSUME NEW s \in Requests, Asks(s)' PROVE (Held(s) \/ Abandoned(s))'
    BY DEF WaitsAreHeld
  <2>1. req'[s] = req[s] /\ Asks(s) /\ Id(s)' = Id(s) /\ req[s].t \in Transports
    BY <1>20
  <2>2. Held(s) \/ Abandoned(s)
    BY <2>1 DEF ServerInv, WaitsAreHeld
  <2>3. CASE req[s].t = active
    <3>1. PICK j \in Kids : kids[j].of = active
      BY <2>2, <2>3 DEF Held, Abandoned
    <3>2. trs'[active].child = 0 /\ kids'[j].of = active
      BY <1>7, <1>9, <1>12, <3>1
    <3>3. PICK i \in Kids : kids'[i].of = active /\ kids'[i].killed
      BY <1>2, <1>18, <3>2 DEF KidsInv
    <3> QED
      BY <1>11, <2>1, <2>3, <3>3 DEF Abandoned
  <2>4. CASE req[s].t # active
    <3>1. \A k \in Kids : kids[k].of = req[s].t => kids'[k] = kids[k]
      BY <1>12, <2>4, ConstantsAre
    <3>2. pending'[req[s].t] = pending[req[s].t]
      BY <1>11, <2>1, <2>4
    <3> QED
      BY <2>1, <2>2, <3>1, <3>2 DEF Held, Abandoned
  <2> QED
    BY <2>3, <2>4
<1>22. PendingInv'
  <2> SUFFICES ASSUME NEW u \in Transports, NEW id \in pending'[u]
               PROVE  \E s \in Requests : (id = Id(s) /\ req[s].t = u /\ Asks(s))'
    BY DEF PendingInv
  <2>1. id \in pending[u]
    BY <1>11
  <2>2. PICK s \in Requests : id = Id(s) /\ req[s].t = u /\ Asks(s)
    BY <2>1 DEF ServerInv, PendingInv
  <2> QED
    BY <1>20, <2>2
<1>23. ASSUME ~raced, NEW k \in Kids, kids'[k].st = "up" PROVE kids'[k].killed
  <2>1. CASE kids[k].killed
    BY <1>12, <2>1
  <2>2. CASE ~kids[k].killed
    <3>1. c = k
      BY <1>12, <1>23, <2>2 DEF ServerInv, NoChildLeftBehind
    <3> QED
      BY <1>12, <3>1, ConstantsAre
  <2> QED
    BY <2>1, <2>2
<1>24. NoChildLeftBehind' /\ Parted'
  BY <1>1, <1>23 DEF NoChildLeftBehind, Parted
<1>25. OnTarget'
  <2> SUFFICES ASSUME ~mixed PROVE OnTarget'
    BY <1>1 DEF OnTarget
  <2>1. /\ \A s \in Requests : "h_rep" \in Frames(req[s]) => req[s].t = active
        /\ \A s \in Switchers : Busy(s) => req[s].made = active
        /\ (report.of \in {0, active} /\ label \in {0, active}) \/ \E s \in Switchers : Busy(s)
    BY DEF ServerInv, OnTarget
  <2>2. \A s \in Requests : "h_rep" \in Frames(req'[s]) => req'[s].t = active
    BY <1>10, <1>14, <2>1
  <2>3. \A s \in Switchers : s \in Requests /\ (Busy(s)' <=> Busy(s)) /\ req'[s].made = req[s].made
    <3>1. r \notin Switchers /\ Switchers \subseteq Requests
      BY <1>16, SwitchersAre
    <3> QED
      BY <1>10, <3>1 DEF Busy
  <2> QED
    BY <1>1, <1>16, <2>1, <2>2, <2>3 DEF OnTarget
<1> QED
  BY <1>13, <1>15, <1>17, <1>18, <1>19, <1>21, <1>22, <1>24, <1>25 DEF ServerInv

(* An event: the requests rs are told, and nothing else of the requests,   *)
(* nor a transport or a subprocess but for what is given here, changes.    *)
LEMMA EventKeeps ==
  ASSUME ServerInv, Event, NEW rs \in SUBSET Requests, \A s \in rs : Busy(s), NEW res \in Results, Settle(rs, res),
         UNCHANGED <<active, report, turn, label, raced, mixed>>,
         trs' \in [Transports -> Transport],
         \A t \in Transports : trs'[t].kind = trs[t].kind /\ trs'[t].child = trs[t].child,
         kids' \in [Kids -> Kid],
         \A k \in Kids : /\ kids'[k].of = kids[k].of /\ kids'[k].killed = kids[k].killed
                         /\ kids'[k].st = kids[k].st \/ (kids[k].st = "up" /\ kids'[k].st = "gone"),
         pending' \in [Transports -> SUBSET Ids]
  PROVE  /\ ServerTypes' /\ RequestsInv' /\ TransportsInv' /\ KidsInv'
         /\ NoChildLeftBehind' /\ Parted' /\ OnTarget'
         /\ \A s \in Requests : s \notin rs => req'[s] = req[s]
         /\ \A s \in rs : ~req'[s].wait /\ req'[s].at = req[s].at
<1>1. turn = None /\ turn' = None
  BY DEF Event
<1>2. ASSUME NEW s \in Requests
      PROVE  /\ req'[s] \in Request /\ req'[s].op = req[s].op /\ req'[s].at = req[s].at
             /\ req'[s].t = req[s].t /\ req'[s].ret = req[s].ret /\ req'[s].made = req[s].made
             /\ s \notin rs => req'[s] = req[s]
             /\ s \in rs => ~req'[s].wait
  <2>1. req[s] \in Request
    BY RequestIs
  <2>2. req'[s] = IF s \in rs THEN [req[s] EXCEPT !.wait = FALSE, !.res = res] ELSE req[s]
    BY DEF Settle
  <2> DEFINE q == [req[s] EXCEPT !.wait = FALSE, !.res = res]
  <2>3. q \in Request
    BY <2>1 DEF Request
  <2>4. /\ q.op = req[s].op /\ q.at = req[s].at /\ q.t = req[s].t
        /\ q.ret = req[s].ret /\ q.made = req[s].made /\ ~q.wait
    BY <2>1 DEF Request
  <2> HIDE DEF q
  <2>5. req'[s] = IF s \in rs THEN q ELSE req[s]
    BY <2>2 DEF q
  <2>6. CASE s \in rs
    BY <2>3, <2>4, <2>5, <2>6
  <2>7. CASE s \notin rs
    BY <2>1, <2>5, <2>7
  <2> QED
    BY <2>6, <2>7
<1>3. ServerTypes'
  <2>1. req' \in [Requests -> Request]
    <3>1. req' = [s \in Requests |-> req'[s]]
      BY DEF Settle
    <3> QED
      BY <1>2, <3>1
  <2> QED
    BY <2>1 DEF ServerInv, ServerTypes
<1>4. RequestsInv'
  <2> SUFFICES ASSUME NEW s \in Requests PROVE Sound(s, req'[s], trs', turn')
    BY DEF RequestsInv
  <2>1. Sound(s, req[s], trs, turn) /\ None # s
    BY RequestIs, ConstantsAre
  <2>2. Stacked(req'[s]) /\ Frames(req'[s]) = Frames(req[s])
    BY <1>2, <2>1 DEF Stacked, Frames, Sound
  <2>3. req[s].at = "idle" => s \notin rs
    BY DEF Busy
  <2>4. req[s].at \in {"c_dial", "c_spawn"} => req[s].t \in Transports
    BY <2>1 DEF Sound
  <2> QED
    BY <1>1, <1>2, <2>1, <2>2, <2>3, <2>4 DEF Sound
<1>5. Connects' = Connects /\ Switchers' = Switchers
  BY <1>2 DEF Connects, Switchers
<1>6. TransportsInv'
  BY <1>5 DEF ServerInv, TransportsInv
<1>7. \A k \in Kids : kids'[k].st = "free" <=> kids[k].st = "free"
  OBVIOUS
<1>8. KidsInv'
  <2>1. \A k \in Kids : kids[k].st # "free" => kids[k].of \in Transports
    BY DEF ServerInv, ServerTypes, KidsInv, Kid
  <2> QED
    BY <1>7, <2>1 DEF ServerInv, KidsInv
<1>9. \A k \in Kids : kids'[k].st = "up" => kids[k].st = "up"
  OBVIOUS
<1>10. NoChildLeftBehind'
  <2>1. active \in Transports
    BY DEF ServerInv, ServerTypes
  <2> QED
    BY <1>9, <2>1 DEF ServerInv, NoChildLeftBehind
<1>11. Parted'
  BY <1>2, <1>9 DEF ServerInv, Parted
<1>12. OnTarget'
  <2>1. \A s \in Requests : Frames(req'[s]) = Frames(req[s]) /\ (Busy(s)' <=> Busy(s))
    BY <1>2 DEF Frames, Busy
  <2>2. Switchers \subseteq Requests
    BY SwitchersAre
  <2> QED
    BY <1>2, <1>5, <2>1, <2>2 DEF ServerInv, OnTarget
<1> QED
  BY <1>2, <1>3, <1>4, <1>6, <1>8, <1>10, <1>11, <1>12

(* A request that the event does not tell waits as it did.                 *)
LEMMA AsksStays ==
  ASSUME ServerInv, NEW s \in Requests, req'[s] = req[s],
         \A t \in Transports : trs'[t].kind = trs[t].kind
  PROVE  /\ Asks(s)' <=> Asks(s)
         /\ Id(s)' = Id(s)
         /\ \A k \in Kids : Spawning(s, k)' <=> Spawning(s, k)
<1>1. Busy(s) => req[s].t \in Transports
  BY RequestIs
<1> QED
  BY <1>1 DEF Asks, Id, Spawning, Waits, Busy, Kind

(* Whoever is in the table of a transport waits for its subprocess.        *)
LEMMA AskingIs ==
  ASSUME ServerInv, NEW t \in Transports, NEW s \in Asking(t)
  PROVE  /\ s \in Requests /\ Busy(s) /\ req[s].t = t /\ Asks(s) /\ Id(s) \in pending[t]
         /\ req[s].at # "c_spawn"
BY DEF Asking, ServerInv, PendingInv, Asks, Id

(* An exchange with the network ends: no subprocess is concerned.          *)
LEMMA NetworkKeeps ==
  ASSUME ServerInv, NEW r \in Requests, NetworkEvent(r)
  PROVE  ServerInv'
<1>1. PICK res \in {"ok", "fail", "rejected"} : NetworkAnswers(r, res)
  BY DEF NetworkEvent
<1>2. /\ Event /\ Busy(r) /\ req[r].wait /\ req[r].at # "c_spawn" /\ ~Asks(r) /\ Settle({r}, res)
      /\ UNCHANGED <<active, report, trs, kids, pending, turn, raced, mixed, label>>
  BY <1>1 DEF NetworkAnswers, Asks
<1>3. /\ ServerTypes' /\ RequestsInv' /\ TransportsInv' /\ KidsInv'
      /\ NoChildLeftBehind' /\ Parted' /\ OnTarget'
      /\ \A s \in Requests : s \notin {r} => req'[s] = req[s]
      /\ \A s \in {r} : ~req'[s].wait /\ req'[s].at = req[s].at
  <2>1. res \in Results /\ {r} \in SUBSET Requests
    BY DEF Results
  <2>2. trs \in [Transports -> Transport] /\ kids \in [Kids -> Kid] /\ pending \in [Transports -> SUBSET Ids]
    BY DEF ServerInv, ServerTypes
  <2> QED
    BY <1>2, <2>1, <2>2, EventKeeps
<1>4. \A s \in Requests : s # r => (Asks(s)' <=> Asks(s)) /\ Id(s)' = Id(s) /\ \A k \in Kids : Spawning(s, k)' <=> Spawning(s, k)
  BY <1>2, <1>3, AsksStays
<1>5. ~Asks(r)' /\ \A k \in Kids : ~Spawning(r, k) /\ ~Spawning(r, k)'
  BY <1>2, <1>3 DEF Asks, Spawning, Waits
<1>6. TimersInv'
  <2>1. \A s \in Requests : Waits(s, "c_spawn")' => req'[s].kid \in Kids
    BY <1>2, <1>3 DEF ServerInv, TimersInv, Waits, Busy
  <2>2. \A s \in Requests, k \in Kids : Spawning(s, k)' <=> Spawning(s, k)
    BY <1>4, <1>5
  <2>3. \A s \in Requests, k \in Kids : Spawning(s, k) => req'[s] = req[s]
    BY <1>3, <1>5
  <2>4. Timely'
    BY <1>2, <2>2, <2>3 DEF ServerInv, TimersInv, Timely, Early
  <2> QED
    BY <1>2, <2>1, <2>4 DEF ServerInv, TimersInv, Told, Early
<1>7. ASSUME NEW s \in Requests, Asks(s) \/ Asks(s)'
      PROVE  req'[s] = req[s] /\ Asks(s) /\ Asks(s)' /\ Id(s)' = Id(s)
  BY <1>2, <1>3, <1>4, <1>5, <1>7
<1>8. WaitsAreHeld'
  BY <1>2, <1>7 DEF ServerInv, WaitsAreHeld, Held, Abandoned
<1>9. PendingInv'
  <2> SUFFICES ASSUME NEW u \in Transports, NEW id \in pending[u]
               PROVE  \E s \in Requests : (id = Id(s) /\ req[s].t = u /\ Asks(s))'
    BY <1>2 DEF PendingInv
  <2>1. PICK s \in Requests : id = Id(s) /\ req[s].t = u /\ Asks(s)
    BY DEF ServerInv, PendingInv
  <2> QED
    BY <1>7, <2>1
<1> QED
  BY <1>3, <1>6, <1>8, <1>9 DEF ServerInv

(* The timer of a subprocess fires, in the order of their starts: if a     *)
(* later one has gone already, then it failed while it was waited for.     *)
LEMMA SpawnSettlesKeeps ==
  ASSUME ServerInv, NEW r \in Requests, SpawnSettles(r)
  PROVE  ServerInv'
<1> DEFINE t == req[r].t
           l == req[r].kid
<1>1. /\ Event /\ Waits(r, "c_spawn") /\ Busy(r) /\ req[r].wait /\ req[r].at = "c_spawn"
      /\ \A s \in Requests : Waits(s, "c_spawn") => l <= req[s].kid
      /\ SetConnected(t, TRUE) /\ Settle({r}, "ok")
      /\ UNCHANGED <<active, report, kids, pending, turn, raced, mixed, label>>
  BY DEF SpawnSettles, Waits
<1>2. t \in Transports /\ l \in Kids /\ Spawning(r, l) /\ kids[l].of = t /\ trs[t] \in Transport
  BY <1>1, RequestIs DEF ServerInv, ServerTypes, TimersInv, Timely, Spawning
<1> DEFINE y == [trs[t] EXCEPT !.connected = TRUE]
<1>3. y \in Transport /\ y.kind = trs[t].kind /\ y.child = trs[t].child
  BY <1>2 DEF Transport
<1>4. trs' = [trs EXCEPT ![t] = y]
  BY <1>1 DEF SetConnected, ServerInv, ServerTypes
<1> HIDE DEF y
<1>5. /\ trs' \in [Transports -> Transport]
      /\ \A u \in Transports : trs'[u].kind = trs[u].kind /\ trs'[u].child = trs[u].child
      /\ \A u \in Transports : u # t => trs'[u] = trs[u]
  BY <1>2, <1>3, <1>4 DEF ServerInv, ServerTypes
<1>6. /\ ServerTypes' /\ RequestsInv' /\ TransportsInv' /\ KidsInv'
      /\ NoChildLeftBehind' /\ Parted' /\ OnTarget'
      /\ \A s \in Requests : s \notin {r} => req'[s] = req[s]
      /\ \A s \in {r} : ~req'[s].wait /\ req'[s].at = req[s].at
  <2>1. "ok" \in Results /\ {r} \in SUBSET Requests
    BY DEF Results
  <2>2. kids \in [Kids -> Kid] /\ pending \in [Transports -> SUBSET Ids]
    BY DEF ServerInv, ServerTypes
  <2> QED
    BY <1>1, <1>5, <2>1, <2>2, EventKeeps
<1>7. \A s \in Requests : s # r => (Asks(s)' <=> Asks(s)) /\ Id(s)' = Id(s) /\ \A k \in Kids : Spawning(s, k)' <=> Spawning(s, k)
  BY <1>5, <1>6, AsksStays
<1>8. ~Asks(r) /\ ~Asks(r)' /\ \A k \in Kids : ~Spawning(r, k)'
  BY <1>1, <1>6 DEF Asks, Spawning, Waits
<1>9. TimersInv'
  <2>1. \A s \in Requests : Waits(s, "c_spawn")' => req'[s].kid \in Kids
    BY <1>1, <1>6 DEF ServerInv, TimersInv, Waits, Busy
  <2>2. ASSUME NEW s \in Requests, NEW k \in Kids, Spawning(s, k)'
        PROVE  /\ kids[k].of = req'[s].t
               /\ kids[k].st = "gone" => kids[k].early
               /\ \A j \in Kids : (j > k /\ kids[j].st # "free") =>
                    Early(j) \/ \E u \in Requests : Spawning(u, j)'
    <3>1. s # r /\ req'[s] = req[s] /\ Spawning(s, k)
      BY <1>6, <1>7, <1>8, <2>2
    <3>2. l <= k
      BY <1>1, <3>1 DEF Spawning
    <3>3. /\ kids[k].of = req[s].t
          /\ kids[k].st = "gone" => kids[k].early
          /\ \A j \in Kids : (j > k /\ kids[j].st # "free") =>
                Early(j) \/ \E u \in Requests : Spawning(u, j)
      BY <3>1 DEF ServerInv, TimersInv, Timely
    <3>4. ASSUME NEW j \in Kids, j > k, NEW u \in Requests, Spawning(u, j) PROVE Spawning(u, j)'
      <4>1. j # l
        BY <1>2, <3>2, <3>4, ConstantsAre
      <4>2. u # r
        BY <3>4, <4>1 DEF Spawning
      <4> QED
        BY <1>7, <3>4, <4>2
    <3> QED
      BY <3>1, <3>3, <3>4
  <2>3. Timely'
    BY <1>1, <2>2 DEF Timely, Early
  <2>4. Told'
    <3> SUFFICES ASSUME NEW u \in Transports, trs'[u].connected, trs'[u].child # 0, kids[trs'[u].child].st = "gone"
                 PROVE  \E k \in Kids : kids[k].of = u /\ Early(k)
      BY <1>1 DEF Told, Early
    <3>1. CASE u # t
      BY <1>5, <3>1 DEF ServerInv, TimersInv, Told
    <3>2. CASE u = t
      <4> DEFINE c == trs[t].child
      <4>1. c \in Kids /\ kids[c].of = t /\ kids[c].st = "gone" /\ c # 0
        BY <1>2, <1>5, <3>2, ChildIs
      <4>2. l <= c
        BY <1>2, <4>1 DEF ServerInv, KidsInv
      <4>3. CASE kids[l].st = "gone"
        BY <1>2, <3>2, <4>3 DEF ServerInv, TimersInv, Timely, Early
      <4>4. CASE kids[l].st # "gone"
        <5>1. c > l
          BY <1>2, <4>1, <4>2, <4>4, ConstantsAre
        <5>2. Early(c) \/ \E s \in Requests : Spawning(s, c)
          BY <1>2, <4>1, <5>1 DEF ServerInv, TimersInv, Timely
        <5>3. ASSUME NEW s \in Requests, Spawning(s, c) PROVE Early(c)
          BY <4>1, <5>3 DEF ServerInv, TimersInv, Timely, Early
        <5> QED
          BY <3>2, <4>1, <5>2, <5>3
      <4> QED
        BY <4>3, <4>4
    <3> QED
      BY <3>1, <3>2
  <2> QED
    BY <2>1, <2>3, <2>4 DEF TimersInv
<1>10. ASSUME NEW s \in Requests, Asks(s) \/ Asks(s)'
       PROVE  req'[s] = req[s] /\ Asks(s) /\ Asks(s)' /\ Id(s)' = Id(s)
  BY <1>6, <1>7, <1>8, <1>10
<1>11. WaitsAreHeld'
  BY <1>1, <1>10 DEF ServerInv, WaitsAreHeld, Held, Abandoned
<1>12. PendingInv'
  <2> SUFFICES ASSUME NEW u \in Transports, NEW id \in pending[u]
               PROVE  \E s \in Requests : (id = Id(s) /\ req[s].t = u /\ Asks(s))'
    BY <1>1 DEF PendingInv
  <2>1. PICK s \in Requests : id = Id(s) /\ req[s].t = u /\ Asks(s)
    BY DEF ServerInv, PendingInv
  <2> QED
    BY <1>10, <2>1
<1> QED
  BY <1>6, <1>9, <1>11, <1>12 DEF ServerInv

(* A subprocess is gone: its transport is unconnected and all who ask it   *)
(* are told, as is who waits for that subprocess, if it failed to start.   *)
LEMMA ChildGoneKeeps ==
  ASSUME ServerInv, Event, NEW l \in Kids, kids[l].st = "up", NEW t \in Transports, t = kids[l].of,
         NEW x \in Kid, x.of = t, x.st = "gone", x.killed = kids[l].killed, x.lost = kids[l].lost,
         (\E s \in Requests : Spawning(s, l)) => x.early,
         kids' = [kids EXCEPT ![l] = x],
         SetConnected(t, FALSE), pending' = [pending EXCEPT ![t] = {}],
         NEW rs \in SUBSET Requests, Asking(t) \subseteq rs, \A s \in rs : s \in Asking(t) \/ Spawning(s, l),
         Settle(rs, "fail"),
         UNCHANGED <<active, report, turn, raced, mixed, label>>
  PROVE  ServerInv'
<1> DEFINE y == [trs[t] EXCEPT !.connected = FALSE]
<1>1. y \in Transport /\ y.kind = trs[t].kind /\ y.child = trs[t].child /\ ~y.connected
  BY DEF ServerInv, ServerTypes, Transport
<1>2. trs' = [trs EXCEPT ![t] = y]
  BY DEF SetConnected, ServerInv, ServerTypes
<1> HIDE DEF y
<1>3. /\ trs' \in [Transports -> Transport]
      /\ \A u \in Transports : trs'[u].kind = trs[u].kind /\ trs'[u].child = trs[u].child
      /\ \A u \in Transports : u # t => trs'[u] = trs[u]
      /\ ~trs'[t].connected
  BY <1>1, <1>2 DEF ServerInv, ServerTypes
<1>4. /\ kids' \in [Kids -> Kid] /\ kids'[l] = x /\ \A k \in Kids : k # l => kids'[k] = kids[k]
  BY DEF ServerInv, ServerTypes
<1>5. /\ pending' \in [Transports -> SUBSET Ids] /\ pending'[t] = {}
      /\ \A u \in Transports : u # t => pending'[u] = pending[u]
  BY DEF ServerInv, ServerTypes
<1>6. \A s \in rs : Busy(s) /\ req[s].t = t
  <2>1. ASSUME NEW s \in Requests, Spawning(s, l) PROVE Busy(s) /\ req[s].t = t
    BY <2>1 DEF Spawning, Waits, ServerInv, TimersInv, Timely
  <2> QED
    BY <2>1, AskingIs
<1>7. /\ ServerTypes' /\ RequestsInv' /\ TransportsInv' /\ KidsInv'
      /\ NoChildLeftBehind' /\ Parted' /\ OnTarget'
      /\ \A s \in Requests : s \notin rs => req'[s] = req[s]
      /\ \A s \in rs : ~req'[s].wait /\ req'[s].at = req[s].at
  <2>1. "fail" \in Results
    BY DEF Results
  <2>2. \A k \in Kids : /\ kids'[k].of = kids[k].of /\ kids'[k].killed = kids[k].killed
                        /\ kids'[k].st = kids[k].st \/ (kids[k].st = "up" /\ kids'[k].st = "gone")
    BY <1>4
  <2> QED
    BY <1>3, <1>4, <1>5, <1>6, <2>1, <2>2, EventKeeps
<1>8. \A s \in Requests : s \notin rs => (Asks(s)' <=> Asks(s)) /\ Id(s)' = Id(s) /\ \A k \in Kids : Spawning(s, k)' <=> Spawning(s, k)
  BY <1>3, <1>7, AsksStays
<1>9. \A s \in rs : ~Asks(s)' /\ \A k \in Kids : ~Spawning(s, k)'
  BY <1>7 DEF Asks, Spawning, Waits
<1>10. \A k \in Kids : Early(k) => Early(k)'
  BY <1>4 DEF Early
<1>11. \A s \in rs, k \in Kids : Spawning(s, k) => k = l
  <2> SUFFICES ASSUME NEW s \in rs, NEW k \in Kids, Spawning(s, k) PROVE k = l
    OBVIOUS
  <2>1. req[s].at = "c_spawn" /\ req[s].kid = k
    BY DEF Spawning, Waits
  <2>2. s \notin Asking(t)
    BY <2>1, AskingIs
  <2> QED
    BY <2>1, <2>2 DEF Spawning
<1>12. TimersInv'
  <2>1. \A s \in Requests : Waits(s, "c_spawn")' => req'[s].kid \in Kids
    BY <1>7 DEF ServerInv, TimersInv, Waits, Busy
  <2>2. ASSUME NEW s \in Requests, NEW k \in Kids, Spawning(s, k)'
        PROVE  /\ kids'[k].of = req'[s].t
               /\ kids'[k].st = "gone" => kids'[k].early
               /\ \A j \in Kids : (j > k /\ kids'[j].st # "free") =>
                    Early(j)' \/ \E u \in Requests : Spawning(u, j)'
    <3>1. s \notin rs /\ req'[s] = req[s] /\ Spawning(s, k)
      BY <1>7, <1>8, <1>9, <2>2
    <3>2. /\ kids[k].of = req[s].t
          /\ kids[k].st = "gone" => kids[k].early
          /\ \A j \in Kids : (j > k /\ kids[j].st # "free") =>
                Early(j) \/ \E u \in Requests : Spawning(u, j)
      BY <3>1 DEF ServerInv, TimersInv, Timely
    <3>3. /\ kids'[k].of = req'[s].t
          /\ kids'[k].st = "gone" => kids'[k].early
      BY <1>4, <3>1, <3>2
    <3>4. ASSUME NEW j \in Kids, j > k, kids'[j].st # "free"
          PROVE  Early(j)' \/ \E u \in Requests : Spawning(u, j)'
      <4>1. kids[j].st # "free"
        BY <1>4, <3>4
      <4>2. CASE Early(j)
        BY <1>10, <4>2
      <4>3. ASSUME NEW u \in Requests, Spawning(u, j)
            PROVE  Early(j)' \/ Spawning(u, j)'
        <5>1. CASE u \in rs
          <6>1. j = l
            BY <1>11, <4>3, <5>1
          <6> QED
            BY <1>4, <4>3, <6>1 DEF Early
        <5>2. CASE u \notin rs
          BY <1>8, <4>3, <5>2
        <5> QED
          BY <5>1, <5>2
      <4> QED
        BY <3>2, <3>4, <4>1, <4>2, <4>3
    <3> QED
      BY <3>3, <3>4
  <2>3. Told'
    <3> SUFFICES ASSUME NEW u \in Transports, trs'[u].connected, trs'[u].child # 0, kids'[trs'[u].child].st = "gone"
                 PROVE  \E k \in Kids : kids'[k].of = u /\ Early(k)'
      BY DEF Told
    <3>1. u # t /\ trs'[u] = trs[u]
      BY <1>3
    <3>2. trs[u].child \in Kids /\ kids[trs[u].child].of = u
      BY <3>1, ChildIs
    <3>3. kids[trs[u].child].st = "gone"
      BY <1>4, <3>1, <3>2
    <3>4. PICK k \in Kids : kids[k].of = u /\ Early(k)
      BY <3>1, <3>3 DEF ServerInv, TimersInv, Told
    <3> QED
      BY <1>4, <1>10, <3>4
  <2> QED
    BY <2>1, <2>2, <2>3 DEF TimersInv, Timely
<1>13. ASSUME NEW s \in Requests, Asks(s)'
       PROVE  req'[s] = req[s] /\ Asks(s) /\ Id(s)' = Id(s) /\ s \notin rs /\ req[s].t \in Transports
  <2>1. s \notin rs
    BY <1>9, <1>13
  <2>2. Asks(s) /\ req'[s] = req[s] /\ Id(s)' = Id(s)
    BY <1>7, <1>8, <1>13, <2>1
  <2> QED
    BY <2>1, <2>2, RequestIs DEF Asks
<1>14. WaitsAreHeld'
  <2> SUFFICES ASSUME NEW s \in Requests, Asks(s)' PROVE (Held(s) \/ Abandoned(s))'
    BY DEF WaitsAreHeld
  <2>1. req'[s] = req[s] /\ Asks(s) /\ Id(s)' = Id(s) /\ s \notin rs /\ req[s].t \in Transports
    BY <1>13
  <2>2. Held(s) \/ Abandoned(s)
    BY <2>1 DEF ServerInv, WaitsAreHeld
  <2>3. CASE Held(s)
    <3>1. req[s].t # t
      BY <2>1, <2>3 DEF Held, Asking, Asks
    <3>2. \A k \in Kids : kids[k].of = req[s].t => kids'[k] = kids[k]
      BY <1>4, <3>1
    <3> QED
      BY <1>5, <2>1, <2>3, <3>1, <3>2 DEF Held
  <2>4. CASE Abandoned(s)
    <3>1. Id(s) \in pending'[req[s].t] => Id(s) \in pending[req[s].t]
      BY <1>5, <2>1
    <3>2. \A k \in Kids : /\ kids'[k].of = kids[k].of /\ kids'[k].killed = kids[k].killed
                          /\ (kids[k].st = "gone" /\ kids[k].early) => (kids'[k].st = "gone" /\ kids'[k].early)
                          /\ kids'[k].lost = kids[k].lost
      BY <1>4
    <3> QED
      BY <2>1, <2>4, <3>1, <3>2 DEF Abandoned
  <2> QED
    BY <2>2, <2>3, <2>4
<1>15. PendingInv'
  <2> SUFFICES ASSUME NEW u \in Transports, NEW id \in pending'[u]
               PROVE  \E s \in Requests : (id = Id(s) /\ req[s].t = u /\ Asks(s))'
    BY DEF PendingInv
  <2>1. u # t /\ id \in pending[u]
    BY <1>5
  <2>2. PICK s \in Requests : id = Id(s) /\ req[s].t = u /\ Asks(s)
    BY <2>1 DEF ServerInv, PendingInv
  <2>3. s \notin rs
    BY <1>6, <2>1, <2>2
  <2> QED
    BY <1>7, <1>8, <2>2, <2>3
<1> QED
  BY <1>7, <1>12, <1>14, <1>15 DEF ServerInv

(* The subprocess cannot be started: who started it is told.               *)
LEMMA SpawnFailsKeeps ==
  ASSUME ServerInv, NEW r \in Requests, SpawnFails(r)
  PROVE  ServerInv'
<1> DEFINE t == req[r].t
           l == req[r].kid
           x == [kids[l] EXCEPT !.st = "gone", !.early = TRUE]
<1>1. /\ Event /\ Waits(r, "c_spawn") /\ kids[l].st = "up"
      /\ SetConnected(t, FALSE) /\ pending' = [pending EXCEPT ![t] = {}] /\ Settle({r} \cup Asking(t), "fail")
      /\ UNCHANGED <<active, report, turn, raced, mixed, label>>
      /\ kids' = [kids EXCEPT ![l].st = "gone", ![l].early = TRUE]
  BY DEF SpawnFails
<1>2. l \in Kids /\ Spawning(r, l) /\ kids[l].of = t /\ kids[l] \in Kid /\ t \in Transports
  BY <1>1, RequestIs DEF ServerInv, ServerTypes, TimersInv, Timely, Spawning, Waits
<1>3. x \in Kid /\ x.of = kids[l].of /\ x.st = "gone" /\ x.killed = kids[l].killed /\ x.early /\ x.lost = kids[l].lost
  BY <1>2 DEF Kid
<1>4. kids' = [kids EXCEPT ![l] = x]
  BY <1>1, <1>2 DEF ServerInv, ServerTypes
<1> HIDE DEF x
<1>5. {r} \cup Asking(t) \in SUBSET Requests
  BY DEF Asking
<1>6. \A s \in {r} \cup Asking(t) : s \in Asking(t) \/ Spawning(s, l)
  BY <1>2
<1> HIDE DEF t, l
<1> QED
  BY <1>1, <1>2, <1>3, <1>4, <1>5, <1>6, ChildGoneKeeps

(* The subprocess exits.                                                   *)
LEMMA ChildExitsKeeps ==
  ASSUME ServerInv, NEW l \in Kids, ChildExits(l)
  PROVE  ServerInv'
<1> DEFINE t == kids[l].of
           told == \E r \in Requests : Waits(r, "c_spawn") /\ req[r].kid = l
           x == [kids[l] EXCEPT !.st = "gone", !.owed = {}, !.early = told]
<1>1. /\ Event /\ kids[l].st = "up"
      /\ SetConnected(t, FALSE) /\ pending' = [pending EXCEPT ![t] = {}] /\ Settle(Asking(t), "fail")
      /\ UNCHANGED <<active, report, turn, raced, mixed, label>>
  BY DEF ChildExits
<1>2. kids[l] \in Kid /\ t \in Transports /\ told \in BOOLEAN
  BY <1>1 DEF ServerInv, ServerTypes, KidsInv, Kid
<1>3. (\E s \in Requests : Spawning(s, l)) => told
  BY DEF Spawning
<1> HIDE DEF told
<1>4. x \in Kid /\ x.of = kids[l].of /\ x.st = "gone" /\ x.killed = kids[l].killed /\ x.early = told /\ x.lost = kids[l].lost
  BY <1>2 DEF Kid
<1>5. kids' = [kids EXCEPT ![l] = x]
  <2>1. kids' = [kids EXCEPT ![l].st = "gone", ![l].owed = {}, ![l].early = told]
    BY DEF ChildExits, told
  <2> QED
    BY <1>2, <2>1 DEF ServerInv, ServerTypes
<1> HIDE DEF x
<1>6. Asking(t) \in SUBSET Requests /\ Asking(t) \subseteq Asking(t)
  BY DEF Asking
<1> HIDE DEF t
<1>7. t = kids[l].of
  BY DEF t
<1> QED
  BY <1>1, <1>2, <1>3, <1>4, <1>5, <1>6, <1>7, ChildGoneKeeps

(* A line of a subprocess settles the one request that waits for it.       *)
LEMMA ChildAnswersKeeps ==
  ASSUME ServerInv, NEW l \in Kids, ChildAnswers(l)
  PROVE  ServerInv'
<1> DEFINE t == kids[l].of
<1>1. PICK id \in kids[l].owed, res \in {"ok", "fail"} : HandleStdoutChunk(l, id, res)
  BY DEF ChildAnswers
<1> DEFINE rs == {q \in Asking(t) : Id(q) = id}
           x == [kids[l] EXCEPT !.owed = kids[l].owed \ {id}]
<1>2. /\ Event /\ kids[l].st = "up" /\ Settle(rs, res)
      /\ kids' = [kids EXCEPT ![l].owed = @ \ {id}] /\ pending' = [pending EXCEPT ![t] = @ \ {id}]
      /\ UNCHANGED <<active, report, trs, turn, raced, mixed, label>>
  BY <1>1 DEF HandleStdoutChunk
<1>3. kids[l] \in Kid /\ t \in Transports
  BY <1>2 DEF ServerInv, ServerTypes, KidsInv, Kid
<1>4. /\ x \in Kid /\ x.of = t /\ x.st = "up" /\ x.killed = kids[l].killed /\ x.early = kids[l].early
      /\ x.lost = kids[l].lost
      /\ x.owed = kids[l].owed \ {id}
  BY <1>2, <1>3 DEF Kid
<1>5. kids' = [kids EXCEPT ![l] = x]
  BY <1>2, <1>3 DEF ServerInv, ServerTypes
<1> HIDE DEF x
<1>6. /\ kids' \in [Kids -> Kid] /\ kids'[l] = x /\ \A k \in Kids : k # l => kids'[k] = kids[k]
      /\ \A k \in Kids : /\ kids'[k].of = kids[k].of /\ kids'[k].st = kids[k].st
                         /\ kids'[k].killed = kids[k].killed /\ kids'[k].early = kids[k].early
                         /\ kids'[k].lost = kids[k].lost
  <2>1. kids' \in [Kids -> Kid] /\ kids'[l] = x /\ \A k \in Kids : k # l => kids'[k] = kids[k]
    BY <1>4, <1>5 DEF ServerInv, ServerTypes
  <2> QED
    BY <1>2, <1>4, <2>1
<1>7. /\ pending' \in [Transports -> SUBSET Ids] /\ pending'[t] = pending[t] \ {id}
      /\ \A u \in Transports : pending'[u] \subseteq pending[u]
      /\ \A u \in Transports : u # t => pending'[u] = pending[u]
  <2>1. pending \in [Transports -> SUBSET Ids]
    BY DEF ServerInv, ServerTypes
  <2> QED
    BY <1>2, <1>3, <2>1
<1>8. rs \in SUBSET Requests /\ \A s \in rs : Asks(s) /\ Busy(s) /\ req[s].t = t /\ Id(s) = id /\ req[s].at # "c_spawn"
  <2>1. \A s \in Asking(t) : s \in Requests /\ Asks(s) /\ Busy(s) /\ req[s].t = t /\ req[s].at # "c_spawn"
    BY <1>3, AskingIs
  <2> QED
    BY <2>1
<1>9. \A s \in Requests : (Asks(s) /\ Id(s) = id /\ req[s].t = t /\ id \in pending[t]) => s \in rs
  BY DEF Asking, Asks
<1> HIDE DEF rs, t
<1>10. /\ ServerTypes' /\ RequestsInv' /\ TransportsInv' /\ KidsInv'
       /\ NoChildLeftBehind' /\ Parted' /\ OnTarget'
       /\ \A s \in Requests : s \notin rs => req'[s] = req[s]
       /\ \A s \in rs : ~req'[s].wait /\ req'[s].at = req[s].at
  <2>1. res \in Results
    BY DEF Results
  <2>2. trs \in [Transports -> Transport]
    BY DEF ServerInv, ServerTypes
  <2> QED
    BY <1>2, <1>6, <1>7, <1>8, <2>1, <2>2, EventKeeps
<1>11. \A s \in Requests : s \notin rs => (Asks(s)' <=> Asks(s)) /\ Id(s)' = Id(s) /\ \A k \in Kids : Spawning(s, k)' <=> Spawning(s, k)
  BY <1>2, <1>10, AsksStays
<1>12. \A s \in rs : ~Asks(s)' /\ \A k \in Kids : ~Spawning(s, k)' /\ ~Spawning(s, k)
  BY <1>8, <1>10 DEF Asks, Spawning, Waits
<1>13. TimersInv'
  <2>1. \A s \in Requests : Waits(s, "c_spawn")' => req'[s].kid \in Kids
    BY <1>10 DEF ServerInv, TimersInv, Waits, Busy
  <2>2. \A s \in Requests, k \in Kids : Spawning(s, k)' <=> Spawning(s, k)
    BY <1>11, <1>12
  <2>3. \A s \in Requests, k \in Kids : Spawning(s, k) => req'[s] = req[s]
    BY <1>10, <1>12
  <2>4. \A k \in Kids : Early(k)' <=> Early(k)
    BY <1>6 DEF Early
  <2>5. Timely'
    BY <1>6, <2>2, <2>3, <2>4 DEF ServerInv, TimersInv, Timely
  <2>6. Told'
    <3>1. ASSUME NEW u \in Transports, trs[u].child # 0 PROVE trs[u].child \in Kids
      BY <3>1, ChildIs
    <3> QED
      BY <1>2, <1>6, <2>4, <3>1 DEF ServerInv, TimersInv, Told
  <2> QED
    BY <2>1, <2>5, <2>6 DEF TimersInv
<1>14. WaitsAreHeld'
  <2> SUFFICES ASSUME NEW s \in Requests, Asks(s)' PROVE (Held(s) \/ Abandoned(s))'
    BY DEF WaitsAreHeld
  <2>1. s \notin rs /\ req'[s] = req[s] /\ Asks(s) /\ Id(s)' = Id(s) /\ req[s].t \in Transports
    <3>1. s \notin rs
      BY <1>12
    <3>2. Asks(s) /\ req'[s] = req[s] /\ Id(s)' = Id(s)
      BY <1>10, <1>11, <3>1
    <3> QED
      BY <3>1, <3>2, RequestIs DEF Asks
  <2>2. CASE Held(s)
    <3>1. Id(s) # id \/ req[s].t # t
      BY <1>9, <2>1, <2>2 DEF Held
    <3>2. Id(s) \in pending'[req[s].t]
      BY <1>7, <2>1, <2>2, <3>1 DEF Held
    <3>3. PICK k \in Kids : kids[k].of = req[s].t /\ kids[k].st = "up" /\ Id(s) \in kids[k].owed
      BY <2>2 DEF Held
    <3>4. Id(s) \in kids'[k].owed
      BY <1>4, <1>6, <3>1, <3>3 DEF t
    <3> QED
      BY <1>6, <2>1, <3>2, <3>3, <3>4 DEF Held
  <2>3. CASE Abandoned(s)
    <3>1. Id(s) \in pending'[req[s].t] => Id(s) \in pending[req[s].t]
      BY <1>7, <2>1
    <3> QED
      BY <1>6, <2>1, <2>3, <3>1 DEF Abandoned
  <2>4. Held(s) \/ Abandoned(s)
    BY <2>1 DEF ServerInv, WaitsAreHeld
  <2> QED
    BY <2>2, <2>3, <2>4
<1>15. PendingInv'
  <2> SUFFICES ASSUME NEW u \in Transports, NEW d \in pending'[u]
               PROVE  \E s \in Requests : (d = Id(s) /\ req[s].t = u /\ Asks(s))'
    BY DEF PendingInv
  <2>1. d \in pending[u] /\ ~(u = t /\ d = id)
    BY <1>7
  <2>2. PICK s \in Requests : d = Id(s) /\ req[s].t = u /\ Asks(s)
    BY <2>1 DEF ServerInv, PendingInv
  <2>3. s \notin rs
    BY <1>8, <2>1, <2>2
  <2> QED
    BY <1>10, <1>11, <2>2, <2>3
<1> QED
  BY <1>10, <1>13, <1>14, <1>15 DEF ServerInv

(* A torn line: answers are lost, and nothing else changes.                *)
LEMMA LineSwallowedKeeps ==
  ASSUME ServerInv, NEW l \in Kids, LineSwallowed(l)
  PROVE  ServerInv'
<1>1. PICK ids \in SUBSET UNION {kids[j].owed : j \in {l} \cup Beside(l)} :
         kids' = [j \in Kids |-> [kids[j] EXCEPT !.owed = @ \ ids, !.lost = @ \cup (ids \cap kids[j].owed)]]
  BY DEF LineSwallowed
<1>2. Event /\ UNCHANGED <<active, report, trs, pending, req, turn, label, raced, mixed>>
  BY DEF LineSwallowed
<1>3. ASSUME NEW k \in Kids
      PROVE  /\ kids'[k] \in Kid /\ kids'[k].of = kids[k].of /\ kids'[k].st = kids[k].st
             /\ kids'[k].killed = kids[k].killed /\ kids'[k].early = kids[k].early
             /\ kids[k].lost \subseteq kids'[k].lost
             /\ kids[k].owed \subseteq kids'[k].owed \cup kids'[k].lost
  <2>1. kids[k] \in Kid
    BY DEF ServerInv, ServerTypes
  <2> QED
    BY <1>1, <2>1 DEF Kid
<1>4. kids' \in [Kids -> Kid]
  BY <1>1, <1>3
<1>5. ServerTypes' /\ RequestsInv' /\ TransportsInv' /\ KidsInv' /\ NoChildLeftBehind' /\ Parted' /\ OnTarget'
  <2>1. Settle({}, "ok")
    BY <1>2 DEF Settle, ServerInv, ServerTypes
  <2>2. "ok" \in Results
    BY DEF Results
  <2> QED
    BY <1>2, <1>3, <1>4, <2>1, <2>2, EventKeeps DEF ServerInv, ServerTypes
<1>6. \A s \in Requests : (Asks(s)' <=> Asks(s)) /\ Id(s)' = Id(s)
  BY <1>2 DEF Asks, Busy, Kind, Id
<1>7. TimersInv'
  <2>1. \A s \in Requests, k \in Kids : Spawning(s, k)' <=> Spawning(s, k)
    BY <1>2 DEF Spawning, Waits, Busy
  <2>2. \A k \in Kids : Early(k)' <=> Early(k)
    BY <1>3 DEF Early
  <2>3. Timely'
    BY <1>2, <1>3, <2>1, <2>2 DEF ServerInv, TimersInv, Timely
  <2>4. Told'
    <3>1. ASSUME NEW u \in Transports, trs[u].child # 0 PROVE trs[u].child \in Kids
      BY <3>1, ChildIs
    <3> QED
      BY <1>2, <1>3, <2>2, <3>1 DEF ServerInv, TimersInv, Told
  <2> QED
    BY <1>2, <2>3, <2>4 DEF ServerInv, TimersInv, Waits, Busy
<1>8. WaitsAreHeld'
  <2> SUFFICES ASSUME NEW s \in Requests, Asks(s) PROVE (Held(s) \/ Abandoned(s))'
    BY <1>6 DEF WaitsAreHeld
  <2>1. Id(s)' = Id(s) /\ req'[s] = req[s] /\ pending' = pending
    BY <1>2, <1>6
  <2>2. CASE Held(s)
    BY <1>3, <2>1, <2>2 DEF Held, Abandoned
  <2>3. CASE Abandoned(s)
    BY <1>3, <2>1, <2>3 DEF Abandoned
  <2> QED
    BY <2>2, <2>3 DEF ServerInv, WaitsAreHeld
<1>9. PendingInv'
  BY <1>2, <1>6 DEF ServerInv, PendingInv
<1> QED
  BY <1>5, <1>7, <1>8, <1>9 DEF ServerInv

(* The page is loaded again.                                               *)
LEMMA PageReloadedKeeps ==
  ASSUME ServerInv, PageReloaded
  PROVE  ServerInv'
<1>1. /\ UNCHANGED <<active, report, trs, kids, pending, req, turn, raced, mixed>>
      /\ label' = 0
  BY DEF PageReloaded
<1>2. ServerTypes' /\ RequestsInv' /\ TransportsInv' /\ KidsInv'
  BY <1>1 DEF ServerInv, ServerTypes, RequestsInv, TransportsInv, Connects, Switchers, KidsInv
<1>3. TimersInv' /\ PendingInv'
  BY <1>1 DEF ServerInv, TimersInv, Timely, Told, Early, Spawning, Waits, Busy, PendingInv, Asks, Id, Kind
<1>4. WaitsAreHeld' /\ NoChildLeftBehind' /\ Parted'
  BY <1>1 DEF ServerInv, WaitsAreHeld, Asks, Held, Abandoned, Id, Kind, Busy, NoChildLeftBehind, Parted
<1>5. OnTarget'
  BY <1>1 DEF ServerInv, OnTarget, Switchers, Connects, Busy
<1> QED
  BY <1>2, <1>3, <1>4, <1>5 DEF ServerInv

(* While the process lives.                                                *)
Alive == lives => ServerInv

(* The invariant is inductive.                                             *)
LEMMA NextServerInv == Alive /\ [Next]_vars => Alive'
<1> SUFFICES ASSUME Alive, [Next]_vars, lives' PROVE ServerInv'
  BY DEF Alive
<1>0. lives /\ ServerInv
  BY DEF Alive, Next, vars
<1>1. ASSUME NEW r \in Requests, Step(r) PROVE ServerInv'
  <2>1. CASE Connect(r)
    BY <1>0, <2>1, ConnectIs, ControlKeeps, SpawnKeeps DEF Connect
  <2>2. CASE Spawned(r) \/ ListTools(r) \/ CallTool(r)
    BY <1>0, <2>2, SpawnedKeeps, ListToolsKeeps, CallToolKeeps
  <2>3. CASE Initialized(r) \/ Connected(r)
    BY <1>0, <2>3, InitializedIs, ConnectedIs, ControlKeeps
  <2>4. CASE Listed(r) \/ Resolved(r)
    BY <1>0, <2>4, ListedIs, ControlKeeps
  <2>5. CASE Scan(r) \/ ScanConnects(r) \/ ScanAsked(r) \/ ScanEnds(r)
    BY <1>0, <2>5, ScanIs, ScanAskedIs, ScanEndsIs, ControlKeeps
  <2>6. CASE GrpcNegotiated(r) \/ MeshJoined(r) \/ Called(r)
    BY <1>0, <2>6, CalledIs, ControlKeeps
  <2>7. CASE SwitchTarget(r) \/ ReportStored(r)
    BY <1>0, <2>7, SwitchKeeps, ReportStoredKeeps
  <2>8. CASE ConnectScans(r) \/ ToolsAnswered(r) \/ ExecuteChecks(r) \/ ExecuteAnswers(r)
    BY <1>0, <2>8, HandlerIs, ControlKeeps
  <2> QED
    BY <1>1, <2>1, <2>2, <2>3, <2>4, <2>5, <2>6, <2>7, <2>8 DEF Step
<1>2. ASSUME NEW r \in Requests, NEW op \in {"scan", "health", "tools", "execute"}, ApiScan(r, op) \/ ApiTools(r, op)
      PROVE  ServerInv'
  BY <1>0, <1>2, ArrivalIs, ControlKeeps
<1>3. CASE UNCHANGED vars
  <2>1. req' = req /\ trs' = trs /\ kids' = kids /\ pending' = pending /\ active' = active /\ turn' = turn
        /\ report' = report /\ label' = label /\ raced' = raced /\ mixed' = mixed
    BY <1>3 DEF vars
  <2>2. ServerTypes' /\ RequestsInv' /\ TransportsInv' /\ KidsInv'
    BY <1>0, <2>1 DEF ServerInv, ServerTypes, RequestsInv, TransportsInv, Connects, Switchers, KidsInv
  <2>3. TimersInv' /\ PendingInv'
    BY <1>0, <2>1 DEF ServerInv, TimersInv, Timely, Told, Early, Spawning, Waits, Busy, PendingInv, Asks, Id, Kind
  <2>4. WaitsAreHeld' /\ NoChildLeftBehind' /\ Parted' /\ OnTarget'
    BY <1>0, <2>1 DEF ServerInv, WaitsAreHeld, Asks, Held, Abandoned, Id, Kind, Busy, NoChildLeftBehind, Parted,
                OnTarget, Switchers, Connects
  <2> QED
    BY <1>0, <2>2, <2>3, <2>4 DEF ServerInv
<1>4. CASE Serve
  BY <1>0, <1>1, <1>2, <1>4, ApiConnectKeeps, NetworkKeeps, SpawnSettlesKeeps, SpawnFailsKeeps, PageReloadedKeeps
     DEF Serve
<1>5. ASSUME NEW k \in Kids, ChildExits(k) \/ ChildAnswers(k) \/ LineSwallowed(k) PROVE ServerInv'
  BY <1>0, <1>5, ChildExitsKeeps, ChildAnswersKeeps, LineSwallowedKeeps
<1>6. ASSUME NEW k \in Kids PROVE ~BufferOverflows(k) /\ ~PipeBreaks(k)
  BY DEF BufferOverflows, PipeBreaks, ProcessEnds
<1> QED
  BY <1>3, <1>4, <1>5, <1>6 DEF Next

(* Once nobody is in the server, what it serves is of the active target.   *)
LEMMA InvIsClean == Alive => SwitchIsClean
BY SwitchersAre DEF Alive, ServerInv, SwitchIsClean, OnTarget, ReportIsOfTheTarget, LabelIsTheTarget

(* After any sequence of API requests, switches of target, torn lines and  *)
(* subprocess failures, of any number of transports, while the process     *)
(* lives: who waits for a subprocess is owed an answer that will be heard, *)
(* but for the three ways Abandoned names; no subprocess is left running   *)
(* unless starts raced; and the served report, and the target shown by a   *)
(* page that has connected since it was loaded, are the active ones unless *)
(* switches overlapped.                                                    *)
THEOREM SwitchLeavesNothing == Spec => []SwitchIsClean
<1>1. Init => Alive
  BY InitServerInv DEF Alive
<1>2. Alive /\ [Next]_vars => Alive'
  BY NextServerInv
<1>3. Alive => SwitchIsClean
  BY InvIsClean
<1> QED
  BY <1>1, <1>2, <1>3, PTL DEF Spec
=============================================================================
