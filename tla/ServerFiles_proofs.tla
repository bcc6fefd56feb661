------------------------ MODULE ServerFiles_proofs -------------------------
(***************************************************************************)
(* Proofs about the two files that a server writes: the revocation list,   *)
(* for any number of processes, tokens, operations, crashes and failing    *)
(* file-system calls, in every deployment in which at most one party edits *)
(* the file, and the audit log, for any number of entries, restarts and    *)
(* failed appends and one change of the file from outside.                 *)
(***************************************************************************)
EXTENDS RevocationList, AuditLog, SequenceTheorems, TLAPS

(* One process revokes, or the operator edits, or nobody does; and a file  *)
(* that is missing at first is used by one process alone.                  *)
SingleEditor(d) ==
    /\ \A p, q \in d.writers : p = q
    /\ d.operator => d.writers = {} /\ d.exists
    /\ ~d.exists => \A p, q \in d.procs : p = q

Creating == {"create", "fillEmpty", "now"}
Persisting == {"truncate", "fill", "restat"}

(* p may write the file now or later in this operation, or revoke.         *)
Editor(p) ==
    p \in deploy.procs /\ (p \in deploy.writers \/ (~deploy.exists /\ pc[p] \in Creating))

(* The file's modification time is the clock: no two writes share one.     *)
ClockInv ==
    /\ file.mtime = clock /\ clock > 0
    /\ file.state = "absent" => ~deploy.exists
    /\ \A p \in Procs :
         last[p] <= clock /\ seen[p] <= clock
         /\ atStart[p].file.mtime <= clock /\ atStart[p].faults <= faults

(* Where p is in its operation, and what that says about the file.         *)
PlaceOK(p) ==
    /\ pc[p] \in Creating => ~deploy.exists
    /\ pc[p] \in Creating \cup Persisting => p \in deploy.procs
    /\ pc[p] \in Persisting \/ op[p].kind = "revoke" => Editor(p) /\ p \in deploy.writers
    /\ op[p].kind = "revoke" => op[p].token \in Tokens
    /\ pc[p] = "create" => file.state = "absent"
    /\ pc[p] = "fillEmpty" => file.state = "torn"
    /\ pc[p] = "now" => file.state = "whole" /\ file.list = {}
    /\ pc[p] \in {"fillEmpty", "now"} => atStart[p].file.mtime < clock
    /\ pc[p] = "restat" => file.state = "whole" /\ file.list = mem[p]
    /\ pc[p] = "read" => last[p] < seen[p] /\ (Editor(p) => seen[p] = clock)
    /\ pc[p] # "idle" => verdict[p] = "none"

(* A cache that is as new as a whole file holds its list, and besides it   *)
(* only what p revoked itself.  A file that is newer than the cache holds  *)
(* what p is sure to have revoked.                                         *)
CacheOK(p) ==
    /\ (file.state = "whole" /\ file.mtime <= last[p]) =>
         file.list \subseteq mem[p] /\ mem[p] \subseteq file.list \cup own[p]
    /\ (file.state = "absent" \/ pc[p] \in {"fillEmpty", "now"}) =>
         mem[p] \subseteq own[p] /\ sure[p] = {}
    /\ sure[p] \subseteq mem[p] /\ (sure[p] # {} => Editor(p) /\ p \in deploy.writers)
    /\ (file.state = "whole" /\ file.mtime > last[p]) => sure[p] \subseteq file.list

(* The two promises, for one process.                                      *)
OwnHold(p) == verdict[p] = "admitted" => op[p].token \notin sure[p]
Follows(p) ==
    (/\ op[p].kind = "check" /\ verdict[p] # "none"
     /\ file.state = "whole" /\ file = atStart[p].file /\ faults = atStart[p].faults)
    => /\ op[p].token \in file.list => verdict[p] = "denied"
       /\ verdict[p] = "denied" => op[p].token \in file.list \cup own[p]

ProcInv(p) == PlaceOK(p) /\ CacheOK(p) /\ OwnHold(p) /\ Follows(p)

IInv == TypeOK /\ SingleEditor(deploy) /\ ClockInv /\ \A p \in Procs : ProcInv(p)
-----------------------------------------------------------------------------
LEMMA InitIInv ==
  ASSUME \A d \in Deployments : SingleEditor(d), Init
  PROVE  IInv
<1> USE RevocationAssumption
<1>1. TypeOK
  <2>1. file \in File /\ deploy \in Deployments
    BY DEF Init, File
  <2>2. Boot \in Ops
    BY DEF Boot, Ops
  <2>3. \A p \in Procs : atStart[p] = [file |-> file, faults |-> 0]
    BY DEF Init
  <2>4. atStart \in [Procs -> [file : File, faults : Nat]]
    BY <2>1 DEF Init
  <2> QED
    BY <2>1, <2>2, <2>4 DEF Init, TypeOK, Labels
<1>2. file.mtime = 1 /\ file.state \in {"absent", "whole"} /\ (file.state = "absent" => ~deploy.exists)
      /\ file.list = {}
  BY DEF Init
<1>3. ClockInv
  BY <1>2 DEF Init, ClockInv
<1>4. ASSUME NEW p \in Procs
      PROVE  ProcInv(p)
  <2>1. /\ pc[p] = "stat" /\ op[p].kind = "boot" /\ verdict[p] = "none" /\ last[p] = 0
        /\ mem[p] = {} /\ own[p] = {} /\ sure[p] = {}
    BY DEF Init, Boot
  <2> QED
    BY <1>2, <2>1 DEF ProcInv, PlaceOK, CacheOK, OwnHold, Follows, Creating, Persisting
<1> QED
  BY <1>1, <1>3, <1>4 DEF IInv, Init

(* Two editors are one, and the operator edits alone.                      *)
LEMMA EditorIsAlone ==
  ASSUME IInv, NEW p \in Procs, NEW q \in Procs, Editor(p), Editor(q)
  PROVE  p = q /\ ~deploy.operator
  BY DEF IInv, SingleEditor, Editor

(* A step in which only the process p moves and the file stays.            *)
OnlyMoves(p) ==
    /\ TypeOK'
    /\ UNCHANGED << deploy, file, clock >> /\ faults <= faults'
    /\ \A q \in Procs \ {p} :
         /\ mem'[q] = mem[q] /\ last'[q] = last[q] /\ pc'[q] = pc[q] /\ op'[q] = op[q]
         /\ seen'[q] = seen[q] /\ verdict'[q] = verdict[q] /\ own'[q] = own[q]
         /\ sure'[q] = sure[q] /\ atStart'[q] = atStart[q]
    /\ last'[p] <= clock /\ seen'[p] <= clock
    /\ atStart'[p].file.mtime <= clock /\ atStart'[p].faults <= faults'

LEMMA LocalStep ==
  ASSUME IInv, NEW p \in Procs, OnlyMoves(p), ProcInv(p)'
  PROVE  IInv'
<1> USE DEF OnlyMoves
<1>1. faults \in Nat /\ faults' \in Nat /\ \A q \in Procs : atStart[q].faults \in Nat
  BY DEF IInv, TypeOK
<1>2. ClockInv'
  <2>1. ASSUME NEW q \in Procs
        PROVE  /\ last'[q] <= clock /\ seen'[q] <= clock
               /\ atStart'[q].file.mtime <= clock /\ atStart'[q].faults <= faults'
    <3>1. CASE q = p
      BY <3>1
    <3>2. CASE q # p
      BY <1>1, <3>2 DEF IInv, ClockInv
    <3> QED
      BY <3>1, <3>2
  <2> QED
    BY <2>1 DEF IInv, ClockInv
<1>3. ASSUME NEW q \in Procs, q # p
      PROVE  ProcInv(q)'
  <2>1. PlaceOK(q)' /\ CacheOK(q)' /\ OwnHold(q)'
    BY <1>3 DEF IInv, ProcInv, PlaceOK, CacheOK, OwnHold, Editor
  <2>2. faults' = atStart[q].faults => faults = atStart[q].faults
    BY <1>1 DEF IInv, ClockInv
  <2>3. Follows(q)'
    BY <1>3, <2>2 DEF IInv, ProcInv, Follows
  <2> QED
    BY <2>1, <2>3 DEF ProcInv
<1> QED
  BY <1>2, <1>3 DEF IInv

(* A step that writes the file: only the writer's place changes.           *)
LEMMA WriteStep ==
  ASSUME IInv, TypeOK', NEW s \in {"torn", "whole"}, NEW l, Written(s, l),
         UNCHANGED << deploy, mem, last, op, seen, verdict, own, sure, atStart, faults >>,
         \A q \in Procs : Editor(q) => ProcInv(q)',
         \A q \in Procs : ~Editor(q) => pc'[q] = pc[q]
  PROVE  IInv'
<1>1. /\ clock \in Nat /\ clock' = clock + 1
      /\ file'.mtime = clock + 1 /\ file'.state = s /\ file'.list = l
  BY DEF IInv, TypeOK, Written
<1>2. \A q \in Procs : /\ last[q] \in Nat /\ seen[q] \in Nat /\ atStart[q].file.mtime \in Nat
                       /\ last[q] <= clock /\ seen[q] <= clock /\ atStart[q].file.mtime <= clock
  BY DEF IInv, TypeOK, ClockInv, File
<1>3. ClockInv'
  BY <1>1, <1>2 DEF IInv, ClockInv
<1>4. ASSUME NEW q \in Procs, ~Editor(q)
      PROVE  ProcInv(q)'
  <2>1. pc'[q] = pc[q] /\ PlaceOK(q) /\ CacheOK(q) /\ OwnHold(q)
    BY <1>4 DEF IInv, ProcInv
  <2>2. pc[q] \notin Creating \cup Persisting
    BY <1>4, <2>1 DEF PlaceOK, Editor
  <2>3. ~Editor(q)'
    BY <1>4, <2>1 DEF Editor
  <2>4. PlaceOK(q)'
    BY <1>4, <2>1, <2>2, <2>3 DEF PlaceOK, Creating, Persisting
  <2>5. sure[q] = {}
    BY <1>4, <2>1 DEF CacheOK
  <2>6. CacheOK(q)'
    BY <1>1, <1>2, <2>1, <2>2, <2>5 DEF CacheOK, Creating
  <2>7. file' # atStart[q].file
    BY <1>1, <1>2
  <2> QED
    BY <2>1, <2>4, <2>6, <2>7 DEF ProcInv, OwnHold, Follows
<1> QED
  BY <1>3, <1>4 DEF IInv

-----------------------------------------------------------------------------
(* What follows loadRevocationList, row by row.                            *)
LoadedRow(p, cache, failed) ==
    /\ mem' \in [Procs -> SUBSET Tokens] /\ own' \in [Procs -> SUBSET Tokens]
    /\ sure' \in [Procs -> SUBSET Tokens] /\ pc' \in [Procs -> Labels]
    /\ verdict' \in [Procs -> {"none", "admitted", "denied"}]
    /\ \A q \in Procs \ {p} :
         /\ mem'[q] = mem[q] /\ own'[q] = own[q] /\ sure'[q] = sure[q]
         /\ pc'[q] = pc[q] /\ verdict'[q] = verdict[q]
    /\ \/ /\ op[p].kind = "boot" /\ mem'[p] = cache /\ pc'[p] = "idle"
          /\ own'[p] = own[p] /\ sure'[p] = sure[p] /\ verdict'[p] = verdict[p]
       \/ /\ op[p].kind = "check" /\ mem'[p] = cache /\ pc'[p] = "idle"
          /\ own'[p] = own[p] /\ sure'[p] = sure[p]
          /\ verdict'[p] = IF op[p].token \in cache THEN "denied" ELSE "admitted"
       \/ /\ op[p].kind = "revoke" /\ mem'[p] = cache \cup {op[p].token}
          /\ pc'[p] = "truncate"
          /\ own'[p] = own[p] \cup {op[p].token} /\ verdict'[p] = verdict[p]
          /\ sure'[p] = IF failed THEN sure[p] ELSE sure[p] \cup {op[p].token}

LEMMA LoadedRows ==
  ASSUME IInv, NEW p \in Procs, NEW cache \in SUBSET Tokens, NEW failed \in BOOLEAN,
         Loaded(p, cache, failed)
  PROVE  LoadedRow(p, cache, failed)
<1> USE DEF LoadedRow
<1>1. /\ mem \in [Procs -> SUBSET Tokens] /\ own \in [Procs -> SUBSET Tokens]
      /\ sure \in [Procs -> SUBSET Tokens] /\ pc \in [Procs -> Labels]
      /\ verdict \in [Procs -> {"none", "admitted", "denied"}]
      /\ {"idle", "truncate"} \subseteq Labels
  BY DEF IInv, TypeOK, Labels
<1>2. CASE /\ op[p].kind = "boot" /\ mem' = [mem EXCEPT ![p] = cache]
           /\ Goto(p, "idle") /\ UNCHANGED << verdict, own, sure >>
  BY <1>1, <1>2 DEF Goto
<1>3. CASE /\ op[p].kind = "check" /\ mem' = [mem EXCEPT ![p] = cache]
           /\ verdict' = [verdict EXCEPT ![p] = IF op[p].token \in cache THEN "denied" ELSE "admitted"]
           /\ Goto(p, "idle") /\ UNCHANGED << own, sure >>
  BY <1>1, <1>3 DEF Goto
<1>4. CASE /\ op[p].kind = "revoke" /\ mem' = [mem EXCEPT ![p] = cache \cup {op[p].token}]
           /\ own' = [own EXCEPT ![p] = @ \cup {op[p].token}]
           /\ sure' = IF failed THEN sure ELSE [sure EXCEPT ![p] = @ \cup {op[p].token}]
           /\ Goto(p, "truncate") /\ UNCHANGED verdict
  <2>1. op[p].token \in Tokens
    BY <1>4 DEF IInv, ProcInv, PlaceOK
  <2> QED
    BY <1>1, <1>4, <2>1 DEF Goto
<1> QED
  BY <1>2, <1>3, <1>4 DEF Loaded

(* It keeps the invariant, for a cache that is as good as the time last    *)
(* that goes with it: this is what each way through loadRevocationList has *)
(* to show.                                                                *)
GoodCache(p, cache, time, failed) ==
    /\ (file.state = "whole" /\ file.mtime <= time) =>
         file.list \subseteq cache /\ cache \subseteq file.list \cup own[p]
    /\ file.state = "absent" => failed /\ cache \subseteq own[p]
    /\ sure[p] \subseteq cache
    /\ (file.state = "whole" /\ file.mtime > time) =>
         sure[p] \subseteq file.list /\ (failed \/ ~Editor(p))
    /\ (/\ file.state = "whole" /\ file = atStart[p].file
        /\ ~failed)
       => file.list \subseteq cache /\ cache \subseteq file.list \cup own[p]

(* The step from a place before or within loadRevocationList.              *)
Loads(p, cache, time, failed) ==
    /\ cache \in SUBSET Tokens /\ failed \in BOOLEAN /\ Loaded(p, cache, failed)
    /\ time \in Nat /\ last' = [last EXCEPT ![p] = time] /\ time <= clock
    /\ pc[p] # "idle"
    /\ seen' \in [Procs -> Nat] /\ seen'[p] <= clock
    /\ \A q \in Procs \ {p} : seen'[q] = seen[q]
    /\ faults' = IF failed THEN faults + 1 ELSE faults
    /\ GoodCache(p, cache, time, failed)
    /\ UNCHANGED << deploy, file, clock, op, atStart, crashes, ops >>

LEMMA AfterLoad ==
  ASSUME IInv, NEW p \in Procs, p \in deploy.procs, NEW cache, NEW time, NEW failed,
         Loads(p, cache, time, failed)
  PROVE  IInv'
<1> USE DEF Loads
<1>1. /\ last \in [Procs -> Nat] /\ faults \in Nat /\ clock \in Nat
      /\ atStart[p].faults \in Nat /\ atStart[p].file.mtime <= clock /\ atStart[p].faults <= faults
  BY DEF IInv, TypeOK, ClockInv
<1>2. /\ last'[p] = time /\ \A q \in Procs \ {p} : last'[q] = last[q]
      /\ last' \in [Procs -> Nat]
  BY <1>1
<1>3. LoadedRow(p, cache, failed)
  BY LoadedRows
<1>4. TypeOK'
  <2>1. faults' \in Nat
    BY <1>1
  <2> QED
    BY <1>3, <1>2, <2>1 DEF IInv, TypeOK, LoadedRow
<1>5. verdict[p] = "none" /\ PlaceOK(p) /\ CacheOK(p)
  BY DEF IInv, ProcInv, PlaceOK
<1>6. faults <= faults' /\ (failed => faults' # atStart[p].faults)
  BY <1>1
<1>7. OnlyMoves(p)
  BY <1>3, <1>1, <1>2, <1>4, <1>6 DEF OnlyMoves, LoadedRow
<1>8. CASE op[p].kind = "boot"
  <2>1. /\ mem'[p] = cache /\ pc'[p] = "idle" /\ own'[p] = own[p] /\ sure'[p] = sure[p]
        /\ verdict'[p] = "none" /\ op'[p].kind = "boot"
    BY <1>3, <1>5, <1>8 DEF LoadedRow
  <2>2. PlaceOK(p)' /\ OwnHold(p)' /\ Follows(p)'
    BY <2>1 DEF PlaceOK, OwnHold, Follows, Creating, Persisting
  <2>3. CacheOK(p)'
    BY <1>2, <1>5, <2>1 DEF CacheOK, GoodCache, Editor
  <2>4. ProcInv(p)'
    BY <2>2, <2>3 DEF ProcInv
  <2> QED
    BY <1>7, <2>4, LocalStep
<1>9. CASE op[p].kind = "check"
  <2>1. /\ mem'[p] = cache /\ pc'[p] = "idle" /\ own'[p] = own[p] /\ sure'[p] = sure[p]
        /\ verdict'[p] = IF op[p].token \in cache THEN "denied" ELSE "admitted"
        /\ op'[p] = op[p]
    BY <1>3, <1>9 DEF LoadedRow
  <2>2. PlaceOK(p)'
    BY <1>9, <2>1 DEF PlaceOK, Creating, Persisting
  <2>3. CacheOK(p)'
    BY <1>2, <1>5, <2>1 DEF CacheOK, GoodCache, Editor
  <2>4. OwnHold(p)'
    BY <2>1 DEF OwnHold, GoodCache
  <2>5. Follows(p)'
    BY <1>6, <2>1 DEF Follows, GoodCache
  <2>6. ProcInv(p)'
    BY <2>2, <2>3, <2>4, <2>5 DEF ProcInv
  <2> QED
    BY <1>7, <2>6, LocalStep
<1>10. CASE op[p].kind = "revoke"
  <2> DEFINE t == op[p].token
  <2>1. /\ mem'[p] = cache \cup {t} /\ pc'[p] = "truncate" /\ own'[p] = own[p] \cup {t}
        /\ sure'[p] = (IF failed THEN sure[p] ELSE sure[p] \cup {t})
        /\ verdict'[p] = "none" /\ op'[p] = op[p]
    BY <1>3, <1>5, <1>10 DEF LoadedRow
  <2>2. Editor(p) /\ p \in deploy.writers /\ t \in Tokens
    BY <1>5, <1>10 DEF PlaceOK
  <2> HIDE DEF t
  <2>3. PlaceOK(p)'
    BY <1>5, <1>10, <2>1, <2>2 DEF PlaceOK, Creating, Persisting, Editor
  <2>4. CacheOK(p)'
    <3>1. Editor(p)'
      BY <2>2 DEF Editor
    <3>2. sure'[p] \subseteq mem'[p]
      BY <2>1 DEF GoodCache
    <3>3. CASE file.state = "absent"
      BY <1>2, <1>5, <2>1, <2>2, <3>1, <3>2, <3>3 DEF CacheOK, GoodCache
    <3>4. CASE file.state # "absent"
      BY <1>2, <1>5, <2>1, <2>2, <3>1, <3>2, <3>4 DEF CacheOK, GoodCache
    <3> QED
      BY <3>3, <3>4
  <2>5. OwnHold(p)' /\ Follows(p)'
    BY <2>1 DEF OwnHold, Follows
  <2>6. ProcInv(p)'
    BY <2>3, <2>4, <2>5 DEF ProcInv
  <2> QED
    BY <1>7, <2>6, LocalStep
<1> QED
  BY <1>3, <1>8, <1>9, <1>10 DEF LoadedRow

-----------------------------------------------------------------------------
(* Facts about the state that every step of a process begins with.         *)
LEMMA Known ==
  ASSUME IInv, NEW p \in Procs
  PROVE  /\ ProcInv(p) /\ PlaceOK(p) /\ CacheOK(p) /\ ClockInv
         /\ clock \in Nat /\ faults \in Nat /\ file \in File /\ file.mtime \in Nat
         /\ file.mtime = clock /\ file.list \in SUBSET Tokens
         /\ mem \in [Procs -> SUBSET Tokens] /\ mem[p] \in SUBSET Tokens
         /\ last \in [Procs -> Nat] /\ seen \in [Procs -> Nat] /\ pc \in [Procs -> Labels]
         /\ op \in [Procs -> Ops] /\ verdict \in [Procs -> {"none", "admitted", "denied"}]
         /\ own \in [Procs -> SUBSET Tokens] /\ sure \in [Procs -> SUBSET Tokens]
         /\ ops \in [Procs -> Nat] /\ atStart \in [Procs -> [file : File, faults : Nat]]
         /\ crashes \in Nat /\ deploy \in Deployments
         /\ last[p] \in Nat /\ seen[p] \in Nat /\ last[p] <= clock /\ seen[p] <= clock
         /\ atStart[p].file.mtime <= clock /\ atStart[p].faults <= faults
  BY DEF IInv, TypeOK, ProcInv, ClockInv, File

(* A step in which p goes to a place and at most last changes.             *)
Moves(p, l, time, s) ==
    /\ l \in Labels /\ Goto(p, l)
    /\ time \in Nat /\ last' = [last EXCEPT ![p] = time] /\ time <= clock
    /\ s \in Nat /\ seen' = [seen EXCEPT ![p] = s] /\ s <= clock
    /\ faults' \in Nat /\ faults <= faults'
    /\ UNCHANGED << deploy, file, clock, mem, op, verdict, own, sure, atStart, crashes, ops >>
    /\ PlaceOK(p)' /\ CacheOK(p)'

LEMMA PlaceStep ==
  ASSUME IInv, NEW p \in Procs, NEW l, NEW time, NEW s, Moves(p, l, time, s)
  PROVE  IInv'
<1> USE DEF Moves
<1>1. /\ pc' \in [Procs -> Labels] /\ pc'[p] = l /\ \A q \in Procs \ {p} : pc'[q] = pc[q]
      /\ last' \in [Procs -> Nat] /\ last'[p] = time /\ \A q \in Procs \ {p} : last'[q] = last[q]
      /\ seen' \in [Procs -> Nat] /\ seen'[p] = s /\ \A q \in Procs \ {p} : seen'[q] = seen[q]
  BY Known DEF Goto
<1>2. TypeOK'
  BY <1>1 DEF IInv, TypeOK
<1>3. OnlyMoves(p)
  <2>1. atStart[p].faults \in Nat /\ atStart[p].faults <= faults /\ faults \in Nat
    BY Known DEF IInv, TypeOK
  <2>2. atStart'[p].faults <= faults'
    BY <2>1
  <2>3. atStart'[p].file.mtime <= clock
    BY Known
  <2> QED
    BY <1>1, <1>2, <2>2, <2>3 DEF OnlyMoves
<1>4. OwnHold(p)' /\ Follows(p)'
  <2>1. faults' = atStart[p].faults => faults = atStart[p].faults
    <3>1. atStart[p].faults \in Nat /\ atStart[p].faults <= faults /\ faults \in Nat
      BY Known DEF IInv, TypeOK
    <3> QED
      BY <3>1
  <2> QED
    BY <2>1 DEF IInv, ProcInv, OwnHold, Follows
<1>5. ProcInv(p)'
  BY <1>4 DEF ProcInv
<1> QED
  BY <1>3, <1>5, LocalStep

LEMMA StartStep ==
  ASSUME IInv, NEW p \in Procs, p \in deploy.procs, NEW t \in Tokens,
         Check(p, t) \/ Revoke(p, t)
  PROVE  IInv'
<1>1. PICK kind \in {"check", "revoke"} : Start(p, kind, t) /\ (kind = "revoke" => p \in deploy.writers)
  BY DEF Check, Revoke
<1> DEFINE o == [kind |-> kind, token |-> t]
           a == [file |-> file, faults |-> faults]
<1>2. o \in Ops /\ o.kind = kind /\ o.token = t /\ "stat" \in Labels
  BY DEF Ops, Labels
<1>3. a \in [file : File, faults : Nat] /\ a.file = file /\ a.faults = faults
  BY Known
<1>4. /\ pc[p] = "idle" /\ ops' = [ops EXCEPT ![p] = @ + 1] /\ op' = [op EXCEPT ![p] = o]
      /\ verdict' = [verdict EXCEPT ![p] = "none"] /\ atStart' = [atStart EXCEPT ![p] = a]
      /\ pc' = [pc EXCEPT ![p] = "stat"]
      /\ UNCHANGED << deploy, file, clock, mem, last, seen, own, sure, crashes, faults >>
  BY <1>1 DEF Start, Goto
<1> HIDE DEF o, a
<1>5. /\ op'[p] = o /\ verdict'[p] = "none" /\ atStart'[p] = a /\ pc'[p] = "stat"
      /\ \A q \in Procs \ {p} : /\ op'[q] = op[q] /\ verdict'[q] = verdict[q]
                                /\ atStart'[q] = atStart[q] /\ pc'[q] = pc[q]
  BY <1>4, Known
<1>6. TypeOK'
  BY <1>2, <1>3, <1>4 DEF IInv, TypeOK
<1>7. OnlyMoves(p)
  BY <1>3, <1>4, <1>5, <1>6, Known DEF OnlyMoves
<1>8. PlaceOK(p)'
  BY <1>1, <1>2, <1>4, <1>5 DEF PlaceOK, Creating, Persisting, Editor
<1>9. CacheOK(p)'
  <2>1. pc[p] \notin Creating
    BY <1>4 DEF Creating
  <2> QED
    BY <1>4, <1>5, Known DEF CacheOK, Editor
<1>10. ProcInv(p)'
  BY <1>5, <1>8, <1>9 DEF ProcInv, OwnHold, Follows
<1> QED
  BY <1>7, <1>10, LocalStep

(* existsSync and statSync.                                                *)
LEMMA StatStep ==
  ASSUME IInv, NEW p \in Procs, p \in deploy.procs, Stat(p)
  PROVE  IInv'
<1>1. /\ pc[p] = "stat" /\ seen' = [seen EXCEPT ![p] = file.mtime]
      /\ UNCHANGED << deploy, file, clock, last, op, atStart, crashes, faults, ops >>
  BY DEF Stat
<1>2. /\ seen' \in [Procs -> Nat] /\ seen'[p] = clock /\ last' = [last EXCEPT ![p] = last[p]]
      /\ \A q \in Procs \ {p} : seen'[q] = seen[q]
  BY <1>1, Known
<1>3. CASE file.state = "absent" /\ Goto(p, "create") /\ UNCHANGED << mem, verdict, own, sure >>
  <2>1. ~deploy.exists /\ pc'[p] = "create" /\ verdict[p] = "none" /\ "create" \in Labels
    BY <1>1, <1>3, Known DEF Goto, ClockInv, PlaceOK, Labels
  <2>2. PlaceOK(p)' /\ CacheOK(p)'
    BY <1>1, <1>3, <2>1, Known DEF PlaceOK, CacheOK, Creating, Persisting, Editor
  <2>3. last[p] \in Nat /\ last[p] <= clock /\ clock \in Nat /\ file.mtime = clock /\ faults \in Nat
    BY Known
  <2>4. faults <= faults /\ clock <= clock
    BY <2>3
  <2>5. Moves(p, "create", last[p], clock)
    BY <1>1, <1>2, <1>3, <2>1, <2>2, <2>3, <2>4 DEF Moves
  <2> QED
    BY <2>5, PlaceStep
<1>4. CASE file.state # "absent" /\ file.mtime > last[p]
           /\ Goto(p, "read") /\ UNCHANGED << mem, verdict, own, sure >>
  <2>1. pc'[p] = "read" /\ verdict[p] = "none" /\ "read" \in Labels
    BY <1>1, <1>4, Known DEF Goto, PlaceOK, Labels
  <2>2. PlaceOK(p)'
    BY <1>1, <1>2, <1>4, <2>1, Known DEF PlaceOK, Creating, Persisting, Editor
  <2>3. CacheOK(p)'
    BY <1>1, <1>4, <2>1, Known DEF CacheOK, Creating, Editor
  <2>4. last[p] \in Nat /\ last[p] <= clock /\ clock \in Nat /\ file.mtime = clock /\ faults \in Nat
    BY Known
  <2>5. faults <= faults /\ clock <= clock
    BY <2>4
  <2>6. Moves(p, "read", last[p], clock)
    BY <1>1, <1>2, <1>4, <2>1, <2>2, <2>3, <2>4, <2>5 DEF Moves
  <2> QED
    BY <2>6, PlaceStep
<1>5. CASE file.state # "absent" /\ file.mtime <= last[p] /\ Loaded(p, mem[p], FALSE)
  <2>1. GoodCache(p, mem[p], last[p], FALSE)
    BY <1>5, Known DEF GoodCache, CacheOK
  <2>2. mem[p] \in SUBSET Tokens /\ clock \in Nat /\ last[p] \in Nat /\ last[p] <= clock
    BY Known
  <2>3. seen'[p] <= clock
    BY <1>2, <2>2
  <2>4. Loads(p, mem[p], last[p], FALSE)
    BY <1>1, <1>2, <1>5, <2>1, <2>2, <2>3 DEF Loads
  <2> QED
    BY <2>4, AfterLoad
<1> QED
  BY <1>3, <1>4, <1>5 DEF Stat

(* readFileSync: the list as it is now, with the time it had at statSync.  *)
LEMMA ReadStep ==
  ASSUME IInv, NEW p \in Procs, p \in deploy.procs, Read(p)
  PROVE  IInv'
<1>1. /\ pc[p] = "read" /\ UNCHANGED << deploy, file, clock, op, seen, atStart, crashes, faults, ops >>
  BY DEF Read
<1>2. last[p] < seen[p] /\ (Editor(p) => seen[p] = clock) /\ verdict[p] = "none"
  BY <1>1, Known DEF PlaceOK
<1>3. CASE file.state = "whole" /\ Loaded(p, file.list, FALSE) /\ last' = [last EXCEPT ![p] = seen[p]]
  <2>1. sure[p] \subseteq file.list
    BY <1>2, <1>3, Known DEF CacheOK
  <2>2. Editor(p) => ~(file.mtime > seen[p])
    BY <1>2, Known
  <2>3. GoodCache(p, file.list, seen[p], FALSE)
    BY <1>3, <2>1, <2>2 DEF GoodCache
  <2>4. Loads(p, file.list, seen[p], FALSE)
    BY <1>1, <1>3, <2>3, Known DEF Loads
  <2> QED
    BY <2>4, AfterLoad
<1>4. CASE file.state = "torn" /\ Loaded(p, mem[p], FALSE) /\ UNCHANGED last
  <2>1. GoodCache(p, mem[p], last[p], FALSE)
    BY <1>4, Known DEF GoodCache, CacheOK
  <2>2. last' = [last EXCEPT ![p] = last[p]]
    BY <1>4, Known
  <2>3. Loads(p, mem[p], last[p], FALSE)
    BY <1>1, <1>4, <2>1, <2>2, Known DEF Loads
  <2> QED
    BY <2>3, AfterLoad
<1> QED
  BY <1>3, <1>4 DEF Read

(* A load that throws keeps the cache.                                     *)
LEMMA LoadFaultStep ==
  ASSUME IInv, NEW p \in Procs, p \in deploy.procs, LoadFault(p)
  PROVE  IInv'
<1>1. /\ pc[p] \in {"stat", "read", "create", "fillEmpty"} /\ faults' = faults + 1
      /\ Loaded(p, mem[p], TRUE)
      /\ UNCHANGED << deploy, file, clock, last, op, seen, atStart, crashes, ops >>
  BY DEF LoadFault
<1>2. last' = [last EXCEPT ![p] = last[p]]
  BY <1>1, Known
<1>3. GoodCache(p, mem[p], last[p], TRUE)
  BY Known DEF GoodCache, CacheOK
<1>4. Loads(p, mem[p], last[p], TRUE)
  BY <1>1, <1>2, <1>3, Known DEF Loads
<1> QED
  BY <1>4, AfterLoad

(* The missing file was created, empty, and nobody has written it since.   *)
LEMMA CreatedStep ==
  ASSUME IInv, NEW p \in Procs, p \in deploy.procs, Created(p)
  PROVE  IInv'
<1>1. /\ pc[p] = "now" /\ last' = [last EXCEPT ![p] = clock] /\ Loaded(p, mem[p], FALSE)
      /\ UNCHANGED << deploy, file, clock, op, seen, atStart, crashes, faults, ops >>
  BY DEF Created
<1>2. /\ file.state = "whole" /\ file.list = {} /\ mem[p] \subseteq own[p] /\ sure[p] = {}
  BY <1>1, Known DEF PlaceOK, CacheOK
<1>3. GoodCache(p, mem[p], clock, FALSE)
  BY <1>2, Known DEF GoodCache
<1>4. mem[p] \in SUBSET Tokens /\ clock \in Nat /\ seen \in [Procs -> Nat] /\ seen[p] <= clock
  BY Known
<1>5. clock <= clock
  BY <1>4
<1>6. Loads(p, mem[p], clock, FALSE)
  BY <1>1, <1>3, <1>4, <1>5 DEF Loads
<1> QED
  BY <1>6, AfterLoad

-----------------------------------------------------------------------------
(* The writes.  Whoever writes is the only editor.                         *)
LEMMA ProcessWrites ==
  ASSUME IInv, NEW p \in Procs, Editor(p), NEW s \in {"torn", "whole"}, NEW l \in SUBSET Tokens,
         NEW place \in Labels, Written(s, l), Goto(p, place),
         UNCHANGED << local, seen, crashes, faults, ops >>,
         PlaceOK(p)', CacheOK(p)'
  PROVE  IInv'
<1>1. /\ file' = [state |-> s, list |-> l, mtime |-> clock + 1] /\ clock' = clock + 1
      /\ clock \in Nat /\ pc' = [pc EXCEPT ![p] = place] /\ pc \in [Procs -> Labels]
  BY Known DEF Written, Goto
<1>2. file' \in File /\ clock' \in Nat /\ pc' \in [Procs -> Labels]
  BY <1>1 DEF File
<1>3. TypeOK'
  BY <1>2 DEF IInv, TypeOK, local
<1>4. \A q \in Procs : ~Editor(q) => pc'[q] = pc[q]
  BY <1>1
<1>5. atStart[p].file.mtime <= clock /\ atStart[p].file.mtime \in Nat
  BY Known DEF IInv, TypeOK, File
<1>6. file' # atStart[p].file
  BY <1>1, <1>5
<1>7. OwnHold(p)' /\ Follows(p)'
  BY <1>6, Known DEF ProcInv, OwnHold, Follows, local
<1>8. \A q \in Procs : Editor(q) => ProcInv(q)'
  BY <1>7, EditorIsAlone DEF ProcInv
<1> QED
  BY <1>3, <1>4, <1>8, WriteStep DEF local

LEMMA CreateStep ==
  ASSUME IInv, NEW p \in Procs, p \in deploy.procs, Create(p) \/ FillEmpty(p)
  PROVE  IInv'
<1>1. PICK s \in {"torn", "whole"}, place \in {"fillEmpty", "now"} :
        /\ Written(s, {}) /\ Goto(p, place) /\ pc[p] \in {"create", "fillEmpty"}
        /\ (place = "fillEmpty" <=> s = "torn")
        /\ UNCHANGED << local, seen, crashes, faults, ops >>
  BY DEF Create, FillEmpty
<1>2. /\ file'.state = s /\ file'.list = {} /\ file'.mtime = clock + 1 /\ clock' = clock + 1
      /\ clock \in Nat /\ pc'[p] = place /\ place \in Labels
  BY <1>1, Known DEF Written, Goto, Labels
<1>3. Editor(p) /\ ~deploy.exists /\ verdict[p] = "none"
  BY <1>1, Known DEF PlaceOK, Editor, Creating
<1>4. atStart[p].file.mtime \in Nat /\ atStart[p].file.mtime <= clock
      /\ last[p] \in Nat /\ last[p] <= clock
  BY Known DEF IInv, TypeOK, File
<1>5. UNCHANGED << deploy, mem, last, op, verdict, own, sure, atStart >>
  BY <1>1 DEF local
<1>6. atStart[p].file.mtime < clock' /\ ~(file'.mtime <= last[p])
  BY <1>2, <1>4
<1>7. PlaceOK(p)'
  <2>1. op[p].kind = "revoke" => p \in deploy.writers /\ op[p].token \in Tokens
    BY Known DEF PlaceOK
  <2> QED
    BY <1>1, <1>2, <1>3, <1>5, <1>6, <2>1 DEF PlaceOK, Creating, Persisting, Editor
<1>8. mem[p] \subseteq own[p] /\ sure[p] = {}
  <2>1. pc[p] = "create" => file.state = "absent"
    BY Known DEF PlaceOK
  <2> QED
    BY <1>1, <2>1, Known DEF CacheOK
<1>9. CacheOK(p)'
  BY <1>5, <1>6, <1>8 DEF CacheOK
<1> QED
  BY <1>1, <1>2, <1>3, <1>7, <1>9, ProcessWrites

LEMMA PersistStep ==
  ASSUME IInv, NEW p \in Procs, p \in deploy.procs, Truncate(p) \/ Fill(p)
  PROVE  IInv'
<1>1. PICK s \in {"torn", "whole"}, place \in {"fill", "restat"}, l \in SUBSET Tokens :
        /\ Written(s, l) /\ Goto(p, place) /\ pc[p] \in {"truncate", "fill"}
        /\ (place = "fill" => s = "torn") /\ (place = "restat" => s = "whole" /\ l = mem[p])
        /\ (s = "whole" => l = mem[p])
        /\ UNCHANGED << local, seen, crashes, faults, ops >>
  BY Known DEF Truncate, Fill
<1>2. /\ file'.state = s /\ file'.list = l /\ file'.mtime = clock + 1 /\ clock' = clock + 1
      /\ clock \in Nat /\ pc'[p] = place /\ place \in Labels
  BY <1>1, Known DEF Written, Goto, Labels
<1>3. Editor(p) /\ p \in deploy.writers /\ verdict[p] = "none"
  BY <1>1, Known DEF PlaceOK, Persisting
<1>4. UNCHANGED << deploy, mem, last, op, verdict, own, sure, atStart >>
  BY <1>1 DEF local
<1>5. PlaceOK(p)'
  <2>1. op[p].kind = "revoke" => op[p].token \in Tokens
    BY Known DEF PlaceOK
  <2> QED
    BY <1>1, <1>2, <1>3, <1>4, <2>1 DEF PlaceOK, Creating, Persisting, Editor
<1>6. sure[p] \subseteq mem[p]
  BY Known DEF CacheOK
<1>7. last[p] \in Nat /\ last[p] <= clock
  BY Known
<1>8. ~(file'.mtime <= last[p]) /\ file'.state # "absent" /\ pc'[p] \notin {"fillEmpty", "now"}
  BY <1>1, <1>2, <1>7
<1>9. Editor(p)' /\ (p \in deploy.writers)'
  BY <1>3, <1>4 DEF Editor
<1>10. CacheOK(p)'
  BY <1>1, <1>2, <1>4, <1>6, <1>8, <1>9 DEF CacheOK
<1> QED
  BY <1>1, <1>2, <1>3, <1>5, <1>10, ProcessWrites

(* The operator edits alone: no process is in a place that depends on it.  *)
LEMMA OperatorStep ==
  ASSUME IInv, NEW list \in SUBSET Tokens, OperatorWrites(list)
  PROVE  IInv'
<1>1. /\ Written("whole", list) /\ deploy.operator /\ deploy \in Deployments
      /\ UNCHANGED << deploy, mem, last, pc, op, seen, verdict, own, sure, atStart,
                      crashes, faults, ops >>
  BY DEF OperatorWrites, IInv, TypeOK
<1>2. TypeOK'
  <2>1. clock \in Nat
    BY DEF IInv, TypeOK
  <2>2. file' \in File /\ clock' \in Nat
    BY <1>1, <2>1 DEF Written, File
  <2> QED
    BY <1>1, <2>2 DEF IInv, TypeOK
<1>3. \A q \in Procs : ~Editor(q)
  <2>1. deploy.writers = {} /\ deploy.exists
    BY <1>1 DEF IInv, SingleEditor
  <2> QED
    BY <2>1 DEF Editor
<1> QED
  BY <1>1, <1>2, <1>3, WriteStep

(* statSync after the write: the cache is what was written.                *)
LEMMA RestatStep ==
  ASSUME IInv, NEW p \in Procs, p \in deploy.procs, Restat(p)
  PROVE  IInv'
<1>1. /\ pc[p] = "restat" /\ last' = [last EXCEPT ![p] = file.mtime] /\ Goto(p, "idle")
      /\ UNCHANGED << deploy, file, clock, mem, op, seen, verdict, own, sure, atStart,
                      crashes, faults, ops >>
  BY DEF Restat
<1>2. /\ file.state = "whole" /\ file.list = mem[p] /\ file.mtime = clock /\ clock \in Nat
      /\ faults \in Nat /\ seen \in [Procs -> Nat] /\ seen[p] <= clock /\ seen[p] \in Nat
  BY <1>1, Known DEF PlaceOK
<1>3. pc'[p] = "idle" /\ "idle" \in Labels /\ last'[p] = clock
  BY <1>1, <1>2, Known DEF Goto, Labels
<1>4. PlaceOK(p)'
  BY <1>1, <1>3, Known DEF PlaceOK, Creating, Persisting, Editor
<1>5. CacheOK(p)'
  <2>1. ~(clock > clock)
    BY <1>2
  <2>2. sure[p] \subseteq mem[p] /\ (sure[p] # {} => Editor(p) /\ p \in deploy.writers)
    BY Known DEF CacheOK
  <2>3. sure[p] # {} => Editor(p)' /\ p \in deploy'.writers
    BY <1>1, <2>2 DEF Editor
  <2> QED
    BY <1>1, <1>2, <1>3, <2>1, <2>2, <2>3 DEF CacheOK
<1>6. faults <= faults /\ clock <= clock
  BY <1>2
<1>7. seen' = [seen EXCEPT ![p] = seen[p]] /\ last' = [last EXCEPT ![p] = clock]
  BY <1>1, <1>2
<1>8. Moves(p, "idle", clock, seen[p])
  BY <1>1, <1>2, <1>3, <1>4, <1>5, <1>6, <1>7 DEF Moves
<1> QED
  BY <1>8, PlaceStep

(* Persisting has failed: the cache stays newer than its time says.        *)
LEMMA WriteFaultStep ==
  ASSUME IInv, NEW p \in Procs, p \in deploy.procs, WriteFault(p)
  PROVE  IInv'
<1>1. /\ pc[p] \in {"truncate", "fill", "restat"} /\ faults' = faults + 1 /\ Goto(p, "idle")
      /\ UNCHANGED << deploy, file, clock, mem, last, op, seen, verdict, own, sure, atStart,
                      crashes, ops >>
  BY DEF WriteFault, local
<1>2. /\ clock \in Nat /\ faults \in Nat /\ seen \in [Procs -> Nat] /\ last \in [Procs -> Nat]
      /\ seen[p] <= clock /\ seen[p] \in Nat /\ last[p] <= clock /\ last[p] \in Nat
  BY Known
<1>3. pc'[p] = "idle" /\ "idle" \in Labels
  BY <1>1, Known DEF Goto, Labels
<1>4. PlaceOK(p)'
  BY <1>1, <1>3, Known DEF PlaceOK, Creating, Persisting, Editor
<1>5. CacheOK(p)'
  BY <1>1, <1>3, Known DEF CacheOK, Editor
<1>6. faults' \in Nat /\ faults <= faults'
  BY <1>1, <1>2
<1>7. seen' = [seen EXCEPT ![p] = seen[p]] /\ last' = [last EXCEPT ![p] = last[p]]
  BY <1>1, <1>2
<1>8. Moves(p, "idle", last[p], seen[p])
  BY <1>1, <1>2, <1>3, <1>4, <1>5, <1>6, <1>7 DEF Moves
<1> QED
  BY <1>8, PlaceStep

(* A new process starts with nothing.                                      *)
LEMMA CrashStep ==
  ASSUME IInv, NEW p \in Procs, p \in deploy.procs, Crash(p)
  PROVE  IInv'
<1>1. /\ crashes' = crashes + 1 /\ mem' = [mem EXCEPT ![p] = {}] /\ own' = [own EXCEPT ![p] = {}]
      /\ sure' = [sure EXCEPT ![p] = {}] /\ last' = [last EXCEPT ![p] = 0]
      /\ op' = [op EXCEPT ![p] = Boot] /\ verdict' = [verdict EXCEPT ![p] = "none"]
      /\ pc' = [pc EXCEPT ![p] = "stat"]
      /\ UNCHANGED << deploy, file, clock, seen, atStart, faults, ops >>
  BY DEF Crash, Goto
<1>2. Boot \in Ops /\ Boot.kind = "boot" /\ "stat" \in Labels
  BY DEF Boot, Ops, Labels
<1>3. /\ mem'[p] = {} /\ own'[p] = {} /\ sure'[p] = {} /\ last'[p] = 0 /\ op'[p] = Boot
      /\ verdict'[p] = "none" /\ pc'[p] = "stat"
      /\ \A q \in Procs \ {p} :
           /\ mem'[q] = mem[q] /\ own'[q] = own[q] /\ sure'[q] = sure[q] /\ last'[q] = last[q]
           /\ op'[q] = op[q] /\ verdict'[q] = verdict[q] /\ pc'[q] = pc[q]
  BY <1>1, Known
<1>4. TypeOK'
  <2>1. crashes' \in Nat /\ mem' \in [Procs -> SUBSET Tokens] /\ own' \in [Procs -> SUBSET Tokens]
        /\ sure' \in [Procs -> SUBSET Tokens] /\ last' \in [Procs -> Nat]
    BY <1>1, Known
  <2>2. op' \in [Procs -> Ops] /\ pc' \in [Procs -> Labels]
        /\ verdict' \in [Procs -> {"none", "admitted", "denied"}]
    BY <1>1, <1>2, Known
  <2> QED
    BY <1>1, <2>1, <2>2 DEF IInv, TypeOK
<1>5. OnlyMoves(p)
  <2>1. faults <= faults /\ 0 <= clock
    BY Known
  <2> QED
    BY <1>1, <1>3, <1>4, <2>1, Known DEF OnlyMoves
<1>6. PlaceOK(p)' /\ OwnHold(p)' /\ Follows(p)'
  BY <1>2, <1>3 DEF PlaceOK, OwnHold, Follows, Creating, Persisting
<1>7. CacheOK(p)'
  <2>1. file.mtime = clock /\ clock \in Nat /\ clock > 0
    BY Known DEF ClockInv
  <2>2. ~(file.mtime <= 0)
    BY <2>1
  <2> QED
    BY <1>1, <1>3, <2>2 DEF CacheOK
<1> QED
  BY <1>5, <1>6, <1>7, LocalStep DEF ProcInv

LEMMA Stutter ==
  ASSUME IInv, UNCHANGED vars
  PROVE  IInv'
<1>1. UNCHANGED << deploy, file, clock, mem, last, pc, op, seen, verdict, own, sure, atStart,
                   crashes, faults, ops >>
  BY DEF vars
<1>2. TypeOK' /\ SingleEditor(deploy)' /\ ClockInv'
  BY <1>1 DEF IInv, TypeOK, SingleEditor, ClockInv
<1>3. \A p \in Procs : ProcInv(p)'
  BY <1>1 DEF IInv, ProcInv, PlaceOK, CacheOK, OwnHold, Follows, Editor
<1> QED
  BY <1>2, <1>3 DEF IInv

LEMMA NextIInv ==
  ASSUME IInv, [Next]_vars
  PROVE  IInv'
<1>1. CASE UNCHANGED vars
  BY <1>1, Stutter
<1>2. CASE \E list \in SUBSET Tokens : OperatorWrites(list)
  BY <1>2, OperatorStep
<1>3. ASSUME NEW p \in deploy.procs, NEW t \in Tokens, Check(p, t) \/ Revoke(p, t)
      PROVE  IInv'
  <2>1. p \in Procs
    BY RevocationAssumption DEF IInv, TypeOK
  <2> QED
    BY <1>3, <2>1, StartStep
<1>4. ASSUME NEW p \in deploy.procs,
             \/ Stat(p) \/ Read(p) \/ LoadFault(p)
             \/ Create(p) \/ FillEmpty(p) \/ Created(p)
             \/ Truncate(p) \/ Fill(p) \/ Restat(p) \/ WriteFault(p)
             \/ Crash(p)
      PROVE  IInv'
  <2>1. p \in Procs
    BY RevocationAssumption DEF IInv, TypeOK
  <2>2. CASE Stat(p) \/ Read(p) \/ LoadFault(p)
    BY <2>1, <2>2, StatStep, ReadStep, LoadFaultStep
  <2>3. CASE Create(p) \/ FillEmpty(p) \/ Created(p)
    BY <2>1, <2>3, CreateStep, CreatedStep
  <2>4. CASE Truncate(p) \/ Fill(p) \/ Restat(p)
    BY <2>1, <2>4, PersistStep, RestatStep
  <2>5. CASE WriteFault(p) \/ Crash(p)
    BY <2>1, <2>5, WriteFaultStep, CrashStep
  <2> QED
    BY <1>4, <2>2, <2>3, <2>4, <2>5
<1> QED
  BY <1>1, <1>2, <1>3, <1>4 DEF Next

(* ListIsHonoured: where at most one party edits the list, a server denies *)
(* every token it was sure to have revoked until it ends, and a check that *)
(* no write and no failing call crosses follows the file.                  *)
THEOREM ListIsHonouredHolds ==
  ASSUME \A d \in Deployments : SingleEditor(d)
  PROVE  Spec => []ListIsHonoured
<1>1. Init => IInv
  BY InitIInv
<1>2. IInv /\ [Next]_vars => IInv'
  BY NextIInv
<1>3. IInv => ListIsHonoured
  BY DEF IInv, ProcInv, OwnHold, Follows, ListIsHonoured, OwnRevocationsHold, FreshCheckFollowsFile
<1> QED
  BY <1>1, <1>2, <1>3, PTL DEF Spec
-----------------------------------------------------------------------------
(* The audit log.                                                          *)

(* A file loads unless a line of it is half written; then it never will.   *)
Parses(s) == \A k \in DOMAIN s : s[k].whole

(* Lines stand in the order of their sealing, and each one was sealed when *)
(* those before it were known.                                             *)
Ordered(s) ==
    /\ \A k \in DOMAIN s : s[k].id > 0
    /\ \A j, k \in DOMAIN s : j < k => s[j].id < s[k].id /\ s[j].id <= s[k].prev
LastId(s) == IF s = <<>> THEN GENESIS_HASH ELSE s[Len(s)].id

(* The chain in memory and the file each hold all that was returned, or do *)
(* not verify, whatever is added to them later.                            *)
Complete(s) == returned \subseteq Ids(s) \/ ~VerifyIntegrity(s)

(* What is known while nothing touched the file but the logger ...         *)
Untouched ==
    Parses(log) => Ordered(log) /\ returned \subseteq Ids(log) /\ (status = "up" => \A k \in DOMAIN log : log[k].id <= lastHash)

(* ... and no append failed either.                                        *)
Unfailed ==
    /\ status = "up" => VerifyIntegrity(entries) /\ lastHash = LastId(entries)
    /\ Parses(log) => VerifyIntegrity(log) /\ (status = "up" => lastHash = LastId(log))

AuditInv ==
    /\ AuditTypeOK /\ lastHash < nextId /\ \A k \in DOMAIN log : log[k].id < nextId
    /\ status = "up" => Complete(entries)
    /\ Parses(log) => Complete(log)
    /\ corruptions = 0 => Untouched
    /\ (corruptions = 0 /\ failedAppends = 0) => Unfailed

-----------------------------------------------------------------------------
Lines == Entry \cup {Torn}

LEMMA EntryIs ==
  /\ \A e \in Entry : e.id \in Nat /\ e.prev \in Nat /\ e.intact \in BOOLEAN /\ e.whole
  /\ \A e \in Lines : e.whole => e \in Entry
  /\ \A e \in Lines : e.id \in Nat /\ e.prev \in Nat /\ e.intact \in BOOLEAN
  /\ ~Torn.whole /\ Torn \in Lines
<1>1. ~Torn.whole /\ ~Torn.intact /\ Torn.id = 0 /\ Torn.prev = 0
  BY DEF Torn
<1>2. \A e \in Entry : e.id \in Nat /\ e.prev \in Nat /\ e.intact \in BOOLEAN /\ e.whole
  BY DEF Entry
<1>a. Torn.id \in Nat /\ Torn.prev \in Nat /\ Torn.intact \in BOOLEAN
  BY DEF Torn
<1>3. ASSUME NEW e \in Lines
      PROVE  (e.whole => e \in Entry) /\ e.id \in Nat /\ e.prev \in Nat /\ e.intact \in BOOLEAN
  <2>1. CASE e \in Entry
    BY <2>1, <1>2
  <2>2. CASE e = Torn
    BY <2>2, <1>1, <1>a, Zenon
  <2> QED
    BY <1>3, <2>1, <2>2 DEF Lines
<1> QED
  BY <1>1, <1>2, <1>3 DEF Lines

LEMMA SealedIs ==
  ASSUME NEW id \in Nat, NEW prev \in Nat
  PROVE  /\ Sealed(id, prev) \in Entry /\ Sealed(id, prev) \in Lines
         /\ Sealed(id, prev).id = id /\ Sealed(id, prev).prev = prev /\ Sealed(id, prev).intact /\ Sealed(id, prev).whole
  BY DEF Sealed, Entry, Lines

LEMMA Appending ==
  ASSUME NEW S, NEW s \in Seq(S), NEW e \in S
  PROVE  /\ Append(s, e) \in Seq(S) /\ Len(Append(s, e)) = Len(s) + 1
         /\ Append(s, e)[Len(s) + 1] = e
         /\ \A k \in DOMAIN s : k \in DOMAIN Append(s, e) /\ Append(s, e)[k] = s[k]
         /\ \A k \in DOMAIN Append(s, e) : Append(s, e)[k] \in {s[j] : j \in DOMAIN s} \cup {e}
         /\ \A k \in DOMAIN Append(s, e) : k \in DOMAIN s \/ k = Len(s) + 1
         /\ Len(s) + 1 \in DOMAIN Append(s, e) /\ Append(s, e) # <<>>
         /\ DOMAIN s = 1 .. Len(s) /\ Len(s) \in Nat
  OBVIOUS

(* What a line that is added does to a chain.                              *)
LEMMA Growing ==
  ASSUME NEW S \in SUBSET Lines, NEW s \in Seq(S), NEW e \in S
  PROVE  /\ Parses(Append(s, e)) <=> (Parses(s) /\ e.whole)
         /\ Ids(Append(s, e)) = Ids(s) \cup {e.id}
         /\ VerifyIntegrity(Append(s, e)) <=> (VerifyIntegrity(s) /\ e.prev = LastId(s) /\ e.intact)
         /\ LastId(Append(s, e)) = e.id
<1> DEFINE t == Append(s, e)
           n == Len(s) + 1
<1>1. /\ t \in Seq(S) /\ Len(t) = n /\ t[n] = e /\ t # <<>> /\ n \in DOMAIN t
      /\ \A k \in DOMAIN s : k \in DOMAIN t /\ t[k] = s[k]
      /\ \A k \in DOMAIN t : k \in DOMAIN s \/ k = n
      /\ DOMAIN s = 1 .. Len(s) /\ Len(s) \in Nat
  BY Appending
<1> HIDE DEF t
<1>2. Parses(t) <=> (Parses(s) /\ e.whole)
  BY <1>1 DEF Parses
<1>3. Ids(t) = Ids(s) \cup {e.id}
  BY <1>1 DEF Ids
<1>4. LastId(t) = e.id
  BY <1>1 DEF LastId
<1>5. VerifyIntegrity(t) <=> (VerifyIntegrity(s) /\ e.prev = LastId(s) /\ e.intact)
  <2>1. \A k \in DOMAIN s : k # n /\ (k # 1 => k - 1 \in DOMAIN s)
    BY <1>1
  <2>2. (n = 1 => s = <<>>) /\ (n # 1 => s # <<>> /\ Len(s) \in DOMAIN s /\ n - 1 = Len(s))
    BY <1>1
  <2>3. (t[n].prev = IF n = 1 THEN GENESIS_HASH ELSE t[n - 1].id) <=> e.prev = LastId(s)
    BY <1>1, <2>2 DEF LastId
  <2>4. \A k \in DOMAIN s : (t[k].prev = IF k = 1 THEN GENESIS_HASH ELSE t[k - 1].id)
                              <=> (s[k].prev = IF k = 1 THEN GENESIS_HASH ELSE s[k - 1].id)
    BY <1>1, <2>1
  <2>5. ASSUME VerifyIntegrity(t)
        PROVE  VerifyIntegrity(s) /\ e.prev = LastId(s) /\ e.intact
    BY <2>5, <1>1, <2>3, <2>4 DEF VerifyIntegrity
  <2>6. ASSUME VerifyIntegrity(s), e.prev = LastId(s), e.intact
        PROVE  VerifyIntegrity(t)
    <3>1. ASSUME NEW k \in DOMAIN t
          PROVE  (t[k].prev = IF k = 1 THEN GENESIS_HASH ELSE t[k - 1].id) /\ t[k].intact
      <4>1. CASE k = n
        BY <4>1, <2>6, <2>3, <1>1
      <4>2. CASE k \in DOMAIN s
        BY <4>2, <2>6, <2>4, <1>1 DEF VerifyIntegrity
      <4> QED
        BY <3>1, <4>1, <4>2, <1>1
    <3> QED
      BY <3>1 DEF VerifyIntegrity
  <2> QED
    BY <2>5, <2>6
<1> QED
  BY <1>2, <1>3, <1>4, <1>5 DEF t

LEMMA GrowingOrdered ==
  ASSUME NEW S \in SUBSET Lines, NEW s \in Seq(S), NEW e \in S, Ordered(s), e.id > 0,
         \A k \in DOMAIN s : s[k].id < e.id /\ s[k].id <= e.prev
  PROVE  Ordered(Append(s, e))
<1> DEFINE t == Append(s, e)
           n == Len(s) + 1
<1>1. /\ t[n] = e /\ \A k \in DOMAIN s : k \in DOMAIN t /\ t[k] = s[k] /\ k < n
      /\ \A k \in DOMAIN t : k \in DOMAIN s \/ k = n
  BY Appending
<1> HIDE DEF t, n
<1>2. \A k \in DOMAIN t : t[k].id > 0
  BY <1>1 DEF Ordered
<1>3. ASSUME NEW j \in DOMAIN t, NEW k \in DOMAIN t, j < k
      PROVE  t[j].id < t[k].id /\ t[j].id <= t[k].prev
  <2>1. j \in DOMAIN s \/ j = n
    BY <1>1
  <2>2. CASE k = n
    <3>1. j \in DOMAIN s
      BY <1>3, <2>1, <2>2 DEF n
    <3> QED
      BY <1>1, <2>2, <3>1
  <2>3. CASE k \in DOMAIN s
    <3>1. j # n
      BY <1>3, <1>1, <2>3 DEF n
    <3> QED
      BY <1>1, <1>3, <2>1, <2>3, <3>1 DEF Ordered
  <2> QED
    BY <1>1, <2>2, <2>3
<1> QED
  BY <1>2, <1>3 DEF Ordered, t

-----------------------------------------------------------------------------
(* The chain in memory grows, and what is returned with it.                *)
LEMMA InitAuditInv ==
  ASSUME AuditInit
  PROVE  AuditInv
<1>1. /\ entries = <<>> /\ log = <<>> /\ lastHash = 0 /\ nextId = 1 /\ returned = {} /\ status = "up"
      /\ restarts = 0 /\ failedAppends = 0 /\ corruptions = 0
  BY DEF AuditInit, GENESIS_HASH
<1>2. AuditTypeOK
  <2>1. <<>> \in Seq(Entry) /\ <<>> \in Seq(Entry \cup {Torn})
    OBVIOUS
  <2> QED
    BY <1>1, <2>1, AuditAssumption DEF AuditTypeOK
<1>3. VerifyIntegrity(<<>>) /\ LastId(<<>>) = 0 /\ Ordered(<<>>)
  BY DEF VerifyIntegrity, LastId, Ordered, GENESIS_HASH
<1> QED
  BY <1>1, <1>2, <1>3 DEF AuditInv, Complete, Untouched, Unfailed

LEMMA States ==
  ASSUME AuditInv
  PROVE  /\ entries \in Seq(Entry) /\ log \in Seq(Lines) /\ lastHash \in Nat /\ nextId \in Nat
         /\ nextId \in 1 .. MaxEntries + 1 /\ MaxEntries \in Nat /\ lastHash < nextId
         /\ corruptions \in Nat /\ failedAppends \in Nat
         /\ Entry \in SUBSET Lines
         /\ \A k \in DOMAIN log : log[k].id < nextId
  BY AuditAssumption DEF AuditInv, AuditTypeOK, Lines

(* The file after an append of a line, whole or not.                       *)
LEMMA FileGrows ==
  ASSUME NEW e \in Lines, log \in Seq(Lines)
  PROVE  /\ Appended(e) \in Seq(Lines)
         /\ Parses(Appended(e)) => Parses(log) /\ e.whole /\ Appended(e) = Append(log, e)
<1>1. CASE log # <<>> /\ ~Last(log).whole
  <2>1. Appended(e) = log /\ Len(log) \in DOMAIN log /\ ~log[Len(log)].whole
    BY <1>1 DEF Appended, Last
  <2> QED
    BY <2>1 DEF Parses
<1>2. CASE ~(log # <<>> /\ ~Last(log).whole)
  <2>1. Appended(e) = Append(log, e)
    BY <1>2 DEF Appended
  <2> QED
    BY <2>1, Growing, Appending
<1> QED
  BY <1>1, <1>2

(* A sealed entry goes to the chain; the file may get it.                  *)
LEMMA SealingKeeps ==
  ASSUME AuditInv, status = "up", Seal, UNCHANGED <<status, restarts, corruptions>>,
         failedAppends' \in 0 .. MaxFailedAppends,
         \/ log' = Appended(Sealed(nextId, lastHash)) /\ returned' = returned \cup {nextId} /\ UNCHANGED failedAppends
         \/ log' = log /\ UNCHANGED returned /\ failedAppends' = failedAppends + 1
         \/ log' = Appended(Torn) /\ UNCHANGED returned /\ failedAppends' = failedAppends + 1
  PROVE  AuditInv'
<1> DEFINE e == Sealed(nextId, lastHash)
<1>0. /\ entries \in Seq(Entry) /\ log \in Seq(Lines) /\ lastHash \in Nat /\ nextId \in Nat
      /\ nextId \in 1 .. MaxEntries + 1 /\ MaxEntries \in Nat /\ lastHash < nextId
      /\ failedAppends \in Nat /\ Entry \in SUBSET Lines
  BY States
<1>1. nextId <= MaxEntries /\ entries' = Append(entries, e) /\ lastHash' = nextId /\ nextId' = nextId + 1
  BY DEF Seal
<1>2. /\ e \in Entry /\ e \in Lines /\ e.id = nextId /\ e.prev = lastHash /\ e.intact /\ e.whole
  BY <1>0, SealedIs
<1> HIDE DEF e
<1>3. /\ entries' \in Seq(Entry) /\ Ids(entries') = Ids(entries) \cup {nextId} /\ LastId(entries') = nextId
      /\ VerifyIntegrity(entries') <=> (VerifyIntegrity(entries) /\ lastHash = LastId(entries))
  BY <1>0, <1>1, <1>2, Growing, Appending
<1>4. log' \in Seq(Lines) /\ Torn \in Lines /\ ~Torn.whole
  BY <1>0, <1>2, EntryIs, FileGrows DEF e
<1>5. Parses(log') => /\ Parses(log)
                     /\ \/ log' = Append(log, e) /\ returned' = returned \cup {nextId} /\ UNCHANGED failedAppends
                        \/ log' = log /\ UNCHANGED returned /\ failedAppends' = failedAppends + 1
  BY <1>0, <1>2, <1>4, FileGrows DEF e
<1>6. AuditTypeOK'
  <2>1. lastHash' \in Nat /\ nextId' \in 1 .. MaxEntries + 1
    BY <1>0, <1>1
  <2>2. returned' \subseteq 1 .. MaxEntries
    <3>1. returned \subseteq 1 .. MaxEntries /\ nextId \in 1 .. MaxEntries
      BY <1>0, <1>1 DEF AuditInv, AuditTypeOK
    <3> QED
      BY <3>1
  <2> QED
    BY <1>3, <1>4, <2>1, <2>2 DEF AuditInv, AuditTypeOK, Lines
<1>8. Complete(entries)' /\ (Parses(log') => Complete(log)')
  <2>1. Complete(entries)'
    BY <1>3 DEF AuditInv, Complete
  <2>2. ASSUME Parses(log')
        PROVE  Complete(log)'
    <3>1. CASE log' = Append(log, e) /\ returned' = returned \cup {nextId}
      <4>1. Ids(log') = Ids(log) \cup {nextId} /\ (VerifyIntegrity(log') => VerifyIntegrity(log))
        BY <1>0, <1>2, <3>1, Growing
      <4> QED
        BY <1>5, <2>2, <3>1, <4>1 DEF AuditInv, Complete
    <3>2. CASE log' = log /\ UNCHANGED returned
      BY <1>5, <2>2, <3>2 DEF AuditInv, Complete
    <3> QED
      BY <1>5, <2>2, <3>1, <3>2
  <2> QED
    BY <2>1, <2>2
<1>7. \A k \in DOMAIN log' : log'[k].id < nextId' /\ log'[k].id <= lastHash'
  <2>0. Torn.id = 0 /\ \A j \in DOMAIN log : log[j].id < nextId
    BY States DEF Torn
  <2>1. \A l \in Lines : (l.id < nextId \/ l = e \/ l = Torn) => l.id < nextId' /\ l.id <= lastHash'
    BY <1>0, <1>1, <1>2, <2>0, EntryIs
  <2>2. \A k \in DOMAIN log' : log'[k] \in Lines /\ log'[k] \in {log[j] : j \in DOMAIN log} \cup {e, Torn}
    <3>1. log \in Seq(Lines) /\ e \in Lines /\ Torn \in Lines
      BY <1>0, <1>2, <1>4
    <3>2. log' = log \/ log' = Append(log, e) \/ log' = Append(log, Torn)
      BY <1>0 DEF Appended, e
    <3> HIDE DEF e
    <3>3. CASE log' = log
      BY <3>1, <3>3
    <3>4. CASE log' = Append(log, e)
      BY <3>1, <3>4, Appending
    <3>5. CASE log' = Append(log, Torn)
      BY <3>1, <3>5, Appending
    <3> QED
      BY <3>2, <3>3, <3>4, <3>5
  <2> QED
    BY <2>0, <2>1, <2>2
<1>9. ASSUME corruptions = 0, Parses(log')
      PROVE  Ordered(log') /\ returned' \subseteq Ids(log')
  <2>0. /\ Ordered(log) /\ Parses(log) /\ returned \subseteq Ids(log)
        /\ \A k \in DOMAIN log : log[k].id < nextId /\ log[k].id <= lastHash /\ log[k].id \in Nat
    BY <1>0, <1>5, <1>9, EntryIs DEF AuditInv, Untouched
  <2>1. CASE log' = Append(log, e)
    <3>0. /\ log \in Seq(Lines) /\ e \in Lines /\ e.id > 0
          /\ \A k \in DOMAIN log : log[k].id < e.id /\ log[k].id <= e.prev
      BY <1>0, <1>2, <2>0
    <3>1. Ordered(log')
      BY <2>0, <2>1, <3>0, GrowingOrdered
    <3>2. Ids(log') = Ids(log) \cup {nextId} /\ returned' \subseteq returned \cup {nextId}
      BY <1>0, <1>2, <2>1, Growing
    <3> QED
      BY <2>0, <3>1, <3>2
  <2>2. CASE log' = log /\ UNCHANGED returned
    BY <2>0, <2>2
  <2> QED
    BY <1>5, <1>9, <2>1, <2>2
<1>10. (corruptions = 0 /\ failedAppends' = 0) => Unfailed'
  <2>1. ASSUME corruptions = 0, failedAppends' = 0
        PROVE  /\ VerifyIntegrity(entries') /\ lastHash' = LastId(entries')
               /\ Parses(log') => VerifyIntegrity(log') /\ lastHash' = LastId(log')
    <3>1. failedAppends = 0 /\ Unfailed
      BY <1>0, <2>1 DEF AuditInv
    <3>2. VerifyIntegrity(entries') /\ lastHash' = LastId(entries')
      BY <1>1, <1>3, <3>1 DEF Unfailed
    <3>3. ASSUME Parses(log')
          PROVE  VerifyIntegrity(log') /\ lastHash' = LastId(log')
      <4>1. log' = Append(log, e) /\ Parses(log)
        BY <1>0, <1>5, <2>1, <3>1, <3>3
      <4> QED
        BY <1>0, <1>1, <1>2, <3>1, <4>1, Growing DEF Unfailed
    <3> QED
      BY <3>2, <3>3
  <2> QED
    BY <2>1 DEF Unfailed
<1>11. lastHash' < nextId'
  BY <1>0, <1>1
<1> QED
  BY <1>6, <1>8, <1>7, <1>9, <1>10, <1>11 DEF AuditInv, Untouched

(* The process ends, perhaps in the middle of a line.                      *)
LEMMA DieKeeps ==
  ASSUME AuditInv, Die
  PROVE  AuditInv'
<1>1. /\ status' = "down" /\ entries' = <<>> /\ lastHash' = 0 /\ (log' = log \/ log' = Appended(Torn))
      /\ UNCHANGED <<nextId, returned, failedAppends, corruptions>> /\ restarts' \in 0 .. MaxRestarts
  BY AuditAssumption DEF Die, GENESIS_HASH, AuditInv, AuditTypeOK
<1>2. log' \in Seq(Lines) /\ (Parses(log') => log' = log)
  BY <1>1, States, EntryIs, FileGrows
<1>3. AuditTypeOK'
  <2>1. <<>> \in Seq(Entry) /\ 0 \in Nat
    OBVIOUS
  <2> QED
    BY <1>1, <1>2, <2>1 DEF AuditInv, AuditTypeOK, Lines
<1>4. lastHash' < nextId' /\ \A k \in DOMAIN log' : log'[k].id < nextId'
  <2>1. \A k \in DOMAIN log' : log'[k] \in {log[j] : j \in DOMAIN log} \cup {Torn}
    <3>1. log \in Seq(Lines) /\ Torn \in Lines
      BY States, EntryIs
    <3>2. \A k \in DOMAIN Append(log, Torn) : Append(log, Torn)[k] \in {log[j] : j \in DOMAIN log} \cup {Torn}
      BY <3>1, Appending
    <3>3. log' = log \/ log' = Append(log, Torn)
      BY <1>1 DEF Appended
    <3> QED
      BY <3>2, <3>3
  <2>2. Torn.id = 0
    BY DEF Torn
  <2> QED
    BY <1>1, <2>1, <2>2, States
<1> QED
  BY <1>1, <1>2, <1>3, <1>4 DEF AuditInv, Untouched, Unfailed, Complete

(* A new process loads the file or fails.                                  *)
LEMMA LoadKeeps ==
  ASSUME AuditInv, LoadFromFile
  PROVE  AuditInv'
<1>0. /\ log \in Seq(Lines) /\ entries \in Seq(Entry) /\ nextId \in Nat /\ lastHash \in Nat /\ lastHash < nextId
      /\ status = "down" /\ UNCHANGED <<log, nextId, returned, restarts, failedAppends, corruptions>>
  BY States DEF LoadFromFile
<1>1. CASE Parses(log)
  <2>1. status' = "up" /\ entries' = log /\ lastHash' = LastId(log)
    BY <1>1, Zenon DEF LoadFromFile, Parses, LastId, Last
  <2>2. log \in Seq(Entry) /\ \A k \in DOMAIN log : log[k].id \in Nat
    <3>1. \A k \in 1 .. Len(log) : log[k] \in Entry
      BY <1>0, <1>1, EntryIs DEF Parses
    <3> QED
      BY <1>0, <3>1, EntryIs
  <2>3. LastId(log) \in Nat
    BY <2>2 DEF LastId, GENESIS_HASH
  <2>4. AuditTypeOK'
    BY <1>0, <2>1, <2>2, <2>3 DEF AuditInv, AuditTypeOK
  <2>5. corruptions = 0 => Ordered(log) /\ \A k \in DOMAIN log : log[k].id <= LastId(log)
    <3>1. ASSUME corruptions = 0, NEW k \in DOMAIN log
          PROVE  log[k].id <= LastId(log)
      <4>1. Ordered(log) /\ LastId(log) = log[Len(log)].id /\ Len(log) \in DOMAIN log /\ k \in 1 .. Len(log)
        BY <1>0, <1>1, <3>1 DEF AuditInv, Untouched, LastId
      <4> QED
        BY <2>2, <4>1 DEF Ordered
    <3> QED
      BY <1>1, <3>1 DEF AuditInv, Untouched
  <2>6. LastId(log) < nextId
    BY <1>0, States DEF LastId, GENESIS_HASH
  <2> QED
    BY <1>0, <1>1, <2>1, <2>4, <2>5, <2>6 DEF AuditInv, Complete, Untouched, Unfailed
<1>2. CASE ~Parses(log)
  <2>1. status' = "failed" /\ UNCHANGED <<entries, lastHash>>
    BY <1>2 DEF LoadFromFile, Parses
  <2>2. AuditTypeOK'
    BY <1>0, <2>1 DEF AuditInv, AuditTypeOK
  <2> QED
    BY <1>0, <1>2, <2>1, <2>2 DEF AuditInv, Complete, Untouched, Unfailed
<1> QED
  BY <1>1, <1>2

-----------------------------------------------------------------------------
(* Changes from outside.                                                   *)
LEMMA Removing ==
  ASSUME NEW S, NEW s \in Seq(S), NEW k \in DOMAIN s
  PROVE  /\ RemoveAt(s, k) \in Seq(S) /\ Len(RemoveAt(s, k)) = Len(s) - 1
         /\ \A i \in DOMAIN RemoveAt(s, k) :
              /\ i \in DOMAIN s /\ i + 1 \in DOMAIN s
              /\ RemoveAt(s, k)[i] = IF i < k THEN s[i] ELSE s[i + 1]
<1> DEFINE a == SubSeq(s, 1, k - 1)
           b == SubSeq(s, k + 1, Len(s))
<1>1. /\ k \in Nat /\ k >= 1 /\ k <= Len(s) /\ Len(s) \in Nat /\ DOMAIN s = 1 .. Len(s)
      /\ \A i \in DOMAIN s : s[i] \in S
  OBVIOUS
<1>2. a \in Seq(S) /\ Len(a) = k - 1 /\ \A i \in 1 .. k - 1 : a[i] = s[i]
  BY <1>1, SubSeqProperties
<1>3. b \in Seq(S) /\ Len(b) = Len(s) - k /\ \A i \in 1 .. Len(s) - k : b[i] = s[i + k]
  BY <1>1, SubSeqProperties
<1>4. RemoveAt(s, k) = a \o b
  BY DEF RemoveAt
<1> HIDE DEF a, b
<1>5. /\ a \o b \in Seq(S) /\ Len(a \o b) = Len(a) + Len(b)
      /\ \A i \in 1 .. Len(a) + Len(b) : (a \o b)[i] = IF i <= Len(a) THEN a[i] ELSE b[i - Len(a)]
  BY <1>2, <1>3, ConcatProperties
<1>6. ASSUME NEW i \in 1 .. Len(s) - 1
      PROVE  (a \o b)[i] = IF i < k THEN s[i] ELSE s[i + 1]
  <2>1. CASE i < k
    BY <1>1, <1>2, <1>3, <1>5, <1>6, <2>1
  <2>2. CASE ~(i < k)
    <3>1. i - (k - 1) \in 1 .. Len(s) - k /\ (i - (k - 1)) + k = i + 1 /\ ~(i <= k - 1)
      BY <1>1, <1>6, <2>2
    <3>2. i \in 1 .. Len(a) + Len(b) /\ ~(i <= Len(a)) /\ i - Len(a) = i - (k - 1)
      BY <1>1, <1>2, <1>3, <1>6, <3>1
    <3>3. (a \o b)[i] = b[i - (k - 1)]
      BY <1>5, <3>2
    <3> QED
      BY <1>3, <2>2, <3>1, <3>3
  <2> QED
    BY <2>1, <2>2
<1>7. Len(a) + Len(b) = Len(s) - 1 /\ DOMAIN (a \o b) = 1 .. Len(s) - 1
  <2> DEFINE c == a \o b
  <2>1. Len(a) + Len(b) = Len(s) - 1
    BY <1>1, <1>2, <1>3
  <2>2. c \in Seq(S) /\ Len(c) = Len(s) - 1
    BY <1>5, <2>1
  <2> HIDE DEF c
  <2>3. DOMAIN c = 1 .. Len(s) - 1
    BY <2>2
  <2> QED
    BY <2>1, <2>3 DEF c
<1>8. \A i \in 1 .. Len(s) - 1 : i \in DOMAIN s /\ i + 1 \in DOMAIN s
  BY <1>1
<1> QED
  BY <1>4, <1>5, <1>6, <1>7, <1>8

LEMMA CorruptKeeps ==
  ASSUME AuditInv, MaxCorruptions <= 1, Corrupt
  PROVE  AuditInv'
<1>0. /\ log \in Seq(Lines) /\ corruptions = 0 /\ corruptions' = 1 /\ corruptions' \in 0 .. MaxCorruptions
      /\ UNCHANGED <<status, entries, lastHash, nextId, returned, restarts, failedAppends>>
      /\ \A i \in DOMAIN log : log[i].id < nextId
      /\ DOMAIN log = 1 .. Len(log) /\ Len(log) \in Nat
  BY States, AuditAssumption DEF Corrupt
<1>1. PICK k \in DOMAIN log :
        /\ log[k].whole
        /\ \/ log' = [log EXCEPT ![k].intact = FALSE]
           \/ (\E j \in DOMAIN log : log[j].id > log[k].id) /\ log' = RemoveAt(log, k)
           \/ k < Len(log) /\ log' = [log EXCEPT ![k] = log[k + 1], ![k + 1] = log[k]]
  BY DEF Corrupt
<1>2. ASSUME log' \in Seq(Lines), \A i \in DOMAIN log' : log'[i].id < nextId, Parses(log') => Complete(log')
      PROVE  AuditInv'
  <2>1. AuditTypeOK'
    BY <1>0, <1>2 DEF AuditInv, AuditTypeOK, Lines
  <2> QED
    BY <1>0, <1>2, <2>1 DEF AuditInv, Complete
<1>3. CASE log' = [log EXCEPT ![k].intact = FALSE]
  <2> DEFINE e == [log[k] EXCEPT !.intact = FALSE]
  <2>1. log[k] \in Entry
    BY <1>0, <1>1, EntryIs
  <2>2. e \in Entry /\ ~e.intact /\ e.id = log[k].id /\ e \in Lines
    BY <2>1 DEF Entry, Lines
  <2>3. log' = [log EXCEPT ![k] = e]
    BY <1>3
  <2> HIDE DEF e
  <2>4. /\ log' \in Seq(Lines) /\ DOMAIN log' = DOMAIN log /\ log'[k] = e
        /\ \A i \in DOMAIN log : i # k => log'[i] = log[i]
    BY <1>0, <2>2, <2>3
  <2>5. ~VerifyIntegrity(log')
    BY <2>2, <2>4 DEF VerifyIntegrity
  <2> QED
    BY <1>0, <1>2, <2>2, <2>4, <2>5 DEF Complete
<1>4. CASE (\E j \in DOMAIN log : log[j].id > log[k].id) /\ log' = RemoveAt(log, k)
  <2>0. /\ RemoveAt(log, k) \in Seq(Lines) /\ Len(RemoveAt(log, k)) = Len(log) - 1
        /\ \A i \in DOMAIN RemoveAt(log, k) :
             /\ i \in DOMAIN log /\ i + 1 \in DOMAIN log
             /\ RemoveAt(log, k)[i] = IF i < k THEN log[i] ELSE log[i + 1]
    BY <1>0, Removing
  <2>1. /\ log' \in Seq(Lines) /\ Len(log') = Len(log) - 1
        /\ \A i \in DOMAIN log' : i \in DOMAIN log /\ i + 1 \in DOMAIN log /\ log'[i] = IF i < k THEN log[i] ELSE log[i + 1]
    BY <1>4, <2>0
  <2>2. ASSUME Parses(log')
        PROVE  ~VerifyIntegrity(log')
    <3>1. Parses(log)
      <4>1. ASSUME NEW i \in DOMAIN log, i # k
            PROVE  log[i].whole
        <5>1. CASE i < k
          BY <1>0, <2>1, <2>2, <4>1, <5>1 DEF Parses
        <5>2. CASE i > k
          <6>1. i - 1 \in DOMAIN log' /\ ~(i - 1 < k) /\ (i - 1) + 1 = i
            BY <1>0, <2>1, <4>1, <5>2
          <6> QED
            BY <2>1, <2>2, <6>1 DEF Parses
        <5> QED
          BY <1>0, <4>1, <5>1, <5>2
      <4> QED
        BY <1>1, <4>1 DEF Parses
    <3>2. Ordered(log) /\ \A i \in DOMAIN log : log[i].id \in Nat /\ log[i].prev \in Nat
      BY <1>0, <3>1, EntryIs DEF AuditInv, Untouched
    <3>3. PICK j \in DOMAIN log : log[j].id > log[k].id
      BY <1>4
    <3>4. k < j
      <4>1. CASE j < k
        BY <3>2, <3>3, <4>1 DEF Ordered
      <4>2. CASE j = k
        BY <3>2, <3>3, <4>2
      <4> QED
        BY <1>0, <4>1, <4>2
    <3>5. k \in DOMAIN log' /\ log'[k] = log[k + 1] /\ k + 1 \in DOMAIN log /\ (k # 1 => k - 1 \in DOMAIN log')
      BY <1>0, <2>1, <3>4
    <3>6. log[k].id <= log[k + 1].prev /\ log[k].id > 0
      BY <1>0, <3>2, <3>5 DEF Ordered
    <3>7. k # 1 => log'[k - 1] = log[k - 1] /\ log[k - 1].id < log[k].id
      BY <1>0, <2>1, <3>2, <3>5 DEF Ordered
    <3>8. log'[k].prev # IF k = 1 THEN GENESIS_HASH ELSE log'[k - 1].id
      <4>1. CASE k = 1
        BY <3>2, <3>5, <3>6, <4>1 DEF GENESIS_HASH
      <4>2. CASE k # 1
        <5>1. k - 1 \in DOMAIN log /\ log[k - 1].id \in Nat /\ log[k].id \in Nat /\ log[k + 1].prev \in Nat
          BY <1>0, <3>2, <3>5, <4>2
        <5> QED
          BY <3>5, <3>6, <3>7, <4>2, <5>1
      <4> QED
        BY <4>1, <4>2
    <3> QED
      BY <3>5, <3>8 DEF VerifyIntegrity
  <2>3. \A i \in DOMAIN log' : log'[i].id < nextId
    BY <1>0, <2>1
  <2> QED
    BY <1>2, <2>1, <2>2, <2>3 DEF Complete
<1>5. CASE k < Len(log) /\ log' = [log EXCEPT ![k] = log[k + 1], ![k + 1] = log[k]]
  <2>1. /\ log' \in Seq(Lines) /\ DOMAIN log' = DOMAIN log /\ k + 1 \in DOMAIN log
        /\ log'[k] = log[k + 1] /\ log'[k + 1] = log[k]
        /\ \A i \in DOMAIN log : i \notin {k, k + 1} => log'[i] = log[i]
    BY <1>0, <1>1, <1>5
  <2>2. Parses(log') => Parses(log)
    BY <1>0, <1>1, <2>1 DEF Parses
  <2>3. Ids(log') = Ids(log)
    <3>1. \A i \in DOMAIN log : \E j \in DOMAIN log' : log'[j] = log[i]
      BY <1>0, <1>1, <2>1
    <3>2. \A i \in DOMAIN log' : \E j \in DOMAIN log : log'[i] = log[j]
      BY <1>0, <1>1, <2>1
    <3> QED
      BY <3>1, <3>2 DEF Ids
  <2>4. \A i \in DOMAIN log' : log'[i].id < nextId
    BY <1>0, <1>1, <2>1
  <2>5. Parses(log') => Complete(log')
    BY <1>0, <2>2, <2>3 DEF AuditInv, Untouched, Complete
  <2> QED
    BY <1>2, <2>1, <2>4, <2>5
<1> QED
  BY <1>1, <1>3, <1>4, <1>5

-----------------------------------------------------------------------------
(* The chain that AuditLogger keeps in memory and in its file is sound     *)
(* through any number of entries, restarts and failed appends, torn lines  *)
(* included, if the file is changed from outside at most once: with two    *)
(* changes, one that exchanges lines and one that removes one after a      *)
(* restart, a gap can be closed.                                           *)
THEOREM ChainSound ==
  ASSUME MaxCorruptions <= 1
  PROVE  AuditSpec => []ChainIsSound
<1>1. AuditInv /\ [AuditNext]_auditVars => AuditInv'
  <2>1. ASSUME AuditInv, RecordExecution
        PROVE  AuditInv'
    <3>1. failedAppends \in 0 .. MaxFailedAppends
      BY <2>1 DEF AuditInv, AuditTypeOK
    <3> QED
      BY <2>1, <3>1, SealingKeeps DEF RecordExecution
  <2>2. ASSUME AuditInv, AppendFault
        PROVE  AuditInv'
    <3>1. failedAppends' \in 0 .. MaxFailedAppends
      BY <2>2, AuditAssumption DEF AuditInv, AuditTypeOK, AppendFault
    <3>2. log' = log \/ log' = Appended(Torn)
      BY <2>2 DEF AppendFault
    <3> QED
      BY <2>2, <3>1, <3>2, SealingKeeps DEF AppendFault
  <2>3. ASSUME AuditInv, UNCHANGED auditVars
        PROVE  AuditInv'
    BY <2>3 DEF AuditInv, AuditTypeOK, Complete, Untouched, Unfailed, auditVars
  <2> QED
    BY <2>1, <2>2, <2>3, DieKeeps, LoadKeeps, CorruptKeeps DEF AuditNext
<1>2. AuditInv => ChainIsSound
  <2>1. AuditInv => ChainSurvivesRestart
    BY DEF AuditInv, Unfailed, ChainSurvivesRestart
  <2>2. AuditInv => NoGapUnnoticed
    BY DEF AuditInv, Complete, NoGapUnnoticed
  <2> QED
    BY <2>1, <2>2 DEF AuditInv, ChainIsSound
<1> QED
  BY <1>1, <1>2, InitAuditInv, PTL DEF AuditSpec
=============================================================================
