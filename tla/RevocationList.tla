--------------------------- MODULE RevocationList ---------------------------
(***************************************************************************)
(* The token revocation list that LiopServer keeps in a JSON file and      *)
(* caches in memory.  A process is single-threaded and its file operations *)
(* are synchronous, but several processes (and an operator) share the      *)
(* file: every file-system call is one step, and fs.writeFileSync is two,  *)
(* since it truncates the file before it fills it.                         *)
(***************************************************************************)
EXTENDS Naturals, FiniteSets

CONSTANTS
    Procs,       \* server processes
    Tokens,      \* hashes of access tokens
    Deployments, \* the ways auth.revocationPath is shared, see Deployment
    MaxClock,    \* bound on the file system's clock
    MaxCrashes, MaxFaults, \* bounds on crashes and on failing file-system calls
    MaxOps       \* bound on the operations a process starts

ASSUME RevocationAssumption ==
    /\ Deployments \subseteq
         [procs : SUBSET Procs, writers : SUBSET Procs, operator : BOOLEAN, exists : BOOLEAN]
    /\ {MaxClock, MaxCrashes, MaxFaults, MaxOps} \subseteq Nat

VARIABLES
    deploy,   \* the processes that share the file, those on which revokeToken is
              \* called, whether an operator edits it, whether it exists at first
    file,     \* [state, list, mtime]: state is "absent", "torn" or "whole"
    clock,    \* the modification time of the latest write
    mem,      \* mem[p]: revokedTokenHashes
    last,     \* last[p]: lastRevocationLoadTime
    pc,       \* pc[p]: the file-system call p makes next, or "idle"
    op,       \* op[p]: what p does: boot, check a token or revoke it
    seen,     \* seen[p]: the mtime that loadRevocationList read
    verdict,  \* verdict[p]: the result of p's latest check
    own,      \* own[p]: the tokens revoked through this incarnation of p
    sure,     \* sure[p]: those of them for which the list could be loaded first
    atStart,  \* atStart[p]: the file and the faults when p's operation began
    crashes, faults, ops

vars == << deploy, file, clock, mem, last, pc, op, seen, verdict, own, sure, atStart, crashes,
           faults, ops >>

local == << deploy, mem, last, op, verdict, own, sure, atStart >>

Ops == [kind : {"boot", "check", "revoke"}, token : Tokens \cup {"none"}]
Boot == [kind |-> "boot", token |-> "none"]

Init ==
    /\ deploy \in Deployments
    /\ file = [state |-> IF deploy.exists THEN "whole" ELSE "absent", list |-> {}, mtime |-> 1]
    /\ clock = 1
    /\ mem = [p \in Procs |-> {}]
    /\ last = [p \in Procs |-> 0]
    /\ pc = [p \in Procs |-> "stat"]
    /\ op = [p \in Procs |-> Boot]
    /\ seen = [p \in Procs |-> 0]
    /\ verdict = [p \in Procs |-> "none"]
    /\ own = [p \in Procs |-> {}]
    /\ sure = [p \in Procs |-> {}]
    /\ atStart = [p \in Procs |-> [file |-> file, faults |-> 0]]
    /\ crashes = 0 /\ faults = 0
    /\ ops = [p \in Procs |-> 0]

Goto(p, label) == pc' = [pc EXCEPT ![p] = label]

(* The file is written at a new modification time.                         *)
Written(state, list) ==
    /\ clock < MaxClock
    /\ clock' = clock + 1
    /\ file' = [state |-> state, list |-> list, mtime |-> clock + 1]

-----------------------------------------------------------------------------
(* A request presents a token, or revokeToken is called: both begin with   *)
(* loadRevocationList.                                                     *)
Start(p, kind, t) ==
    /\ pc[p] = "idle" /\ ops[p] < MaxOps
    /\ ops' = [ops EXCEPT ![p] = @ + 1]
    /\ op' = [op EXCEPT ![p] = [kind |-> kind, token |-> t]]
    /\ verdict' = [verdict EXCEPT ![p] = "none"]
    /\ atStart' = [atStart EXCEPT ![p] = [file |-> file, faults |-> faults]]
    /\ Goto(p, "stat")
    /\ UNCHANGED << deploy, file, clock, mem, last, seen, own, sure, crashes, faults >>

Check(p, t) == Start(p, "check", t)
Revoke(p, t) == p \in deploy.writers /\ Start(p, "revoke", t)

(* What follows loadRevocationList, with the cache as it then is: nothing, *)
(* the lookup of the token, or its addition and the writing of the file.   *)
(* failed: whether loading has thrown.                                     *)
Loaded(p, cache, failed) ==
    LET t == op[p].token IN
    \/ /\ op[p].kind = "boot"
       /\ mem' = [mem EXCEPT ![p] = cache]
       /\ Goto(p, "idle") /\ UNCHANGED << verdict, own, sure >>
    \/ /\ op[p].kind = "check"
       /\ mem' = [mem EXCEPT ![p] = cache]
       /\ verdict' = [verdict EXCEPT ![p] = IF t \in cache THEN "denied" ELSE "admitted"]
       /\ Goto(p, "idle") /\ UNCHANGED << own, sure >>
    \/ /\ op[p].kind = "revoke"
       /\ mem' = [mem EXCEPT ![p] = cache \cup {t}]
       /\ own' = [own EXCEPT ![p] = @ \cup {t}]
       /\ sure' = IF failed THEN sure ELSE [sure EXCEPT ![p] = @ \cup {t}]
       /\ Goto(p, "truncate") /\ UNCHANGED verdict

(* existsSync and statSync: create a missing file, skip an unchanged one.  *)
Stat(p) ==
    /\ pc[p] = "stat"
    /\ seen' = [seen EXCEPT ![p] = file.mtime]
    /\ \/ file.state = "absent" /\ Goto(p, "create") /\ UNCHANGED << mem, verdict, own, sure >>
       \/ file.state # "absent" /\ file.mtime <= last[p] /\ Loaded(p, mem[p], FALSE)
       \/ file.state # "absent" /\ file.mtime > last[p]
          /\ Goto(p, "read") /\ UNCHANGED << mem, verdict, own, sure >>
    /\ UNCHANGED << deploy, file, clock, last, op, atStart, crashes, faults, ops >>

(* Mutant: the cache is cleared before the file is parsed.                 *)
ReadClearsFirst(p) ==
    /\ pc[p] = "read"
    /\ \/ file.state = "whole" /\ Loaded(p, file.list, FALSE) /\ last' = [last EXCEPT ![p] = seen[p]]
       \/ file.state = "torn" /\ Loaded(p, {}, FALSE) /\ UNCHANGED last
    /\ UNCHANGED << deploy, file, clock, op, seen, atStart, crashes, faults, ops >>

(* readFileSync and JSON.parse.  A whole list replaces the cache and its   *)
(* time becomes the one that statSync read; a torn one changes nothing.    *)
Read(p) ==
    /\ pc[p] = "read"
    /\ \/ /\ file.state = "whole"
          /\ Loaded(p, file.list, FALSE)
          /\ last' = [last EXCEPT ![p] = seen[p]]
       \/ /\ file.state = "torn"
          /\ Loaded(p, mem[p], FALSE) /\ UNCHANGED last
    /\ UNCHANGED << deploy, file, clock, op, seen, atStart, crashes, faults, ops >>

(* A file-system call of loadRevocationList throws: the cache is kept.     *)
LoadFault(p) ==
    /\ pc[p] \in {"stat", "read", "create", "fillEmpty"} /\ faults < MaxFaults
    /\ faults' = faults + 1
    /\ Loaded(p, mem[p], TRUE)
    /\ UNCHANGED << deploy, file, clock, last, op, seen, atStart, crashes, ops >>

(* The missing file is created with an empty list.                         *)
Create(p) ==
    /\ pc[p] = "create"
    /\ Written("torn", {})
    /\ Goto(p, "fillEmpty")
    /\ UNCHANGED << local, seen, crashes, faults, ops >>

FillEmpty(p) ==
    /\ pc[p] = "fillEmpty"
    /\ Written("whole", {})
    /\ Goto(p, "now")
    /\ UNCHANGED << local, seen, crashes, faults, ops >>

(* lastRevocationLoadTime = Date.now().                                    *)
Created(p) ==
    /\ pc[p] = "now"
    /\ last' = [last EXCEPT ![p] = clock]
    /\ Loaded(p, mem[p], FALSE)
    /\ UNCHANGED << deploy, file, clock, op, seen, atStart, crashes, faults, ops >>

-----------------------------------------------------------------------------
(* fs.writeFileSync of the whole cache, then statSync.                     *)
Truncate(p) ==
    /\ pc[p] = "truncate"
    /\ Written("torn", {})
    /\ Goto(p, "fill")
    /\ UNCHANGED << local, seen, crashes, faults, ops >>

Fill(p) ==
    /\ pc[p] = "fill"
    /\ Written("whole", mem[p])
    /\ Goto(p, "restat")
    /\ UNCHANGED << local, seen, crashes, faults, ops >>

Restat(p) ==
    /\ pc[p] = "restat"
    /\ last' = [last EXCEPT ![p] = file.mtime]
    /\ Goto(p, "idle")
    /\ UNCHANGED << deploy, file, clock, mem, op, seen, verdict, own, sure, atStart,
                    crashes, faults, ops >>

(* Persisting fails: it is logged, and revokeToken returns all the same.   *)
WriteFault(p) ==
    /\ pc[p] \in {"truncate", "fill", "restat"} /\ faults < MaxFaults
    /\ faults' = faults + 1
    /\ Goto(p, "idle")
    /\ UNCHANGED << file, clock, local, seen, crashes, ops >>

(* The process ends and is started again: the constructor loads the list.  *)
Crash(p) ==
    /\ crashes < MaxCrashes
    /\ crashes' = crashes + 1
    /\ mem' = [mem EXCEPT ![p] = {}]
    /\ own' = [own EXCEPT ![p] = {}]
    /\ sure' = [sure EXCEPT ![p] = {}]
    /\ last' = [last EXCEPT ![p] = 0]
    /\ op' = [op EXCEPT ![p] = Boot]
    /\ verdict' = [verdict EXCEPT ![p] = "none"]
    /\ Goto(p, "stat")
    /\ UNCHANGED << deploy, file, clock, seen, atStart, faults, ops >>

(* The operator replaces the file by any list, as the tests do.       *)
OperatorWrites(list) ==
    /\ deploy.operator
    /\ file.state = "whole" /\ list # file.list
    /\ Written("whole", list)
    /\ UNCHANGED << deploy, mem, last, pc, op, seen, verdict, own, sure, atStart,
                    crashes, faults, ops >>

Next ==
    \/ \E p \in deploy.procs :
         \/ \E t \in Tokens : Check(p, t) \/ Revoke(p, t)
         \/ Stat(p) \/ Read(p) \/ LoadFault(p)
         \/ Create(p) \/ FillEmpty(p) \/ Created(p)
         \/ Truncate(p) \/ Fill(p) \/ Restat(p) \/ WriteFault(p)
         \/ Crash(p)
    \/ \E list \in SUBSET Tokens : OperatorWrites(list)

Spec == Init /\ [][Next]_vars
-----------------------------------------------------------------------------
Labels == {"idle", "stat", "read", "create", "fillEmpty", "now", "truncate", "fill", "restat"}
File == [state : {"absent", "torn", "whole"}, list : SUBSET Tokens, mtime : Nat]

(* Types of the file, of each process's cache and of its progress through  *)
(* loadRevocationList, isTokenRevoked and revokeTokenHash.                 *)
TypeOK ==
    /\ deploy \in Deployments /\ file \in File
    /\ clock \in Nat /\ crashes \in Nat /\ faults \in Nat
    /\ mem \in [Procs -> SUBSET Tokens]
    /\ last \in [Procs -> Nat] /\ seen \in [Procs -> Nat] /\ ops \in [Procs -> Nat]
    /\ pc \in [Procs -> Labels]
    /\ op \in [Procs -> Ops]
    /\ verdict \in [Procs -> {"none", "admitted", "denied"}]
    /\ own \in [Procs -> SUBSET Tokens] /\ sure \in [Procs -> SUBSET Tokens]
    /\ atStart \in [Procs -> [file : File, faults : Nat]]

(* A process that revoked a token denies it until it ends, whatever other  *)
(* processes read, however often they restart, and even if persisting the  *)
(* list failed.  A token is lost only when both the load before it and the *)
(* write after it failed: the next load that succeeds then brings back the *)
(* list without it.                                                        *)
OwnRevocationsHold ==
    \A p \in Procs : verdict[p] = "admitted" => op[p].token \notin sure[p]

(* A check during which the file stayed whole and unchanged denies every   *)
(* token on the list, and no other one except the process's own.           *)
FreshCheckFollowsFile ==
    \A p \in Procs :
        /\ op[p].kind = "check" /\ verdict[p] # "none"
        /\ file.state = "whole" /\ file = atStart[p].file /\ faults = atStart[p].faults
        => /\ op[p].token \in file.list => verdict[p] = "denied"
           /\ verdict[p] = "denied" => op[p].token \in file.list \cup own[p]

(* What a server makes of the list: well-formed caches and verdicts, and   *)
(* the two promises above at every step of loadRevocationList and          *)
(* revokeTokenHash, crashes and I/O errors included.                       *)
ListIsHonoured == TypeOK /\ OwnRevocationsHold /\ FreshCheckFollowsFile
==============================================================================
