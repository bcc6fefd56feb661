------------------------------ MODULE AuditLog ------------------------------
(***************************************************************************)
(* AuditLogger: a hash chain of execution records, kept in memory and      *)
(* appended line by line to a JSONL file that a restarted process loads.   *)
(* The hash of a sealed entry is its (unique) id; an entry changed after   *)
(* it was sealed is not intact, which is what recomputing its hash shows.  *)
(***************************************************************************)
EXTENDS Naturals, Sequences, SequencesExt

CONSTANTS
    MaxEntries, MaxRestarts,   \* bounds on entries and on process crashes
    MaxFailedAppends,                \* bound on appends that throw
    MaxCorruptions,           \* bound on changes made to the file from outside
    TornWrites                \* whether a crash or a failed append can leave half a line

ASSUME AuditAssumption ==
    /\ {MaxEntries, MaxRestarts, MaxFailedAppends, MaxCorruptions} \subseteq Nat
    /\ TornWrites \in BOOLEAN

VARIABLES
    status,     \* "up", "down" or "failed" (the constructor threw)
    entries,    \* the chain in memory
    lastHash,   \* lastEntryHash
    log,       \* the lines of the file
    nextId,     \* the number of entries sealed so far, plus one
    returned,   \* ids of the entries that recordExecution returned
    restarts, failedAppends, corruptions

auditVars == << status, entries, lastHash, log, nextId, returned, restarts, failedAppends, corruptions >>

GENESIS_HASH == 0
Torn == [id |-> 0, prev |-> 0, intact |-> FALSE, whole |-> FALSE]
Sealed(id, prev) == [id |-> id, prev |-> prev, intact |-> TRUE, whole |-> TRUE]
Ids(s) == {s[k].id : k \in DOMAIN s}

AuditInit ==
    /\ status = "up" /\ entries = << >> /\ lastHash = GENESIS_HASH
    /\ log = << >> /\ nextId = 1
    /\ returned = {}
    /\ restarts = 0 /\ failedAppends = 0 /\ corruptions = 0

(* appendFileSync: a line appended to half a line becomes part of it.      *)
Appended(line) ==
    IF log # << >> /\ ~Last(log).whole THEN log ELSE Append(log, line)

(* The entry is sealed onto the chain in memory.                           *)
Seal ==
    /\ nextId <= MaxEntries
    /\ entries' = Append(entries, Sealed(nextId, lastHash))
    /\ lastHash' = nextId
    /\ nextId' = nextId + 1

(* recordExecution: seal, append to the file, then the interceptor, whose  *)
(* errors are ignored and which changes nothing here.                      *)
RecordExecution ==
    /\ status = "up" /\ Seal
    /\ log' = Appended(Sealed(nextId, lastHash))
    /\ returned' = returned \cup {nextId}
    /\ UNCHANGED << status, restarts, failedAppends, corruptions >>

(* The append throws, after the entry was pushed to the chain in memory.   *)
AppendFault ==
    /\ status = "up" /\ failedAppends < MaxFailedAppends /\ Seal
    /\ failedAppends' = failedAppends + 1
    /\ log' \in {log} \cup (IF TornWrites THEN {Appended(Torn)} ELSE {})
    /\ UNCHANGED << status, returned, restarts, corruptions >>

(* The process ends, between two calls or in the middle of an append.      *)
Die ==
    /\ status = "up" /\ restarts < MaxRestarts
    /\ restarts' = restarts + 1
    /\ status' = "down"
    /\ entries' = << >> /\ lastHash' = GENESIS_HASH
    /\ log' \in {log} \cup (IF TornWrites THEN {Appended(Torn)} ELSE {})
    /\ UNCHANGED << nextId, returned, failedAppends, corruptions >>

(* Mutant: the chain starts anew after a restart.                          *)
LoadKeepsGenesis ==
    /\ status = "down"
    /\ entries' = log /\ UNCHANGED lastHash
    /\ status' = "up"
    /\ UNCHANGED << log, nextId, returned, restarts, failedAppends, corruptions >>

(* The constructor of a new process: loadFromFile takes every line and     *)
(* checks none of them; a line that does not parse makes it throw.         *)
LoadFromFile ==
    /\ status = "down"
    /\ \/ /\ \E k \in DOMAIN log : ~log[k].whole
          /\ status' = "failed" /\ UNCHANGED << entries, lastHash >>
       \/ /\ \A k \in DOMAIN log : log[k].whole
          /\ status' = "up" /\ entries' = log
          /\ lastHash' = IF log = << >> THEN GENESIS_HASH ELSE Last(log).id
    /\ UNCHANGED << log, nextId, returned, restarts, failedAppends, corruptions >>

(* The file is changed from outside: a whole line is altered or            *)
(* removed (unless it is the newest one), or two neighbours are exchanged. *)
Corrupt ==
    /\ corruptions < MaxCorruptions
    /\ corruptions' = corruptions + 1
    /\ \E k \in {j \in DOMAIN log : log[j].whole} :
         \/ log' = [log EXCEPT ![k].intact = FALSE]
         \/ /\ \E j \in DOMAIN log : log[j].id > log[k].id
            /\ log' = RemoveAt(log, k)
         \/ k < Len(log) /\ log[k + 1].whole
            /\ log' = [log EXCEPT ![k] = log[k + 1], ![k + 1] = log[k]]
    /\ UNCHANGED << status, entries, lastHash, nextId, returned, restarts, failedAppends >>

AuditNext == RecordExecution \/ AppendFault \/ Die \/ LoadFromFile \/ Corrupt

AuditSpec == AuditInit /\ [][AuditNext]_auditVars
-----------------------------------------------------------------------------
(* verifyIntegrity: every entry links to its predecessor's hash, the first *)
(* one to GENESIS_HASH, and has the hash that is recomputed from it.       *)
VerifyIntegrity(s) ==
    \A k \in DOMAIN s :
        /\ s[k].prev = IF k = 1 THEN GENESIS_HASH ELSE s[k - 1].id
        /\ s[k].intact

Entry == [id : Nat, prev : Nat, intact : BOOLEAN, whole : {TRUE}]

(* Every state of the logger and of its file has the expected shape; a chain *)
(* in memory holds whole entries only, since half a line is never loaded.  *)
AuditTypeOK ==
    /\ status \in {"up", "down", "failed"}
    /\ entries \in Seq(Entry) /\ log \in Seq(Entry \cup {Torn})
    /\ lastHash \in Nat /\ nextId \in 1 .. MaxEntries + 1
    /\ returned \subseteq 1 .. MaxEntries
    /\ restarts \in 0 .. MaxRestarts /\ failedAppends \in 0 .. MaxFailedAppends
    /\ corruptions \in 0 .. MaxCorruptions

(* The chain in memory verifies as long as nobody touched the file and no  *)
(* append failed, across any number of restarts.                           *)
ChainSurvivesRestart ==
    (status = "up" /\ failedAppends = 0 /\ corruptions = 0) => VerifyIntegrity(entries)

(* A chain that verifies has no gap: every entry that was recorded before  *)
(* its newest one is in it, even if a line of the file was altered, removed *)
(* or moved once.                                                          *)
NoGapUnnoticed ==
    (status = "up" /\ entries # << >> /\ VerifyIntegrity(entries)) =>
        \A id \in returned : id < Last(entries).id => id \in Ids(entries)

(* The log as a whole: its states are well formed and the two promises     *)
(* above hold through every restart, failed append and change from outside.*)
ChainIsSound == AuditTypeOK /\ ChainSurvivesRestart /\ NoGapUnnoticed
==============================================================================
