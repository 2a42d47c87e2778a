---------------------------- MODULE ContentCache ----------------------------
(***************************************************************************)
(* The content cache (packages/history/src/cache.ts) as the file system    *)
(* sees it.  Each process owns one ContentCache instance at a time; all    *)
(* share one directory.  put is synchronous for its process but not for    *)
(* the others, nor for a kill -9: mkdir, the write of the temporary file   *)
(* (which may stop half way) and the rename are steps of their own.        *)
(***************************************************************************)
EXTENDS Naturals, FiniteSets

CONSTANTS
    Contents,        \* the byte strings that may be stored
    Procs,           \* processes with the cache directory open
    Observed,        \* the process whose view the contract is stated for
    NoContent,       \* not a content: no put is running
    MaxFaults,       \* bound: system calls of put that fail
    MaxKills         \* bound: processes killed

ASSUME BoundsAssumption == MaxFaults \in Nat /\ MaxKills \in Nat
ASSUME ObservedAssumption == Observed \in Procs
ASSUME NoContentAssumption == NoContent \notin Contents

VARIABLES
    memo,            \* memo[p]: contents in the memo of p's instance
    entry,           \* entry[c]: state of the file at pathFor(c)
    temp,            \* temp[p][c]: state of `${target}.${pid}.tmp`
    pc,              \* pc[p]: where p is inside put
    cur,             \* cur[p]: the content p is storing, or NoContent
    answered,        \* history: contents whose id put returned or get found
    faults,          \* system calls that failed so far
    kills            \* kills so far

storeVars == <<memo, entry, temp, pc, cur, answered, faults, kills>>

FileState == {"absent", "torn", "whole"}

StoreTypeOK ==
    /\ memo \in [Procs -> SUBSET Contents]
    /\ entry \in [Contents -> FileState]
    /\ temp \in [Procs -> [Contents -> FileState]]
    /\ pc \in [Procs -> {"idle", "mkdir", "write", "rename"}]
    /\ cur \in [Procs -> Contents \cup {NoContent}]
    /\ \A p \in Procs : pc[p] = "idle" <=> cur[p] = NoContent
    /\ answered \in SUBSET Contents
    /\ faults \in Nat
    /\ kills \in Nat

StoreInit ==
    /\ memo = [p \in Procs |-> {}]
    /\ entry = [c \in Contents |-> "absent"]
    /\ temp = [p \in Procs |-> [c \in Contents |-> "absent"]]
    /\ pc = [p \in Procs |-> "idle"]
    /\ cur = [p \in Procs |-> NoContent]
    /\ answered = {}
    /\ faults = 0
    /\ kills = 0

-----------------------------------------------------------------------------
(* The steps of put.                                                       *)

\* memo.has(id): the id is returned and nothing else happens.
PutReturnsAtOnce(p, c) ==
    /\ pc[p] = "idle"
    /\ c \in memo[p]
    /\ answered' = answered \cup {c}
    /\ UNCHANGED <<memo, entry, temp, pc, cur, faults, kills>>

\* Mutant: the id is returned before the entry is written.
BeginPutAnswers(p, c) ==
    /\ pc[p] = "idle"
    /\ c \notin memo[p]
    /\ memo' = [memo EXCEPT ![p] = @ \cup {c}]
    /\ cur' = [cur EXCEPT ![p] = c]
    /\ pc' = [pc EXCEPT ![p] = "mkdir"]
    /\ answered' = answered \cup {c}
    /\ UNCHANGED <<entry, temp, faults, kills>>

\* The memo is set before anything is written.
BeginPut(p, c) ==
    /\ pc[p] = "idle"
    /\ c \notin memo[p]
    /\ memo' = [memo EXCEPT ![p] = @ \cup {c}]
    /\ cur' = [cur EXCEPT ![p] = c]
    /\ pc' = [pc EXCEPT ![p] = "mkdir"]
    /\ UNCHANGED <<entry, temp, answered, faults, kills>>

\* Mutant: no temporary file, the entry itself is opened and truncated.
OpenEntry(p) ==
    /\ pc[p] = "mkdir"
    /\ entry' = [entry EXCEPT ![cur[p]] = "torn"]
    /\ temp' = [temp EXCEPT ![p][cur[p]] = "torn"]
    /\ pc' = [pc EXCEPT ![p] = "write"]
    /\ UNCHANGED <<memo, cur, answered, faults, kills>>

\* The directory exists and the temporary file is open, truncated.
OpenTemp(p) ==
    /\ pc[p] = "mkdir"
    /\ temp' = [temp EXCEPT ![p][cur[p]] = "torn"]
    /\ pc' = [pc EXCEPT ![p] = "write"]
    /\ UNCHANGED <<memo, entry, cur, answered, faults, kills>>

\* The last byte of the temporary file is written.
FinishTemp(p) ==
    /\ pc[p] = "write"
    /\ temp' = [temp EXCEPT ![p][cur[p]] = "whole"]
    /\ pc' = [pc EXCEPT ![p] = "rename"]
    /\ UNCHANGED <<memo, entry, cur, answered, faults, kills>>

\* The rename replaces the entry, whoever wrote it before; put returns the id.
RenameTemp(p) ==
    /\ pc[p] = "rename"
    /\ entry' = [entry EXCEPT ![cur[p]] = temp[p][cur[p]]]
    /\ temp' = [temp EXCEPT ![p][cur[p]] = "absent"]
    /\ pc' = [pc EXCEPT ![p] = "idle"]
    /\ cur' = [cur EXCEPT ![p] = NoContent]
    /\ answered' = answered \cup {cur[p]}
    /\ UNCHANGED <<memo, faults, kills>>

\* mkdir, the write or the rename throws: put throws, the memo keeps the
\* content and the temporary file stays as it is.
SystemCallFails(p) ==
    /\ pc[p] # "idle"
    /\ faults < MaxFaults
    /\ faults' = faults + 1
    /\ pc' = [pc EXCEPT ![p] = "idle"]
    /\ cur' = [cur EXCEPT ![p] = NoContent]
    /\ UNCHANGED <<memo, entry, temp, answered, kills>>

-----------------------------------------------------------------------------
\* get of a content that is not in the memo but whose entry exists.
GetReadsEntry(p, c) ==
    /\ pc[p] = "idle"
    /\ c \notin memo[p]
    /\ entry[c] # "absent"
    /\ memo' = [memo EXCEPT ![p] = @ \cup {c}]
    /\ answered' = answered \cup {c}
    /\ UNCHANGED <<entry, temp, pc, cur, faults, kills>>

\* /clear or a clean restart: a new instance over the same directory.
NewInstance(p) ==
    /\ pc[p] = "idle"
    /\ memo' = [memo EXCEPT ![p] = {}]
    /\ UNCHANGED <<entry, temp, pc, cur, answered, faults, kills>>

\* kill -9 at any point; the files stay, the process starts again.
KillProcess(p) ==
    /\ kills < MaxKills
    /\ kills' = kills + 1
    /\ memo' = [memo EXCEPT ![p] = {}]
    /\ pc' = [pc EXCEPT ![p] = "idle"]
    /\ cur' = [cur EXCEPT ![p] = NoContent]
    /\ UNCHANGED <<entry, temp, answered, faults>>

PutStep(p) ==
    \/ OpenTemp(p)
    \/ FinishTemp(p)
    \/ RenameTemp(p)
    \/ SystemCallFails(p)

StoreNext ==
    \E p \in Procs :
        \/ \E c \in Contents :
              \/ PutReturnsAtOnce(p, c)
              \/ BeginPut(p, c)
              \/ GetReadsEntry(p, c)
        \/ PutStep(p)
        \/ NewInstance(p)
        \/ KillProcess(p)

StoreSpec == StoreInit /\ [][StoreNext]_storeVars

-----------------------------------------------------------------------------
(* Properties.                                                             *)

\* The one failure the cache must never have: a truncated file under a name
\* that claims to describe the whole content (put, cache.ts:77-83).  It has to
\* survive kills, failed writes and two processes storing the same content.
EntriesAreWhole == \A c \in Contents : entry[c] # "torn"

\* What each process may rely on is the atomic contract: the memo without the
\* content being stored, and the whole entries of the directory.
Settled(p) == memo[p] \ {cur[p]}

Readable == {c \in Contents : entry[c] = "whole"}

Contract == INSTANCE CacheContract
                WITH memo <- Settled(Observed), disk <- Readable

\* Every step of every process, kills and failed system calls included, is for
\* any one process a step of the atomic cache or invisible to it: no
\* interleaving of two puts shows a third outcome (cache.ts:67-101).
ImplementsContract == Contract!CacheSpec

\* Masking is acceptable only because it is reversible (cache.ts:8-13): an id
\* that put returned, or that get found, stays readable for every later
\* process.  Each failed system call can break that promise for one content,
\* whose memo entry outlives the failure, and nothing else can: no kill at any
\* point and no race between two writers of one content loses an entry.
OnlyFaultsLoseContent == Cardinality(answered \ Readable) =< faults
=============================================================================
