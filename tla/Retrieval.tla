----------------------------- MODULE Retrieval -----------------------------
(***************************************************************************)
(* BudgetedQuery with the session's retrieval tracker                      *)
(* (packages/context/src/retrieval-miss.ts), as packages/cli/src/          *)
(* session.ts:231-276 drives it: the agent's queries cover the files their *)
(* answers show, and a later whole read of such a file is a miss.  `/graph'*)
(* goes past the tracker.  `/clear' is no step here: it leaves the tracker *)
(* alone, and what is said of a session holds of all its conversations.    *)
(***************************************************************************)
EXTENDS BudgetedQuery

CONSTANTS
    Normal,          \* the path that session.ts:263 makes of a read's argument
    MatchedPaths,    \* paths that pathsInResponse recognises: no space, no bracket
    MaxQueries,      \* bound: answers
    MaxReads,        \* bound: whole reads of a file
    MaxTurns         \* bound: ends of turns

VARIABLES
    covered,         \* the tracker: a query's number, paths, turn, and whether it is an
                     \* outline, which is all it makes of the operation
    turn, misses,
    queryCounter

\* history: the answers so far, and for each read the answers before it and
\* what recordRead returned.
VARIABLES answers, reads

tracker == <<covered, turn, misses, queryCounter>>
history == <<answers, reads>>
rvars == <<vars, tracker, history>>

NoMiss == [path |-> "none"]

RInit ==
    /\ Init
    /\ covered = <<>> /\ turn = 0 /\ misses = <<>> /\ queryCounter = 0
    /\ answers = <<>> /\ reads = <<>>

pathsOf(nodes) == {Symbol[n].path : n \in Range(nodes)}

\* Mutant: what was found is taken for what was shown.
pathsInResponseOfAll(r) == pathsOf(r.shown \o r.truncated) \cap MatchedPaths

\* The locations in the text, that is of the lines shown.
pathsInResponse(r) == pathsOf(r.shown) \cap MatchedPaths

recordQuery(r) ==
    /\ queryCounter' = queryCounter + 1
    /\ covered' = Append(covered, [queryId |-> queryCounter + 1,
                                   outline |-> request.op = "overview",
                                   paths |-> pathsInResponse(r), turn |-> turn])

\* The agent's tool reports the answer; the user's command does not.
Report ==
    /\ Answers
    /\ IF reply' = reply
       THEN UNCHANGED <<tracker, history>>
       ELSE /\ IF request.by = "agent" THEN recordQuery(reply')
                                       ELSE UNCHANGED <<covered, queryCounter>>
            /\ answers' = Append(answers, [by |-> request.by, outline |-> request.op = "overview",
                                           paths |-> pathsOf(reply'.shown), turn |-> turn])
            /\ UNCHANGED <<turn, misses, reads>>

\* A map depends on the graph alone: it is asked for before anything else.
Unreported ==
    /\ \/ Write \/ Proceeds
       \/ Len(answers) < MaxQueries /\ Requested
       \/ answers = <<>> /\ reads = <<>> /\ turn = 0 /\ Mapped
    /\ UNCHANGED <<tracker, history>>

\* Mutant: the last query is blamed.
CoveringLast(path) ==
    {i \in DOMAIN covered :
        /\ ~covered[i].outline /\ path \in covered[i].paths
        /\ \A j \in DOMAIN covered : j > i => path \notin covered[j].paths}

\* find: the first query that covers the path, an outline aside.
Covering(path) ==
    LET all == {i \in DOMAIN covered : ~covered[i].outline /\ path \in covered[i].paths}
    IN  {i \in all : \A j \in all : i =< j}

recordRead(path) ==
    IF Covering(path) = {} THEN NoMiss
    ELSE LET covering == covered[CHOOSE i \in Covering(path) : TRUE]
         IN  [path |-> path, queryId |-> covering.queryId, turnsLater |-> turn - covering.turn]

\* The end of a `read' tool call.
Read(argument) ==
    /\ pc = "idle" /\ Len(reads) < MaxReads
    /\ LET miss == recordRead(Normal[argument])
       IN  /\ misses' = IF miss = NoMiss THEN misses ELSE Append(misses, miss)
           /\ reads' = Append(reads, [path |-> Normal[argument], after |-> Len(answers),
                                      at |-> turn, miss |-> miss])
    /\ UNCHANGED <<vars, covered, turn, queryCounter, answers>>

nextTurn ==
    /\ pc = "idle" /\ turn < MaxTurns
    /\ turn' = turn + 1
    /\ UNCHANGED <<vars, covered, misses, queryCounter, history>>

RNext ==
    \/ Report \/ Unreported
    \/ \E argument \in DOMAIN Normal : Read(argument)
    \/ nextTurn

RSpec == RInit /\ [][RNext]_rvars

-----------------------------------------------------------------------------
(* Properties.                                                             *)

\* The answers, before the read, that showed the model a line of the file.
Shows(r) ==
    {i \in 1..r.after : /\ answers[i].by = "agent" /\ ~answers[i].outline
                        /\ r.path \in answers[i].paths \cap MatchedPaths}

MissedUpTo(k) == {i \in 1..k : reads[i].miss # NoMiss}

\* retrieval-miss.ts:3-7: a read is a miss exactly when an earlier answer to the
\* model in this session, an outline aside, showed a line of the file; the miss
\* names the first of them, among the agent's own queries, and its age in turns,
\* and the misses are kept in the order of the reads.
MissesAreTrue ==
    /\ \A i \in DOMAIN reads : LET r == reads[i] IN
          IF Shows(r) = {} THEN r.miss = NoMiss
          ELSE LET first == Min(Shows(r))
               IN  r.miss = [path |-> r.path,
                             queryId |-> Cardinality({j \in 1..first : answers[j].by = "agent"}),
                             turnsLater |-> r.at - answers[first].turn]
    /\ Len(misses) = Cardinality(MissedUpTo(Len(reads)))
    /\ \A i \in MissedUpTo(Len(reads)) :
          misses[Cardinality(MissedUpTo(i))] = reads[i].miss
=============================================================================
