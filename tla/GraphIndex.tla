----------------------------- MODULE GraphIndex -----------------------------
(***************************************************************************)
(* The code graph and the processes that write it                           *)
(* (graph/src/indexer.ts, sqlite-store.ts).                                 *)
(*                                                                          *)
(* The store is one SQLite file under .agent/graph that every session       *)
(* opened in the repository shares.  Indexing a file is FOUR transactions   *)
(* (removeFile, putNodes, putEdges, putFileRecord) after an await, so a     *)
(* kill, a thrown SQLITE_BUSY, an edit, or a second session can fall        *)
(* between any two.  A file's record is its content: equal hashes mean      *)
(* equal contents.                                                          *)
(*                                                                          *)
(* Data left out: `references', `imports' and `inherits' edges (written in  *)
(* the batch of the `calls' edges and removed with them), lines, signatures *)
(* and docs, files of no known language, and two declarations of one name   *)
(* in one file.                                                             *)
(***************************************************************************)
EXTENDS Naturals, FiniteSets

CONSTANTS Files,      \* repo-relative paths
          Names,      \* bare symbol names
          Contents,   \* what a file can hold: [declares, calls]
          Indexers,   \* the processes that have the store open
          Absent,     \* a file that is not on disk, or has no record
          NoFile,     \* the `file' of an unresolved name
          Top,        \* the `name' of a file's own node
          MaxEdits,   \* bound on edits of the disk
          MaxKills,   \* bound on kills and thrown errors
          MaxRuns     \* bound on calls of index()

ASSUME ContentsAssumption ==
    \A c \in Contents : /\ c.declares \subseteq Names
                        /\ c.calls \subseteq (c.declares \cup {Top}) \X Names
ASSUME OutsidersAssumption == /\ Absent \notin Contents
                              /\ NoFile \notin Files
                              /\ Top \notin Names
ASSUME BoundsAssumption == MaxEdits \in Nat /\ MaxKills \in Nat /\ MaxRuns \in Nat

VARIABLES disk,       \* what each file holds now
          nodes,      \* table nodes: ids <<file, name>>
          edges,      \* table edges, kind `calls': <<from id, to id or bare name>>
          record,     \* table files: the content last recorded
          pc,         \* where each indexer stands
          todo,       \* the paths it has yet to visit
          force,      \* /reindex --force
          file,       \* the path it is at
          held,       \* the content it read there
          targets,    \* resolveCrossFileCalls: ids of unique names yet to look at
          additions,  \* resolveCrossFileCalls: the edges to put
          edits, kills, runs  \* how much of each bound is used

\* What a step of one indexer does to the work of another, for the properties.
VARIABLES disturbed,  \* files whose last rewriting was cut or shared
          shared,     \* files ever rewritten under another indexer's feet
          overtaken,  \* indexers that resolve from tables since rewritten
          settled     \* no rewriting since a resolution that was not overtaken

store == <<nodes, edges, record>>
work == <<pc, todo, force, file, held, targets, additions>>
ghosts == <<disturbed, shared, overtaken, settled>>
bounds == <<edits, kills, runs>>
vars == <<disk, store, work, bounds, ghosts>>

-----------------------------------------------------------------------------
(* What parsing a file yields (indexSource) and the store's operations.     *)

Ids == Files \X (Names \cup {Top})
Bare(n) == <<NoFile, n>>

\* The file's own node and its declarations.
Declared(f, c) == {<<f, n>> : n \in c.declares \cup {Top}}

\* A call to a name of the same file is resolved; any other stays a bare name.
Calls(f, c) ==
    {<< <<f, call[1]>>,
        IF call[2] \in c.declares THEN <<f, call[2]>> ELSE Bare(call[2]) >> : call \in c.calls}

NodesIn(f) == {id \in nodes : id[1] = f}

\* Only the incoming edges go.
RemoveFileIncoming(f) ==
    /\ edges' = {e \in edges : e[2] \notin NodesIn(f)}
    /\ nodes' = nodes \ NodesIn(f)

\* The edges go and the nodes stay, to be overwritten by the upsert.
RemoveFileMerges(f) ==
    /\ edges' = {e \in edges : e[1] \notin NodesIn(f) /\ e[2] \notin NodesIn(f)}
    /\ UNCHANGED nodes

\* One transaction: every edge that touches a node of the file, then the nodes.
removeFile(f) ==
    /\ edges' = {e \in edges : e[1] \notin NodesIn(f) /\ e[2] \notin NodesIn(f)}
    /\ nodes' = nodes \ NodesIn(f)

\* The symbols (not files) whose bare name no other symbol has.
Unambiguous ==
    {id \in nodes : /\ id[2] # Top
                    /\ \A other \in nodes : other[2] = id[2] => other = id}

\* neighbours() for dependents().
CallersBackwards(n) == {id \in nodes : <<Bare(n), id>> \in edges}

\* dependents(name) at depth 1: the nodes with a call edge to the bare name.
Callers(n) == {id \in nodes : <<id, Bare(n)>> \in edges}

-----------------------------------------------------------------------------
(* The indexers: Session.index, indexFiles, resolveCrossFileCalls.          *)

Init ==
    /\ disk \in [Files -> Contents \cup {Absent}]
    /\ nodes = {} /\ edges = {} /\ record = [f \in Files |-> Absent]
    /\ pc = [p \in Indexers |-> "idle"]
    /\ todo = [p \in Indexers |-> {}]
    /\ force = [p \in Indexers |-> FALSE]
    /\ file = [p \in Indexers |-> NoFile]
    /\ held = [p \in Indexers |-> Absent]
    /\ targets = [p \in Indexers |-> {}]
    /\ additions = [p \in Indexers |-> {}]
    /\ edits = 0 /\ kills = 0 /\ runs = 0
    /\ disturbed = {} /\ shared = {} /\ overtaken = {} /\ settled = TRUE

\* The working tree changes: an edit, a new file, a deletion, a revert.
Edit ==
    /\ edits < MaxEdits
    /\ \E f \in Files, c \in Contents \cup {Absent} :
          c # disk[f] /\ disk' = [disk EXCEPT ![f] = c]
    /\ edits' = edits + 1
    /\ UNCHANGED <<store, work, kills, runs, ghosts>>

Goes(p, from, to) == pc[p] = from /\ pc' = [pc EXCEPT ![p] = to]

\* Session.index lists the files that exist.
StartIndex(p) ==
    /\ runs < MaxRuns
    /\ Goes(p, "idle", "next")
    /\ runs' = runs + 1
    /\ \E f \in BOOLEAN : force' = [force EXCEPT ![p] = f]
    /\ todo' = [todo EXCEPT ![p] = {f \in Files : disk[f] # Absent}]
    /\ UNCHANGED <<disk, store, file, held, targets, additions, edits, kills, ghosts>>

\* readFileSync of the next path; one that is gone is passed over.
ReadSource(p) ==
    /\ pc[p] = "next"
    /\ \E f \in todo[p] :
          /\ todo' = [todo EXCEPT ![p] = @ \ {f}]
          /\ IF disk[f] = Absent
             THEN UNCHANGED <<pc, file, held>>
             ELSE /\ pc' = [pc EXCEPT ![p] = "check"]
                  /\ file' = [file EXCEPT ![p] = f]
                  /\ held' = [held EXCEPT ![p] = disk[f]]
    /\ UNCHANGED <<disk, store, force, targets, additions, bounds, ghosts>>

Leave(p) == file' = [file EXCEPT ![p] = NoFile] /\ held' = [held EXCEPT ![p] = Absent]

\* A file whose recorded hash is the one just read is skipped.
Unchanged(p) == ~force[p] /\ record[file[p]] = held[p]

SkipUnchanged(p) ==
    /\ Goes(p, "check", "next")
    /\ Unchanged(p)
    /\ Leave(p)
    /\ UNCHANGED <<disk, store, todo, force, targets, additions, bounds, ghosts>>

\* The parser answers after an await ...
ParseSource(p) ==
    /\ Goes(p, "check", "remove")
    /\ ~Unchanged(p)
    /\ UNCHANGED <<disk, store, todo, force, file, held, targets, additions, bounds, ghosts>>

\* ... or gives no tree, and the file is passed over.
ParseFails(p) ==
    /\ Goes(p, "check", "next")
    /\ ~Unchanged(p)
    /\ Leave(p)
    /\ UNCHANGED <<disk, store, todo, force, targets, additions, bounds, ghosts>>

\* Between removeFile and putFileRecord.
Rewriting == {"nodes", "edges", "record"}
Rewrites(p, f) == pc[p] \in Rewriting /\ file[p] = f
Others(p) == Indexers \ {p}

\* Between the reading of the names and the writing of the edges.
Resolving == {"callers"}
Overtakes(p) == overtaken' = overtaken \cup {q \in Others(p) : pc[q] \in Resolving}

RemoveOld(p) ==
    /\ Goes(p, "remove", "nodes")
    /\ removeFile(file[p])
    /\ disturbed' = IF \E q \in Others(p) : Rewrites(q, file[p])
                    THEN disturbed \cup {file[p]}
                    ELSE disturbed \ {file[p]}
    /\ shared' = IF \E q \in Others(p) : Rewrites(q, file[p]) \/ pc[q] \in Resolving
                 THEN shared \cup {file[p]}
                 ELSE shared
    /\ Overtakes(p)
    /\ settled' = FALSE
    /\ UNCHANGED <<disk, record, todo, force, file, held, targets, additions, bounds>>

\* An upsert by id.
PutNodes(p) ==
    /\ Goes(p, "nodes", "edges")
    /\ nodes' = nodes \cup Declared(file[p], held[p])
    /\ Overtakes(p)
    /\ settled' = FALSE
    /\ UNCHANGED <<disk, edges, record, todo, force, file, held, targets, additions, bounds,
                   disturbed, shared>>

\* INSERT OR IGNORE.
PutEdges(p) ==
    /\ Goes(p, "edges", "record")
    /\ edges' = edges \cup Calls(file[p], held[p])
    /\ Overtakes(p)
    /\ settled' = FALSE
    /\ UNCHANGED <<disk, nodes, record, todo, force, file, held, targets, additions, bounds,
                   disturbed, shared>>

PutFileRecord(p) ==
    /\ Goes(p, "record", "next")
    /\ record' = [record EXCEPT ![file[p]] = held[p]]
    /\ Leave(p)
    /\ UNCHANGED <<disk, nodes, edges, todo, force, targets, additions, bounds, ghosts>>

\* findNodes({}), grouped by name.
ReadNames(p) ==
    /\ Goes(p, "next", "callers")
    /\ todo[p] = {}
    /\ targets' = [targets EXCEPT ![p] = Unambiguous]
    /\ UNCHANGED <<disk, store, todo, force, file, held, additions, bounds, ghosts>>

\* One query for each unique name: the callers recorded against the bare name.
ReadCallers(p) ==
    /\ pc[p] = "callers"
    /\ \E t \in targets[p] :
          /\ targets' = [targets EXCEPT ![p] = @ \ {t}]
          /\ additions' = [additions EXCEPT ![p] = @ \cup (Callers(t[2]) \X {t})]
    /\ UNCHANGED <<disk, store, pc, todo, force, file, held, bounds, ghosts>>

PutResolved(p) ==
    /\ Goes(p, "callers", "idle")
    /\ targets[p] = {}
    /\ edges' = edges \cup additions[p]
    /\ additions' = [additions EXCEPT ![p] = {}]
    /\ force' = [force EXCEPT ![p] = FALSE]
    /\ settled' = (settled \/ p \notin overtaken)
    /\ overtaken' = overtaken \ {p}
    /\ UNCHANGED <<disk, nodes, record, todo, file, held, targets, bounds, disturbed, shared>>

\* The process dies, or a statement or the parser throws out of index().
Stop(p) ==
    /\ kills < MaxKills
    /\ pc[p] # "idle"
    /\ pc' = [pc EXCEPT ![p] = "idle"]
    /\ todo' = [todo EXCEPT ![p] = {}]
    /\ targets' = [targets EXCEPT ![p] = {}]
    /\ additions' = [additions EXCEPT ![p] = {}]
    /\ force' = [force EXCEPT ![p] = FALSE]
    /\ Leave(p)
    /\ kills' = kills + 1
    /\ overtaken' = overtaken \ {p}
    /\ disturbed' = IF pc[p] \in Rewriting THEN disturbed \cup {file[p]} ELSE disturbed
    /\ UNCHANGED <<disk, store, edits, runs, shared, settled>>

Next ==
    \/ Edit
    \/ \E p \in Indexers :
          \/ StartIndex(p)
          \/ ReadSource(p) \/ SkipUnchanged(p) \/ ParseSource(p) \/ ParseFails(p)
          \/ RemoveOld(p) \/ PutNodes(p) \/ PutEdges(p) \/ PutFileRecord(p)
          \/ ReadNames(p) \/ ReadCallers(p) \/ PutResolved(p)
          \/ Stop(p)

Spec == Init /\ [][Next]_vars

-----------------------------------------------------------------------------
(* Properties.                                                              *)

Steps == {"idle", "next", "check", "remove"} \cup Rewriting \cup Resolving
CallEdges == Ids \X (Ids \cup {Bare(n) : n \in Names})

\* The types; an indexer at a file holds a path and a content.
TypeOK ==
    /\ disk \in [Files -> Contents \cup {Absent}]
    /\ nodes \subseteq Ids
    /\ edges \subseteq CallEdges
    /\ record \in [Files -> Contents \cup {Absent}]
    /\ pc \in [Indexers -> Steps]
    /\ todo \in [Indexers -> SUBSET Files]
    /\ force \in [Indexers -> BOOLEAN]
    /\ file \in [Indexers -> Files \cup {NoFile}]
    /\ held \in [Indexers -> Contents \cup {Absent}]
    /\ \A p \in Indexers : pc[p] \in {"check", "remove"} \cup Rewriting =>
                              file[p] \in Files /\ held[p] \in Contents
    /\ targets \in [Indexers -> SUBSET Ids]
    /\ additions \in [Indexers -> SUBSET (Ids \X Ids)]
    /\ edits \in 0..MaxEdits /\ kills \in 0..MaxKills /\ runs \in 0..MaxRuns
    /\ disturbed \subseteq Files /\ shared \subseteq Files
    /\ overtaken \subseteq Indexers /\ settled \in BOOLEAN

Undisturbed(f) == f \notin disturbed /\ \A p \in Indexers : ~Rewrites(p, f)

\* What the skip relies on (types.ts: "an unchanged hash means the file can be
\* skipped"): the graph holds exactly the symbols, and all the calls, of the
\* content a file's record names -- whatever other files, other sessions, edits
\* and kills did -- unless the file's last rewriting was cut or shared.
RecordTellsGraph ==
    \A f \in Files : Undisturbed(f) =>
        IF record[f] = Absent
        THEN NodesIn(f) = {}
        ELSE NodesIn(f) = Declared(f, record[f]) /\ Calls(f, record[f]) \subseteq edges

\* Replace rather than merge: no call survives the edit that removed it.  An
\* edge out of a file is a call its recorded content makes, or leads to another
\* file's symbol of a name the content calls -- unless two sessions ever rewrote
\* that file together, or one rewrote it while another resolved.
NoCallSurvives ==
    \A e \in edges : LET f == e[1][1] IN
        Undisturbed(f) /\ f \notin shared =>
            /\ record[f] # Absent
            /\ \/ e \in Calls(f, record[f])
               \/ e[2][1] # f /\ <<e[1], Bare(e[2][2])>> \in Calls(f, record[f])

\* After a resolution nobody overtook, and until the next rewriting, every call
\* of a unique name is answerable: rewriting the callee's file drops the edges
\* its unchanged callers own, and the resolution brings all of them back.
SettledIsResolved ==
    settled => \A t \in Unambiguous : \A id \in nodes :
                  <<id, Bare(t[2])>> \in edges => <<id, t>> \in edges

\* "A wrong edge is worse than a missing one": a settled graph has no edge to
\* another file's symbol whose name is declared twice.
NothingIsGuessed ==
    settled => \A e \in edges :
                  e[2] \in nodes /\ e[1][1] # e[2][1] => e[2] \in Unambiguous

=============================================================================
