-------------------------- MODULE GraphIndexProofs --------------------------
(***************************************************************************)
(* Proofs about the code graph, for any files, contents, number of         *)
(* indexers and bounds.  GraphInv says what a file looks like while one    *)
(* indexer is between its four transactions (InProgress) and that two      *)
(* indexers there mark the file disturbed (OneWriter).  CallInv says where *)
(* every edge comes from, and SettledInv what an indexer resolves from.    *)
(***************************************************************************)
EXTENDS GraphIndex, TLAPS

USE DEF Goes, Leave, Others

-----------------------------------------------------------------------------
(* Parsing.                                                                 *)

LEMMA Parsed ==
    ASSUME NEW f \in Files, NEW c \in Contents
    PROVE  /\ Declared(f, c) \subseteq Ids
           /\ Calls(f, c) \subseteq CallEdges
           /\ \A id \in Declared(f, c) : id[1] = f
           /\ \A e \in Calls(f, c) : e[1][1] = f /\ e[2][1] \in {f, NoFile}
<1>1. /\ c.declares \subseteq Names
      /\ c.calls \subseteq (c.declares \cup {Top}) \X Names
  BY ContentsAssumption
<1>2. Declared(f, c) \subseteq Ids /\ \A id \in Declared(f, c) : id[1] = f
  BY <1>1 DEF Declared, Ids
<1>3. ASSUME NEW call \in c.calls
      PROVE  /\ <<f, call[1]>> \in Ids
             /\ (IF call[2] \in c.declares THEN <<f, call[2]>> ELSE Bare(call[2]))
                    \in Ids \cup {Bare(n) : n \in Names}
  BY <1>1, <1>3 DEF Ids, Bare
<1>4. Calls(f, c) \subseteq CallEdges
  <2> SUFFICES ASSUME NEW e \in Calls(f, c)
               PROVE  e \in CallEdges
    OBVIOUS
  <2>1. PICK call \in c.calls :
           e = << <<f, call[1]>>,
                  IF call[2] \in c.declares THEN <<f, call[2]>> ELSE Bare(call[2]) >>
    BY DEF Calls
  <2> QED
    BY <1>3, <2>1 DEF CallEdges
<1>5. \A e \in Calls(f, c) : e[1][1] = f /\ e[2][1] \in {f, NoFile}
  BY DEF Calls, Bare
<1> QED
  BY <1>2, <1>4, <1>5

-----------------------------------------------------------------------------
(* Types.                                                                   *)

LEMMA TypesInit == Init => TypeOK
<1> SUFFICES ASSUME Init
             PROVE  TypeOK
  OBVIOUS
<1>1. edits \in 0..MaxEdits /\ kills \in 0..MaxKills /\ runs \in 0..MaxRuns
  BY BoundsAssumption DEF Init
<1>2. nodes \subseteq Ids /\ edges \subseteq CallEdges
  BY DEF Init
<1>3. /\ pc \in [Indexers -> Steps]
      /\ \A p \in Indexers : pc[p] \in {"check", "remove"} \cup Rewriting =>
                               file[p] \in Files /\ held[p] \in Contents
  BY DEF Init, Steps, Rewriting
<1> QED
  BY <1>1, <1>2, <1>3 DEF Init, TypeOK

LEMMA TypesNext == TypeOK /\ [Next]_vars => TypeOK'
<1> SUFFICES ASSUME TypeOK, [Next]_vars
             PROVE  TypeOK'
  OBVIOUS
<1> USE DEF TypeOK, Steps, Rewriting, Resolving
<1>1. CASE Edit
  BY <1>1, BoundsAssumption DEF Edit, store, work, ghosts
<1>2. ASSUME NEW p \in Indexers, StartIndex(p)
      PROVE  TypeOK'
  BY <1>2, BoundsAssumption DEF StartIndex, store, ghosts
<1>3. ASSUME NEW p \in Indexers, ReadSource(p)
      PROVE  TypeOK'
  BY <1>3 DEF ReadSource, store, bounds, ghosts
<1>4. ASSUME NEW p \in Indexers, SkipUnchanged(p) \/ ParseSource(p) \/ ParseFails(p)
      PROVE  TypeOK'
  BY <1>4 DEF SkipUnchanged, ParseSource, ParseFails, store, bounds, ghosts
<1>5. ASSUME NEW p \in Indexers, RemoveOld(p)
      PROVE  TypeOK'
  BY <1>5 DEF RemoveOld, removeFile, Overtakes, bounds
<1>6. ASSUME NEW p \in Indexers, PutNodes(p)
      PROVE  TypeOK'
  <2>1. Declared(file[p], held[p]) \subseteq Ids
    BY <1>6, Parsed DEF PutNodes
  <2> QED
    BY <1>6, <2>1 DEF PutNodes, Overtakes, bounds
<1>7. ASSUME NEW p \in Indexers, PutEdges(p)
      PROVE  TypeOK'
  <2>1. Calls(file[p], held[p]) \subseteq CallEdges
    BY <1>7, Parsed DEF PutEdges
  <2> QED
    BY <1>7, <2>1 DEF PutEdges, Overtakes, bounds
<1>8. ASSUME NEW p \in Indexers, PutFileRecord(p)
      PROVE  TypeOK'
  BY <1>8 DEF PutFileRecord, bounds, ghosts
<1>9. ASSUME NEW p \in Indexers, ReadNames(p)
      PROVE  TypeOK'
  BY <1>9 DEF ReadNames, Unambiguous, store, bounds, ghosts
<1>10. ASSUME NEW p \in Indexers, ReadCallers(p)
       PROVE  TypeOK'
  <2>1. PICK t \in targets[p] :
           /\ targets' = [targets EXCEPT ![p] = @ \ {t}]
           /\ additions' = [additions EXCEPT ![p] = @ \cup (Callers(t[2]) \X {t})]
    BY <1>10 DEF ReadCallers
  <2>2. Callers(t[2]) \X {t} \subseteq Ids \X Ids
    BY DEF Callers
  <2> QED
    BY <1>10, <2>1, <2>2 DEF ReadCallers, store, bounds, ghosts
<1>11. ASSUME NEW p \in Indexers, PutResolved(p)
       PROVE  TypeOK'
  <2>1. additions[p] \subseteq CallEdges
    BY DEF CallEdges
  <2> QED
    BY <1>11, <2>1 DEF PutResolved, bounds
<1>12. ASSUME NEW p \in Indexers, Stop(p)
       PROVE  TypeOK'
  BY <1>12, BoundsAssumption DEF Stop, store
<1>13. CASE UNCHANGED vars
  BY <1>13 DEF vars, store, work, bounds, ghosts
<1> QED
  BY <1>1, <1>2, <1>3, <1>4, <1>5, <1>6, <1>7, <1>8, <1>9, <1>10, <1>11, <1>12, <1>13 DEF Next

-----------------------------------------------------------------------------
(* What a record says of the graph.                                         *)

\* Two indexers between the transactions of one file have marked it.
OneWriter ==
    \A p, q \in Indexers :
        p # q /\ pc[p] \in Rewriting /\ pc[q] \in Rewriting /\ file[p] = file[q] =>
            file[p] \in disturbed

\* The tables of file f as one indexer leaves them before step `at'.
Half(f, c, at) ==
    /\ at = "nodes" => NodesIn(f) = {}
    /\ at # "nodes" => NodesIn(f) = Declared(f, c)
    /\ at = "record" => Calls(f, c) \subseteq edges

InProgress ==
    \A p \in Indexers :
        pc[p] \in Rewriting /\ file[p] \notin disturbed => Half(file[p], held[p], pc[p])

GraphInv == TypeOK /\ OneWriter /\ InProgress /\ RecordTellsGraph

\* A step that writes no node and no record, removes no edge, and moves no
\* indexer into, out of or within a rewriting keeps all three.
LEMMA ElsewhereKeeps ==
    ASSUME OneWriter, InProgress, RecordTellsGraph,
           nodes' = nodes, edges \subseteq edges', record' = record, disturbed' = disturbed,
           \A p \in Indexers :
               \/ pc'[p] = pc[p] /\ file'[p] = file[p] /\ held'[p] = held[p]
               \/ pc[p] \notin Rewriting /\ pc'[p] \notin Rewriting
    PROVE  OneWriter' /\ InProgress' /\ RecordTellsGraph'
<1>1. OneWriter'
  BY DEF OneWriter
<1>2. \A f \in Files : NodesIn(f)' = NodesIn(f)
  BY DEF NodesIn
<1>3. InProgress'
  BY DEF InProgress, Half, NodesIn
<1>4. RecordTellsGraph'
  <2> SUFFICES ASSUME NEW f \in Files, Undisturbed(f)'
               PROVE  IF record[f] = Absent
                      THEN NodesIn(f) = {}
                      ELSE NodesIn(f) = Declared(f, record[f]) /\ Calls(f, record[f]) \subseteq edges
    BY <1>2 DEF RecordTellsGraph
  <2>1. Undisturbed(f)
    BY DEF Undisturbed, Rewrites
  <2> QED
    BY <2>1 DEF RecordTellsGraph
<1> QED
  BY <1>1, <1>3, <1>4

\* Removing one file leaves the nodes and the calls of every other file: a call
\* is to a symbol of its own file or to a bare name.
LEMMA RemoveOldFrame ==
    ASSUME TypeOK, NEW p \in Indexers, RemoveOld(p)
    PROVE  /\ file[p] \in Files
           /\ NodesIn(file[p])' = {}
           /\ \A f \in Files : f # file[p] => NodesIn(f)' = NodesIn(f)
           /\ \A f \in Files, c \in Contents :
                 f # file[p] /\ Calls(f, c) \subseteq edges => Calls(f, c) \subseteq edges'
<1>1. file[p] \in Files
  BY DEF TypeOK, RemoveOld
<1>2. NodesIn(file[p])' = {} /\ \A f \in Files : f # file[p] => NodesIn(f)' = NodesIn(f)
  BY DEF RemoveOld, removeFile, NodesIn
<1>3. ASSUME NEW f \in Files, NEW c \in Contents, f # file[p], Calls(f, c) \subseteq edges,
             NEW e \in Calls(f, c)
      PROVE  e \in edges'
  <2>1. e[1][1] = f /\ e[2][1] \in {f, NoFile}
    BY Parsed
  <2>2. e[1] \notin NodesIn(file[p]) /\ e[2] \notin NodesIn(file[p])
    BY <1>1, <1>3, <2>1, OutsidersAssumption DEF NodesIn
  <2> QED
    BY <1>3, <2>2 DEF RemoveOld, removeFile
<1> QED
  BY <1>1, <1>2, <1>3

LEMMA RemoveOldKeeps ==
    ASSUME GraphInv, NEW p \in Indexers, RemoveOld(p)
    PROVE  OneWriter' /\ InProgress' /\ RecordTellsGraph'
<1> USE DEF GraphInv
<1>1. /\ file[p] \in Files
      /\ NodesIn(file[p])' = {}
      /\ \A f \in Files : f # file[p] => NodesIn(f)' = NodesIn(f)
      /\ \A f \in Files, c \in Contents :
            f # file[p] /\ Calls(f, c) \subseteq edges => Calls(f, c) \subseteq edges'
  BY RemoveOldFrame
<1>2. /\ pc[p] = "remove" /\ pc' = [pc EXCEPT ![p] = "nodes"] /\ pc'[p] = "nodes"
      /\ \A q \in Indexers : q # p => pc'[q] = pc[q]
      /\ file' = file /\ held' = held /\ record' = record
  BY DEF RemoveOld, TypeOK
<1>3. \A f \in Files : f # file[p] => (f \in disturbed' <=> f \in disturbed)
  BY DEF RemoveOld
<1>4. file[p] \notin disturbed' =>
         \A q \in Indexers : q # p => ~(pc[q] \in Rewriting /\ file[q] = file[p])
  BY DEF RemoveOld, Rewrites
<1>5. \A q \in Indexers : pc[q] \in Rewriting => file[q] \in Files /\ held[q] \in Contents
  BY DEF TypeOK
<1>6. OneWriter'
  <2> SUFFICES ASSUME NEW q \in Indexers, NEW s \in Indexers, q # s,
                      pc'[q] \in Rewriting, pc'[s] \in Rewriting, file[q] = file[s]
               PROVE  file[q] \in disturbed'
    BY <1>2 DEF OneWriter
  <2>1. CASE q = p \/ s = p
    BY <1>2, <1>4, <2>1
  <2>2. CASE q # p /\ s # p
    <3>1. file[q] \in disturbed /\ file[q] \in Files
      BY <1>2, <1>5, <2>2 DEF OneWriter
    <3>2. CASE file[q] = file[p]
      BY <1>2, <1>4, <2>2, <3>2
    <3> QED
      BY <1>3, <3>1, <3>2
  <2> QED
    BY <2>1, <2>2
<1>7. InProgress'
  <2> SUFFICES ASSUME NEW q \in Indexers, pc'[q] \in Rewriting, file[q] \notin disturbed'
               PROVE  Half(file[q], held[q], pc[q])'
    BY <1>2 DEF InProgress
  <2>1. CASE q = p
    BY <1>1, <1>2, <2>1 DEF Half
  <2>2. CASE q # p
    <3>1. file[q] # file[p] /\ file[q] \in Files /\ held[q] \in Contents
      BY <1>2, <1>4, <1>5, <2>2
    <3>2. Half(file[q], held[q], pc[q])
      BY <1>2, <1>3, <2>2, <3>1 DEF InProgress
    <3> QED
      BY <1>1, <1>2, <2>2, <3>1, <3>2 DEF Half
  <2> QED
    BY <2>1, <2>2
<1>8. RecordTellsGraph'
  <2> SUFFICES ASSUME NEW f \in Files, Undisturbed(f)'
               PROVE  (IF record[f] = Absent
                       THEN NodesIn(f) = {}
                       ELSE NodesIn(f) = Declared(f, record[f]) /\ Calls(f, record[f]) \subseteq edges)'
    BY DEF RecordTellsGraph
  <2>1. f # file[p]
    BY <1>2 DEF Undisturbed, Rewrites, Rewriting
  <2>2. Undisturbed(f)
    BY <1>2, <1>3, <2>1 DEF Undisturbed, Rewrites, Rewriting
  <2>3. record[f] \in Contents \cup {Absent}
    BY DEF TypeOK
  <2> QED
    BY <1>1, <1>2, <2>1, <2>2, <2>3 DEF RecordTellsGraph
<1> QED
  BY <1>6, <1>7, <1>8

\* putNodes and putEdges write the file they are at, and another indexer is at
\* it only if it is disturbed.
LEMMA AloneAtFile ==
    ASSUME TypeOK, OneWriter, NEW p \in Indexers, pc[p] \in Rewriting,
           NEW q \in Indexers, q # p, pc[q] \in Rewriting, file[q] \notin disturbed
    PROVE  file[q] # file[p]
  BY DEF OneWriter

LEMMA PutNodesKeeps ==
    ASSUME GraphInv, NEW p \in Indexers, PutNodes(p)
    PROVE  OneWriter' /\ InProgress' /\ RecordTellsGraph'
<1> USE DEF GraphInv
<1>1. /\ pc[p] = "nodes" /\ pc' = [pc EXCEPT ![p] = "edges"] /\ pc'[p] = "edges"
      /\ \A q \in Indexers : q # p => pc'[q] = pc[q]
      /\ file' = file /\ held' = held /\ record' = record /\ edges' = edges
      /\ disturbed' = disturbed
      /\ \A q \in Indexers : pc'[q] \in Rewriting <=> pc[q] \in Rewriting
  BY DEF PutNodes, TypeOK, Rewriting
<1>2. /\ file[p] \in Files /\ held[p] \in Contents
      /\ \A id \in Declared(file[p], held[p]) : id[1] = file[p]
  BY <1>1, Parsed DEF TypeOK, Rewriting
<1>3. /\ NodesIn(file[p])' = NodesIn(file[p]) \cup Declared(file[p], held[p])
      /\ \A f \in Files : f # file[p] => NodesIn(f)' = NodesIn(f)
  BY <1>2 DEF PutNodes, NodesIn
<1>4. OneWriter'
  BY <1>1 DEF OneWriter
<1>5. InProgress'
  <2> SUFFICES ASSUME NEW q \in Indexers, pc'[q] \in Rewriting, file[q] \notin disturbed
               PROVE  Half(file[q], held[q], pc[q])'
    BY <1>1 DEF InProgress
  <2>1. Half(file[q], held[q], pc[q])
    BY <1>1 DEF InProgress
  <2>2. CASE q = p
    BY <1>1, <1>3, <2>1, <2>2 DEF Half
  <2>3. CASE q # p
    <3>1. file[q] # file[p] /\ file[q] \in Files
      BY <1>1, <2>3, AloneAtFile DEF TypeOK, Rewriting
    <3> QED
      BY <1>1, <1>3, <2>1, <2>3, <3>1 DEF Half
  <2> QED
    BY <2>2, <2>3
<1>6. RecordTellsGraph'
  <2> SUFFICES ASSUME NEW f \in Files, Undisturbed(f)'
               PROVE  (IF record[f] = Absent
                       THEN NodesIn(f) = {}
                       ELSE NodesIn(f) = Declared(f, record[f]) /\ Calls(f, record[f]) \subseteq edges)'
    BY DEF RecordTellsGraph
  <2>1. f # file[p] /\ Undisturbed(f)
    BY <1>1 DEF Undisturbed, Rewrites, Rewriting
  <2> QED
    BY <1>1, <1>3, <2>1 DEF RecordTellsGraph
<1> QED
  BY <1>4, <1>5, <1>6

LEMMA PutEdgesKeeps ==
    ASSUME GraphInv, NEW p \in Indexers, PutEdges(p)
    PROVE  OneWriter' /\ InProgress' /\ RecordTellsGraph'
<1> USE DEF GraphInv
<1>1. /\ pc[p] = "edges" /\ pc' = [pc EXCEPT ![p] = "record"] /\ pc'[p] = "record"
      /\ \A q \in Indexers : q # p => pc'[q] = pc[q]
      /\ file' = file /\ held' = held /\ record' = record
      /\ edges' = edges \cup Calls(file[p], held[p])
      /\ disturbed' = disturbed
      /\ \A q \in Indexers : pc'[q] \in Rewriting <=> pc[q] \in Rewriting
      /\ \A f \in Files : NodesIn(f)' = NodesIn(f)
  BY DEF PutEdges, TypeOK, Rewriting, NodesIn
<1>2. OneWriter'
  BY <1>1 DEF OneWriter
<1>3. InProgress'
  <2> SUFFICES ASSUME NEW q \in Indexers, pc'[q] \in Rewriting, file[q] \notin disturbed
               PROVE  Half(file[q], held[q], pc[q])'
    BY <1>1 DEF InProgress
  <2>1. Half(file[q], held[q], pc[q]) /\ file[q] \in Files
    BY <1>1 DEF InProgress, TypeOK, Rewriting
  <2>2. CASE q = p
    BY <1>1, <2>1, <2>2 DEF Half
  <2>3. CASE q # p
    BY <1>1, <2>1, <2>3 DEF Half
  <2> QED
    BY <2>2, <2>3
<1>4. RecordTellsGraph'
  <2> SUFFICES ASSUME NEW f \in Files, Undisturbed(f)'
               PROVE  (IF record[f] = Absent
                       THEN NodesIn(f) = {}
                       ELSE NodesIn(f) = Declared(f, record[f]) /\ Calls(f, record[f]) \subseteq edges)'
    BY DEF RecordTellsGraph
  <2>1. Undisturbed(f)
    BY <1>1 DEF Undisturbed, Rewrites, Rewriting
  <2> QED
    BY <1>1, <2>1 DEF RecordTellsGraph
<1> QED
  BY <1>2, <1>3, <1>4

LEMMA PutFileRecordKeeps ==
    ASSUME GraphInv, NEW p \in Indexers, PutFileRecord(p)
    PROVE  OneWriter' /\ InProgress' /\ RecordTellsGraph'
<1> USE DEF GraphInv
<1>1. /\ pc[p] = "record" /\ pc'[p] = "next"
      /\ file[p] \in Files /\ held[p] \in Contents
      /\ \A q \in Indexers : q # p => pc'[q] = pc[q] /\ file'[q] = file[q] /\ held'[q] = held[q]
      /\ record'[file[p]] = held[p]
      /\ \A f \in Files : f # file[p] => record'[f] = record[f]
      /\ disturbed' = disturbed /\ edges' = edges
      /\ \A f \in Files : NodesIn(f)' = NodesIn(f)
  BY DEF PutFileRecord, TypeOK, Rewriting, NodesIn, ghosts
<1>2. OneWriter'
  <2> SUFFICES ASSUME NEW q \in Indexers, NEW s \in Indexers, q # s,
                      pc'[q] \in Rewriting, pc'[s] \in Rewriting, file'[q] = file'[s]
               PROVE  file'[q] \in disturbed
    BY <1>1 DEF OneWriter
  <2>1. q # p /\ s # p
    BY <1>1 DEF Rewriting
  <2> QED
    BY <1>1, <2>1 DEF OneWriter
<1>3. InProgress'
  <2> SUFFICES ASSUME NEW q \in Indexers, pc'[q] \in Rewriting, file'[q] \notin disturbed
               PROVE  Half(file[q], held[q], pc[q])'
    BY <1>1 DEF InProgress
  <2>1. q # p
    BY <1>1 DEF Rewriting
  <2>2. Half(file[q], held[q], pc[q]) /\ file[q] \in Files
    BY <1>1, <2>1 DEF InProgress, TypeOK, Rewriting
  <2> QED
    BY <1>1, <2>1, <2>2 DEF Half
<1>4. RecordTellsGraph'
  <2> SUFFICES ASSUME NEW f \in Files, Undisturbed(f)'
               PROVE  (IF record[f] = Absent
                       THEN NodesIn(f) = {}
                       ELSE NodesIn(f) = Declared(f, record[f]) /\ Calls(f, record[f]) \subseteq edges)'
    BY DEF RecordTellsGraph
  <2>1. CASE f = file[p]
    <3>1. f \notin disturbed
      BY <1>1 DEF Undisturbed
    <3>2. Half(f, held[p], "record")
      BY <1>1, <2>1, <3>1 DEF InProgress, Rewriting
    <3>3. held[p] # Absent
      BY <1>1, OutsidersAssumption
    <3> QED
      BY <1>1, <2>1, <3>2, <3>3 DEF Half
  <2>2. CASE f # file[p]
    <3>1. Undisturbed(f)
      BY <1>1, <2>2 DEF Undisturbed, Rewrites
    <3> QED
      BY <1>1, <2>2, <3>1 DEF RecordTellsGraph
  <2> QED
    BY <2>1, <2>2
<1> QED
  BY <1>2, <1>3, <1>4

LEMMA StopKeeps ==
    ASSUME GraphInv, NEW p \in Indexers, Stop(p)
    PROVE  OneWriter' /\ InProgress' /\ RecordTellsGraph'
<1> USE DEF GraphInv
<1>1. /\ pc'[p] = "idle"
      /\ \A q \in Indexers : q # p => pc'[q] = pc[q] /\ file'[q] = file[q] /\ held'[q] = held[q]
      /\ record' = record /\ edges' = edges
      /\ \A f \in Files : NodesIn(f)' = NodesIn(f)
      /\ disturbed \subseteq disturbed'
      /\ \A f \in Files : Rewrites(p, f) => f \in disturbed'
  BY DEF Stop, TypeOK, NodesIn, Rewrites, store
<1>2. OneWriter'
  <2> SUFFICES ASSUME NEW q \in Indexers, NEW s \in Indexers, q # s,
                      pc'[q] \in Rewriting, pc'[s] \in Rewriting, file'[q] = file'[s]
               PROVE  file'[q] \in disturbed'
    BY DEF OneWriter
  <2>1. q # p /\ s # p
    BY <1>1 DEF Rewriting
  <2> QED
    BY <1>1, <2>1 DEF OneWriter
<1>3. InProgress'
  <2> SUFFICES ASSUME NEW q \in Indexers, pc'[q] \in Rewriting, file'[q] \notin disturbed'
               PROVE  Half(file[q], held[q], pc[q])'
    BY DEF InProgress
  <2>1. q # p
    BY <1>1 DEF Rewriting
  <2>2. Half(file[q], held[q], pc[q]) /\ file[q] \in Files
    BY <1>1, <2>1 DEF InProgress, TypeOK, Rewriting
  <2> QED
    BY <1>1, <2>1, <2>2 DEF Half
<1>4. RecordTellsGraph'
  <2> SUFFICES ASSUME NEW f \in Files, Undisturbed(f)'
               PROVE  (IF record[f] = Absent
                       THEN NodesIn(f) = {}
                       ELSE NodesIn(f) = Declared(f, record[f]) /\ Calls(f, record[f]) \subseteq edges)'
    BY DEF RecordTellsGraph
  <2>1. Undisturbed(f)
    BY <1>1 DEF Undisturbed, Rewrites
  <2> QED
    BY <1>1, <2>1 DEF RecordTellsGraph
<1> QED
  BY <1>2, <1>3, <1>4

LEMMA RecordInvNext == GraphInv /\ [Next]_vars => GraphInv'
<1> SUFFICES ASSUME GraphInv, [Next]_vars
             PROVE  GraphInv'
  OBVIOUS
<1> USE DEF GraphInv
<1>1. TypeOK'
  BY TypesNext
<1>2. CASE Edit \/ UNCHANGED vars
  <2>1. /\ nodes' = nodes /\ edges' = edges /\ record' = record /\ disturbed' = disturbed
        /\ pc' = pc /\ file' = file /\ held' = held
    BY <1>2 DEF Edit, vars, store, work, ghosts
  <2>2. OneWriter' /\ InProgress' /\ RecordTellsGraph'
    BY <2>1, ElsewhereKeeps
  <2> QED
    BY <1>1, <2>2
<1>3. ASSUME NEW p \in Indexers,
             \/ StartIndex(p) \/ ReadSource(p)
             \/ SkipUnchanged(p) \/ ParseSource(p) \/ ParseFails(p)
             \/ ReadNames(p) \/ ReadCallers(p) \/ PutResolved(p)
      PROVE  GraphInv'
  <2>1. /\ nodes' = nodes /\ edges \subseteq edges' /\ record' = record /\ disturbed' = disturbed
        /\ pc[p] \notin Rewriting /\ pc'[p] \notin Rewriting
        /\ \A q \in Indexers : q # p => pc'[q] = pc[q] /\ file'[q] = file[q] /\ held'[q] = held[q]
    <3>1. CASE StartIndex(p)
      BY <3>1 DEF TypeOK, Rewriting, store, ghosts, StartIndex
    <3>2. CASE ReadSource(p)
      BY <3>2 DEF TypeOK, Rewriting, store, ghosts, ReadSource
    <3>3. CASE SkipUnchanged(p) \/ ParseSource(p) \/ ParseFails(p)
      BY <3>3 DEF TypeOK, Rewriting, store, ghosts, SkipUnchanged, ParseSource, ParseFails
    <3>4. CASE ReadNames(p) \/ ReadCallers(p)
      BY <3>4 DEF TypeOK, Rewriting, store, ghosts, ReadNames, ReadCallers
    <3>5. CASE PutResolved(p)
      BY <3>5 DEF TypeOK, Rewriting, store, ghosts, PutResolved
    <3> QED
      BY <1>3, <3>1, <3>2, <3>3, <3>4, <3>5
  <2>2. OneWriter' /\ InProgress' /\ RecordTellsGraph'
    BY <2>1, ElsewhereKeeps
  <2> QED
    BY <1>1, <2>2
<1>4. ASSUME NEW p \in Indexers,
             RemoveOld(p) \/ PutNodes(p) \/ PutEdges(p) \/ PutFileRecord(p) \/ Stop(p)
      PROVE  GraphInv'
  BY <1>1, <1>4, RemoveOldKeeps, PutNodesKeeps, PutEdgesKeeps, PutFileRecordKeeps, StopKeeps
<1> QED
  BY <1>2, <1>3, <1>4 DEF Next

LEMMA RecordInvInit == Init => GraphInv
  BY TypesInit DEF Init, GraphInv, OneWriter, InProgress, RecordTellsGraph, NodesIn, Rewriting

\* Types, and what a record says of the graph, in every reachable state.
THEOREM Invariance == Spec => []GraphInv
  BY RecordInvInit, RecordInvNext, PTL DEF Spec

\* Skipping a file whose hash is recorded is safe: unless the file's last
\* rewriting was cut short or shared with another session, the graph holds
\* exactly the symbols and all the calls of the recorded content.
THEOREM SkippingIsSafe == Spec => []RecordTellsGraph
<1>1. GraphInv => RecordTellsGraph
  BY DEF GraphInv
<1> QED
  BY <1>1, Invariance, PTL

-----------------------------------------------------------------------------
(* No call survives.                                                        *)

\* Only an indexer that resolves has targets and edges to add; a file that was
\* never shared has one writer at most, whom nobody has disturbed.
Tidy ==
    /\ \A p \in Indexers : pc[p] # "callers" => targets[p] = {} /\ additions[p] = {}
    /\ \A p \in Indexers : pc[p] \in Rewriting /\ file[p] \notin shared => file[p] \notin disturbed
    /\ \A p, q \in Indexers :
          p # q /\ pc[p] \in Rewriting /\ pc[q] \in Rewriting /\ file[p] = file[q] =>
              file[p] \in shared

\* Edges have their callers, and no bare name is declared in the caller's file.
EdgesOwned ==
    \A e \in edges : e[1][1] \notin shared =>
        /\ e[1] \in nodes
        /\ e[2][1] = NoFile => <<e[1][1], e[2][2]>> \notin nodes

\* An edge into another file is there for a bare name.
CrossEdgesCalled ==
    \A e \in edges : e[1][1] \notin shared =>
        e[2][1] \in {e[1][1], NoFile} \/ <<e[1], Bare(e[2][2])>> \in edges

\* What an indexer is about to add is still true.
AdditionsCalled ==
    /\ \A p \in Indexers : \A t \in targets[p] : t[1] \notin shared => t \in nodes
    /\ \A p \in Indexers : \A a \in additions[p] : a[1][1] \notin shared =>
          a[1] \in nodes /\ a[2][1] # a[1][1] /\ <<a[1], Bare(a[2][2])>> \in edges

\* The edges out of a file that lead nowhere else are calls of its content.
LocalEdgesHalf ==
    \A p \in Indexers : pc[p] \in Rewriting /\ file[p] \notin shared =>
        \A e \in edges : e[1][1] = file[p] =>
            /\ pc[p] = "record"
            /\ e[2][1] \in {file[p], NoFile} => e \in Calls(file[p], held[p])

LocalEdgesRecorded ==
    \A e \in edges : LET f == e[1][1] IN
        Undisturbed(f) /\ f \notin shared /\ e[2][1] \in {f, NoFile} =>
            record[f] # Absent /\ e \in Calls(f, record[f])

CallRest == /\ Tidy /\ EdgesOwned /\ CrossEdgesCalled /\ AdditionsCalled
            /\ LocalEdgesHalf /\ LocalEdgesRecorded
CallInv == GraphInv /\ CallRest

\* A step outside the rewritings that touches no table.
LEMMA ReadingKeepsCalls ==
    ASSUME CallInv, NEW p \in Indexers,
           nodes' = nodes, edges' = edges, record' = record,
           disturbed' = disturbed, shared' = shared,
           pc[p] \notin Rewriting, pc'[p] \notin Rewriting,
           \A q \in Indexers : q # p => /\ pc'[q] = pc[q] /\ file'[q] = file[q] /\ held'[q] = held[q]
                                        /\ targets'[q] = targets[q] /\ additions'[q] = additions[q],
           pc'[p] # "callers" => targets'[p] = {} /\ additions'[p] = {},
           \A t \in targets'[p] : t[1] \notin shared => t \in nodes,
           \A a \in additions'[p] : a[1][1] \notin shared =>
              a[1] \in nodes /\ a[2][1] # a[1][1] /\ <<a[1], Bare(a[2][2])>> \in edges
    PROVE  CallRest'
<1> USE DEF CallInv, CallRest
<1>1. Tidy'
  BY DEF Tidy
<1>2. EdgesOwned'
  BY DEF EdgesOwned
<1>3. CrossEdgesCalled'
  BY DEF CrossEdgesCalled
<1>4. AdditionsCalled'
  BY DEF AdditionsCalled
<1>5. LocalEdgesHalf'
  BY DEF LocalEdgesHalf
<1>6. LocalEdgesRecorded'
  BY DEF LocalEdgesRecorded, Undisturbed, Rewrites
<1> QED
  BY <1>1, <1>2, <1>3, <1>4, <1>5, <1>6

\* The additions are calls: a unique name that a file calls without declaring it
\* is another file's.
LEMMA ReadCallersCalled ==
    ASSUME CallInv, NEW p \in Indexers, ReadCallers(p), NEW a \in additions'[p],
           a[1][1] \notin shared
    PROVE  a[1] \in nodes /\ a[2][1] # a[1][1] /\ <<a[1], Bare(a[2][2])>> \in edges
<1>1. PICK t \in targets[p] : additions'[p] = additions[p] \cup (Callers(t[2]) \X {t})
  BY DEF ReadCallers, CallInv, GraphInv, TypeOK
<1>2. CASE a \in additions[p]
  BY <1>2 DEF CallInv, CallRest, AdditionsCalled
<1> SUFFICES ASSUME a \in Callers(t[2]) \X {t}
             PROVE  a[1] \in nodes /\ a[2][1] # a[1][1] /\ <<a[1], Bare(a[2][2])>> \in edges
  BY <1>1, <1>2
<1>3. a[1] \in Callers(t[2]) /\ a[2] = t
  OBVIOUS
<1>4. a[1] \in nodes /\ <<a[1], Bare(t[2])>> \in edges
  BY <1>3 DEF Callers
<1>5. <<a[1][1], t[2]>> \notin nodes
  BY <1>4 DEF CallInv, CallRest, EdgesOwned, Bare
<1>6. t \in Ids /\ t = <<t[1], t[2]>>
  BY DEF CallInv, GraphInv, TypeOK, Ids
<1>7. t[1] # a[1][1]
  BY <1>5, <1>6 DEF CallInv, CallRest, AdditionsCalled
<1> QED
  BY <1>3, <1>4, <1>7

LEMMA ReadingCalls ==
    ASSUME CallInv, NEW p \in Indexers,
           \/ StartIndex(p) \/ ReadSource(p)
           \/ SkipUnchanged(p) \/ ParseSource(p) \/ ParseFails(p)
           \/ ReadNames(p) \/ ReadCallers(p)
    PROVE  CallRest'
<1>1. /\ nodes' = nodes /\ edges' = edges /\ record' = record
      /\ disturbed' = disturbed /\ shared' = shared
  BY DEF StartIndex, ReadSource, SkipUnchanged, ParseSource, ParseFails, ReadNames, ReadCallers,
         store, ghosts
<1>2. TypeOK /\ Tidy /\ AdditionsCalled
  BY DEF CallInv, CallRest, GraphInv
<1>3. CASE StartIndex(p) \/ ReadSource(p)
  <2>1. /\ pc[p] \in {"idle", "next"} /\ pc'[p] \in {"next", "check"}
        /\ targets' = targets /\ additions' = additions
        /\ \A q \in Indexers : q # p => pc'[q] = pc[q] /\ file'[q] = file[q] /\ held'[q] = held[q]
    BY <1>2, <1>3 DEF TypeOK, StartIndex, ReadSource
  <2>2. targets[p] = {} /\ additions[p] = {}
    BY <1>2, <2>1 DEF Tidy
  <2> QED
    BY <1>1, <2>1, <2>2, ReadingKeepsCalls DEF Rewriting
<1>4. CASE SkipUnchanged(p) \/ ParseSource(p) \/ ParseFails(p)
  <2>1. /\ pc[p] = "check" /\ pc'[p] \in {"next", "remove"}
        /\ targets' = targets /\ additions' = additions
        /\ \A q \in Indexers : q # p => pc'[q] = pc[q] /\ file'[q] = file[q] /\ held'[q] = held[q]
    BY <1>2, <1>4 DEF TypeOK, SkipUnchanged, ParseSource, ParseFails
  <2>2. targets[p] = {} /\ additions[p] = {}
    BY <1>2, <2>1 DEF Tidy
  <2> QED
    BY <1>1, <2>1, <2>2, ReadingKeepsCalls DEF Rewriting
<1>5. CASE ReadNames(p)
  <2>1. /\ pc[p] = "next" /\ pc'[p] = "callers"
        /\ targets'[p] \subseteq nodes /\ additions' = additions
        /\ \A q \in Indexers : q # p => /\ pc'[q] = pc[q] /\ file'[q] = file[q] /\ held'[q] = held[q]
                                        /\ targets'[q] = targets[q]
    BY <1>2, <1>5 DEF TypeOK, ReadNames, Unambiguous
  <2>2. additions[p] = {}
    BY <1>2, <2>1 DEF Tidy
  <2> QED
    BY <1>1, <2>1, <2>2, ReadingKeepsCalls DEF Rewriting
<1>6. CASE ReadCallers(p)
  <2>1. /\ pc[p] = "callers" /\ pc'[p] = "callers" /\ targets'[p] \subseteq targets[p]
        /\ \A q \in Indexers : q # p => /\ pc'[q] = pc[q] /\ file'[q] = file[q] /\ held'[q] = held[q]
                                     /\ targets'[q] = targets[q] /\ additions'[q] = additions[q]
    BY <1>2, <1>6 DEF TypeOK, ReadCallers
  <2>2. \A a \in additions'[p] : a[1][1] \notin shared =>
           a[1] \in nodes /\ a[2][1] # a[1][1] /\ <<a[1], Bare(a[2][2])>> \in edges
    BY <1>6, ReadCallersCalled
  <2>3. \A t \in targets'[p] : t[1] \notin shared => t \in nodes
    BY <1>2, <2>1 DEF AdditionsCalled
  <2> QED
    BY <1>1, <2>1, <2>2, <2>3, ReadingKeepsCalls DEF Rewriting
<1> QED
  BY <1>3, <1>4, <1>5, <1>6

\* The edges a resolution adds are cross-file edges of calls still recorded.
LEMMA ResolvingCalls ==
    ASSUME CallInv, NEW p \in Indexers, PutResolved(p)
    PROVE  CallRest'
<1> USE DEF CallInv, CallRest, GraphInv
<1>1. /\ pc[p] = "callers" /\ pc'[p] = "idle"
      /\ \A q \in Indexers : q # p => /\ pc'[q] = pc[q]
                                   /\ targets'[q] = targets[q] /\ additions'[q] = additions[q]
      /\ file' = file /\ held' = held
      /\ targets'[p] = {} /\ additions'[p] = {}
      /\ nodes' = nodes /\ edges' = edges \cup additions[p] /\ record' = record
      /\ disturbed' = disturbed /\ shared' = shared
  BY DEF PutResolved, TypeOK
<1>2. \A a \in additions[p] : a[1][1] \notin shared =>
         a[1] \in nodes /\ a[2][1] # a[1][1] /\ <<a[1], Bare(a[2][2])>> \in edges
  BY DEF AdditionsCalled
<1>3. \A a \in additions[p] : a \in Ids \X Ids /\ a[2][1] # NoFile
  BY OutsidersAssumption DEF TypeOK, Ids
<1>4. Tidy'
  BY <1>1 DEF Tidy, Rewriting
<1>5. EdgesOwned'
  BY <1>1, <1>2, <1>3 DEF EdgesOwned
<1>6. CrossEdgesCalled'
  BY <1>1, <1>2 DEF CrossEdgesCalled
<1>7. AdditionsCalled'
  BY <1>1 DEF AdditionsCalled
<1>8. LocalEdgesHalf'
  <2> SUFFICES ASSUME NEW q \in Indexers, pc'[q] \in Rewriting, file[q] \notin shared,
                      NEW e \in edges', e[1][1] = file[q]
               PROVE  /\ pc'[q] = "record"
                      /\ e[2][1] \in {file[q], NoFile} => e \in Calls(file[q], held[q])
    BY <1>1 DEF LocalEdgesHalf
  <2>1. q # p /\ pc[q] \in Rewriting /\ pc'[q] = pc[q]
    BY <1>1 DEF Rewriting
  <2>2. CASE e \in edges
    BY <2>1, <2>2 DEF LocalEdgesHalf
  <2>3. CASE e \in additions[p]
    <3>1. <<e[1], Bare(e[2][2])>> \in edges /\ e[2][1] # file[q] /\ e[2][1] # NoFile
      BY <1>2, <1>3, <2>3
    <3>2. pc[q] = "record"
      BY <2>1, <3>1 DEF LocalEdgesHalf
    <3> QED
      BY <2>1, <3>1, <3>2
  <2> QED
    BY <1>1, <2>2, <2>3
<1>9. LocalEdgesRecorded'
  <2> SUFFICES ASSUME NEW e \in edges', Undisturbed(e[1][1])', e[1][1] \notin shared,
                      e[2][1] \in {e[1][1], NoFile}
               PROVE  record[e[1][1]] # Absent /\ e \in Calls(e[1][1], record[e[1][1]])
    BY <1>1 DEF LocalEdgesRecorded
  <2>1. e \in edges
    BY <1>1, <1>2, <1>3
  <2>2. Undisturbed(e[1][1])
    BY <1>1 DEF Undisturbed, Rewrites, Rewriting
  <2> QED
    BY <2>1, <2>2 DEF LocalEdgesRecorded
<1> QED
  BY <1>4, <1>5, <1>6, <1>7, <1>8, <1>9

\* Removing a file removes every edge out of it, its owners being in the table.
LEMMA RemovingCalls ==
    ASSUME CallInv, NEW p \in Indexers, RemoveOld(p)
    PROVE  CallRest'
<1> USE DEF CallInv, CallRest, GraphInv
<1>1. /\ pc[p] = "remove" /\ pc'[p] = "nodes"
      /\ \A q \in Indexers : q # p => pc'[q] = pc[q]
      /\ file' = file /\ held' = held /\ record' = record
      /\ targets' = targets /\ additions' = additions
      /\ shared \subseteq shared' /\ file[p] \in Files
      /\ \A f \in Files : f # file[p] => /\ f \in shared' <=> f \in shared
                                         /\ f \in disturbed' <=> f \in disturbed
      /\ nodes' = {id \in nodes : id[1] # file[p]}
      /\ edges' \subseteq edges
      /\ \A e \in edges : e[1][1] # file[p] /\ e[2][1] # file[p] => e \in edges'
  BY DEF RemoveOld, removeFile, NodesIn, TypeOK
<1>2. file[p] \notin shared' =>
         /\ file[p] \notin disturbed'
         /\ \A q \in Indexers : q # p =>
               /\ ~(pc[q] \in Rewriting /\ file[q] = file[p])
               /\ pc[q] # "callers"
  BY DEF RemoveOld, Rewrites, Resolving
<1>3. file[p] \notin shared' => \A e \in edges' : e[1][1] # file[p]
  <2> SUFFICES ASSUME file[p] \notin shared', NEW e \in edges', e[1][1] = file[p]
               PROVE  FALSE
    OBVIOUS
  <2>1. e[1] \in nodes
    BY <1>1 DEF EdgesOwned
  <2> QED
    BY <2>1 DEF RemoveOld, removeFile, NodesIn
<1>4. \A e \in edges : e[1][1] \in Files
  BY DEF TypeOK, CallEdges, Ids
<1>5. \A q \in Indexers : pc[q] \in Rewriting => file[q] \in Files /\ held[q] \in Contents
  BY DEF TypeOK
<1>6. Tidy'
  <2>1. \A q \in Indexers : pc'[q] # "callers" => targets'[q] = {} /\ additions'[q] = {}
    BY <1>1 DEF Tidy
  <2>3. ASSUME NEW q \in Indexers, pc'[q] \in Rewriting, file[q] \notin shared'
        PROVE  file[q] \notin disturbed'
    BY <1>1, <1>2, <1>5, <2>3 DEF Tidy
  <2>4. ASSUME NEW q \in Indexers, NEW r \in Indexers, q # r, pc'[q] \in Rewriting,
               pc'[r] \in Rewriting, file[q] = file[r]
        PROVE  file[q] \in shared'
    BY <1>1, <1>2, <2>4 DEF Tidy
  <2> QED
    BY <1>1, <2>1, <2>3, <2>4 DEF Tidy
<1>7. EdgesOwned'
  BY <1>1, <1>3, <1>4 DEF EdgesOwned
<1>8. CrossEdgesCalled'
  <2> SUFFICES ASSUME NEW e \in edges', e[1][1] \notin shared'
               PROVE  e[2][1] \in {e[1][1], NoFile} \/ <<e[1], Bare(e[2][2])>> \in edges'
    BY DEF CrossEdgesCalled
  <2>1. e \in edges /\ e[1][1] # file[p]
    BY <1>1, <1>3
  <2>2. e[2][1] \in {e[1][1], NoFile} \/ <<e[1], Bare(e[2][2])>> \in edges
    BY <1>1, <2>1 DEF CrossEdgesCalled
  <2> QED
    BY <1>1, <2>1, <2>2, OutsidersAssumption DEF Bare
<1>9. AdditionsCalled'
  <2>1. ASSUME NEW q \in Indexers, NEW t \in targets[q], t[1] \notin shared'
        PROVE  t \in nodes'
    <3>1. pc[q] = "callers"
      BY DEF Tidy
    <3>2. t[1] # file[p]
      BY <1>1, <1>2, <2>1, <3>1
    <3> QED
      BY <1>1, <2>1, <3>2 DEF AdditionsCalled
  <2>2. ASSUME NEW q \in Indexers, NEW a \in additions[q], a[1][1] \notin shared'
        PROVE  a[1] \in nodes' /\ a[2][1] # a[1][1] /\ <<a[1], Bare(a[2][2])>> \in edges'
    <3>1. pc[q] = "callers"
      BY DEF Tidy
    <3>2. a[1][1] # file[p]
      BY <1>1, <1>2, <2>2, <3>1
    <3>3. a[1] \in nodes /\ a[2][1] # a[1][1] /\ <<a[1], Bare(a[2][2])>> \in edges
      BY <1>1, <2>2 DEF AdditionsCalled
    <3> QED
      BY <1>1, <3>2, <3>3, OutsidersAssumption DEF Bare
  <2> QED
    BY <1>1, <2>1, <2>2 DEF AdditionsCalled
<1>10. LocalEdgesHalf'
  <2> SUFFICES ASSUME NEW q \in Indexers, pc'[q] \in Rewriting, file[q] \notin shared',
                      NEW e \in edges', e[1][1] = file[q]
               PROVE  /\ pc'[q] = "record"
                      /\ e[2][1] \in {file[q], NoFile} => e \in Calls(file[q], held[q])
    BY <1>1 DEF LocalEdgesHalf
  <2>1. q # p
    BY <1>3
  <2> QED
    BY <1>1, <2>1 DEF LocalEdgesHalf
<1>11. LocalEdgesRecorded'
  <2> SUFFICES ASSUME NEW e \in edges', Undisturbed(e[1][1])', e[1][1] \notin shared',
                      e[2][1] \in {e[1][1], NoFile}
               PROVE  record[e[1][1]] # Absent /\ e \in Calls(e[1][1], record[e[1][1]])
    BY <1>1 DEF LocalEdgesRecorded
  <2>1. e \in edges /\ e[1][1] # file[p] /\ e[1][1] \in Files
    BY <1>1, <1>3, <1>4
  <2>2. Undisturbed(e[1][1])
    BY <1>1, <2>1 DEF Undisturbed, Rewrites, Rewriting
  <2> QED
    BY <1>1, <2>1, <2>2 DEF LocalEdgesRecorded
<1> QED
  BY <1>6, <1>7, <1>8, <1>9, <1>10, <1>11

\* New nodes declare no name a bare edge waits for: the file has no edges yet.
LEMMA DeclaringCalls ==
    ASSUME CallInv, NEW p \in Indexers, PutNodes(p)
    PROVE  CallRest'
<1> USE DEF CallInv, CallRest, GraphInv
<1>1. /\ pc[p] = "nodes" /\ pc'[p] = "edges"
      /\ \A q \in Indexers : q # p => pc'[q] = pc[q]
      /\ file' = file /\ held' = held /\ record' = record /\ edges' = edges
      /\ targets' = targets /\ additions' = additions
      /\ disturbed' = disturbed /\ shared' = shared
      /\ nodes' = nodes \cup Declared(file[p], held[p])
      /\ \A q \in Indexers : pc'[q] \in Rewriting <=> pc[q] \in Rewriting
  BY DEF PutNodes, TypeOK, Rewriting
<1>2. \A id \in Declared(file[p], held[p]) : id[1] = file[p]
  BY <1>1, Parsed DEF TypeOK, Rewriting
<1>3. file[p] \notin shared => \A e \in edges : e[1][1] # file[p]
  BY <1>1 DEF LocalEdgesHalf, Rewriting
<1>4. Tidy'
  BY <1>1 DEF Tidy
<1>5. EdgesOwned'
  <2> SUFFICES ASSUME NEW e \in edges, e[1][1] \notin shared
               PROVE  /\ e[1] \in nodes'
                      /\ e[2][1] = NoFile => <<e[1][1], e[2][2]>> \notin nodes'
    BY <1>1 DEF EdgesOwned
  <2>1. e[1][1] # file[p]
    BY <1>3
  <2>2. <<e[1][1], e[2][2]>> \notin Declared(file[p], held[p])
    BY <1>2, <2>1
  <2> QED
    BY <1>1, <2>2 DEF EdgesOwned
<1>6. CrossEdgesCalled'
  BY <1>1 DEF CrossEdgesCalled
<1>7. AdditionsCalled'
  BY <1>1 DEF AdditionsCalled
<1>8. LocalEdgesHalf'
  <2> SUFFICES ASSUME NEW q \in Indexers, pc'[q] \in Rewriting, file[q] \notin shared,
                      NEW e \in edges, e[1][1] = file[q]
               PROVE  /\ pc'[q] = "record"
                      /\ e[2][1] \in {file[q], NoFile} => e \in Calls(file[q], held[q])
    BY <1>1 DEF LocalEdgesHalf
  <2>1. q # p
    BY <1>3
  <2> QED
    BY <1>1, <2>1 DEF LocalEdgesHalf
<1>9. LocalEdgesRecorded'
  <2>1. \A f : Undisturbed(f)' => Undisturbed(f)
    BY <1>1 DEF Undisturbed, Rewrites
  <2> QED
    BY <1>1, <2>1 DEF LocalEdgesRecorded
<1> QED
  BY <1>4, <1>5, <1>6, <1>7, <1>8, <1>9

\* The callers of the calls a file makes are nodes it has just declared.
LEMMA CallsOwned ==
    ASSUME NEW f \in Files, NEW c \in Contents, NEW e \in Calls(f, c)
    PROVE  /\ e[1] \in Declared(f, c)
           /\ e[2][1] = NoFile => <<f, e[2][2]>> \notin Declared(f, c)
<1>1. PICK call \in c.calls :
         e = << <<f, call[1]>>,
                IF call[2] \in c.declares THEN <<f, call[2]>> ELSE Bare(call[2]) >>
  BY DEF Calls
<1>2. call[1] \in c.declares \cup {Top} /\ call[2] \in Names
  BY ContentsAssumption
<1>3. e[1] \in Declared(f, c)
  BY <1>1, <1>2 DEF Declared
<1>4. ASSUME e[2][1] = NoFile
      PROVE  <<f, e[2][2]>> \notin Declared(f, c)
  <2>1. call[2] \notin c.declares /\ e[2][2] = call[2]
    BY <1>1, <1>4, OutsidersAssumption DEF Bare
  <2> QED
    BY <1>2, <2>1, OutsidersAssumption DEF Declared
<1> QED
  BY <1>3, <1>4

LEMMA CallingCalls ==
    ASSUME CallInv, NEW p \in Indexers, PutEdges(p)
    PROVE  CallRest'
<1> USE DEF CallInv, CallRest, GraphInv
<1>1. /\ pc[p] = "edges" /\ pc'[p] = "record"
      /\ \A q \in Indexers : q # p => pc'[q] = pc[q]
      /\ file' = file /\ held' = held /\ record' = record /\ nodes' = nodes
      /\ targets' = targets /\ additions' = additions
      /\ disturbed' = disturbed /\ shared' = shared
      /\ edges' = edges \cup Calls(file[p], held[p])
      /\ \A q \in Indexers : pc'[q] \in Rewriting <=> pc[q] \in Rewriting
  BY DEF PutEdges, TypeOK, Rewriting
<1>2. file[p] \in Files /\ held[p] \in Contents
  BY <1>1 DEF TypeOK, Rewriting
<1>3. \A e \in Calls(file[p], held[p]) : e[1][1] = file[p] /\ e[2][1] \in {file[p], NoFile}
  BY <1>2, Parsed
<1>4. file[p] \notin shared =>
         /\ NodesIn(file[p]) = Declared(file[p], held[p])
         /\ \A e \in edges : e[1][1] # file[p]
  BY <1>1 DEF LocalEdgesHalf, Tidy, InProgress, Half, Rewriting
<1>5. Tidy'
  BY <1>1 DEF Tidy
<1>6. EdgesOwned'
  <2> SUFFICES ASSUME NEW e \in edges', e[1][1] \notin shared
               PROVE  /\ e[1] \in nodes
                      /\ e[2][1] = NoFile => <<e[1][1], e[2][2]>> \notin nodes
    BY <1>1 DEF EdgesOwned
  <2>1. CASE e \in edges
    BY <2>1 DEF EdgesOwned
  <2>2. CASE e \in Calls(file[p], held[p])
    BY <1>2, <1>3, <1>4, <2>2, CallsOwned DEF NodesIn
  <2> QED
    BY <1>1, <2>1, <2>2
<1>7. CrossEdgesCalled'
  BY <1>1, <1>3 DEF CrossEdgesCalled
<1>8. AdditionsCalled'
  BY <1>1 DEF AdditionsCalled
<1>9. LocalEdgesHalf'
  <2> SUFFICES ASSUME NEW q \in Indexers, pc'[q] \in Rewriting, file[q] \notin shared,
                      NEW e \in edges', e[1][1] = file[q]
               PROVE  /\ pc'[q] = "record"
                      /\ e[2][1] \in {file[q], NoFile} => e \in Calls(file[q], held[q])
    BY <1>1 DEF LocalEdgesHalf
  <2>1. CASE q = p
    BY <1>1, <1>4, <2>1
  <2>2. CASE q # p
    <3>1. file[q] # file[p]
      BY <1>1, <2>2 DEF Tidy, Rewriting
    <3>2. e \in edges
      BY <1>1, <1>3, <3>1
    <3> QED
      BY <1>1, <2>2, <3>2 DEF LocalEdgesHalf
  <2> QED
    BY <2>1, <2>2
<1>10. LocalEdgesRecorded'
  <2> SUFFICES ASSUME NEW e \in edges', Undisturbed(e[1][1])', e[1][1] \notin shared,
                      e[2][1] \in {e[1][1], NoFile}
               PROVE  record[e[1][1]] # Absent /\ e \in Calls(e[1][1], record[e[1][1]])
    BY <1>1 DEF LocalEdgesRecorded
  <2>1. Undisturbed(e[1][1]) /\ e[1][1] # file[p]
    BY <1>1 DEF Undisturbed, Rewrites, Rewriting
  <2>2. e \in edges
    BY <1>1, <1>3, <2>1
  <2> QED
    BY <2>1, <2>2 DEF LocalEdgesRecorded
<1> QED
  BY <1>5, <1>6, <1>7, <1>8, <1>9, <1>10

LEMMA RecordingCalls ==
    ASSUME CallInv, NEW p \in Indexers, PutFileRecord(p)
    PROVE  CallRest'
<1> USE DEF CallInv, CallRest, GraphInv
<1>1. /\ pc[p] = "record" /\ pc'[p] = "next"
      /\ file[p] \in Files /\ held[p] \in Contents
      /\ \A q \in Indexers : q # p => pc'[q] = pc[q] /\ file'[q] = file[q] /\ held'[q] = held[q]
      /\ record'[file[p]] = held[p]
      /\ \A f \in Files : f # file[p] => record'[f] = record[f]
      /\ nodes' = nodes /\ edges' = edges /\ targets' = targets /\ additions' = additions
      /\ disturbed' = disturbed /\ shared' = shared
  BY DEF PutFileRecord, TypeOK, Rewriting, ghosts
<1>2. Tidy'
  BY <1>1 DEF Tidy, Rewriting
<1>3. EdgesOwned'
  BY <1>1 DEF EdgesOwned
<1>4. CrossEdgesCalled'
  BY <1>1 DEF CrossEdgesCalled
<1>5. AdditionsCalled'
  BY <1>1 DEF AdditionsCalled
<1>6. LocalEdgesHalf'
  BY <1>1 DEF LocalEdgesHalf, Rewriting
<1>7. LocalEdgesRecorded'
  <2> SUFFICES ASSUME NEW e \in edges, Undisturbed(e[1][1])', e[1][1] \notin shared,
                      e[2][1] \in {e[1][1], NoFile}
               PROVE  record'[e[1][1]] # Absent /\ e \in Calls(e[1][1], record'[e[1][1]])
    BY <1>1 DEF LocalEdgesRecorded
  <2>1. CASE e[1][1] = file[p]
    <3>1. e \in Calls(file[p], held[p])
      BY <1>1, <2>1 DEF LocalEdgesHalf, Rewriting
    <3> QED
      BY <1>1, <2>1, <3>1, OutsidersAssumption
  <2>2. CASE e[1][1] # file[p]
    <3>1. e[1][1] \in Files
      BY DEF TypeOK, CallEdges, Ids
    <3>2. Undisturbed(e[1][1])
      BY <1>1, <2>2 DEF Undisturbed, Rewrites
    <3> QED
      BY <1>1, <2>2, <3>1, <3>2 DEF LocalEdgesRecorded
  <2> QED
    BY <2>1, <2>2
<1> QED
  BY <1>2, <1>3, <1>4, <1>5, <1>6, <1>7

LEMMA StoppingCalls ==
    ASSUME CallInv, NEW p \in Indexers, Stop(p)
    PROVE  CallRest'
<1> USE DEF CallInv, CallRest, GraphInv
<1>1. /\ pc'[p] = "idle" /\ targets'[p] = {} /\ additions'[p] = {}
      /\ \A q \in Indexers : q # p => /\ pc'[q] = pc[q] /\ file'[q] = file[q] /\ held'[q] = held[q]
                                   /\ targets'[q] = targets[q] /\ additions'[q] = additions[q]
      /\ nodes' = nodes /\ edges' = edges /\ record' = record /\ shared' = shared
      /\ disturbed' = IF pc[p] \in Rewriting THEN disturbed \cup {file[p]} ELSE disturbed
  BY DEF Stop, TypeOK, store
<1>2. Tidy'
  <2>1. ASSUME NEW q \in Indexers, pc'[q] \in Rewriting, file'[q] \notin shared
        PROVE  file'[q] \notin disturbed'
    <3>1. q # p
      BY <1>1, <2>1 DEF Rewriting
    <3>2. file[q] \notin disturbed /\ ~(pc[p] \in Rewriting /\ file[p] = file[q])
      BY <1>1, <2>1, <3>1 DEF Tidy
    <3> QED
      BY <1>1, <3>1, <3>2
  <2>2. ASSUME NEW q \in Indexers, NEW r \in Indexers, q # r, pc'[q] \in Rewriting,
               pc'[r] \in Rewriting, file'[q] = file'[r]
        PROVE  file'[q] \in shared
    BY <1>1, <2>2 DEF Tidy, Rewriting
  <2>3. \A q \in Indexers : pc'[q] # "callers" => targets'[q] = {} /\ additions'[q] = {}
    BY <1>1 DEF Tidy
  <2> QED
    BY <1>1, <2>1, <2>2, <2>3 DEF Tidy
<1>3. EdgesOwned'
  BY <1>1 DEF EdgesOwned
<1>4. CrossEdgesCalled'
  BY <1>1 DEF CrossEdgesCalled
<1>5. AdditionsCalled'
  BY <1>1 DEF AdditionsCalled
<1>6. LocalEdgesHalf'
  BY <1>1 DEF LocalEdgesHalf, Rewriting
<1>7. LocalEdgesRecorded'
  <2>1. \A f : Undisturbed(f)' => Undisturbed(f)
    BY <1>1 DEF Undisturbed, Rewrites
  <2> QED
    BY <1>1, <2>1 DEF LocalEdgesRecorded
<1> QED
  BY <1>2, <1>3, <1>4, <1>5, <1>6, <1>7

LEMMA CallInvNext == CallInv /\ [Next]_vars => CallInv'
<1> SUFFICES ASSUME CallInv, [Next]_vars
             PROVE  CallRest'
  BY RecordInvNext DEF CallInv
<1>1. CASE Edit \/ UNCHANGED vars
  <2>1. /\ nodes' = nodes /\ edges' = edges /\ record' = record
        /\ disturbed' = disturbed /\ shared' = shared
        /\ pc' = pc /\ file' = file /\ held' = held
        /\ targets' = targets /\ additions' = additions
    BY <1>1 DEF Edit, vars, store, work, ghosts
  <2> QED
    BY <2>1 DEF CallInv, CallRest, Tidy, EdgesOwned, CrossEdgesCalled, AdditionsCalled,
                LocalEdgesHalf, LocalEdgesRecorded, Undisturbed, Rewrites
<1>2. ASSUME NEW p \in Indexers,
             \/ StartIndex(p)
             \/ ReadSource(p) \/ SkipUnchanged(p) \/ ParseSource(p) \/ ParseFails(p)
             \/ RemoveOld(p) \/ PutNodes(p) \/ PutEdges(p) \/ PutFileRecord(p)
             \/ ReadNames(p) \/ ReadCallers(p) \/ PutResolved(p)
             \/ Stop(p)
      PROVE  CallRest'
  BY <1>2, ReadingCalls, RemovingCalls, DeclaringCalls, CallingCalls, RecordingCalls,
     ResolvingCalls, StoppingCalls
<1> QED
  BY <1>1, <1>2 DEF Next

LEMMA CallInvInit == Init => CallInv
  BY RecordInvInit DEF Init, CallInv, CallRest, Tidy, EdgesOwned, CrossEdgesCalled,
                       AdditionsCalled, LocalEdgesHalf, LocalEdgesRecorded, Rewriting

\* The invariant tells: an edge into another file rests on a bare name, the bare
\* name on a call of the recorded content.
LEMMA CallInvTells == CallInv => NoCallSurvives
<1> SUFFICES ASSUME CallInv, NEW e \in edges, Undisturbed(e[1][1]), e[1][1] \notin shared
             PROVE  LET f == e[1][1] IN
                    /\ record[f] # Absent
                    /\ \/ e \in Calls(f, record[f])
                       \/ e[2][1] # f /\ <<e[1], Bare(e[2][2])>> \in Calls(f, record[f])
  BY DEF NoCallSurvives
<1> USE DEF CallInv, CallRest
<1>1. CASE e[2][1] \in {e[1][1], NoFile}
  BY <1>1 DEF LocalEdgesRecorded
<1>2. CASE e[2][1] \notin {e[1][1], NoFile}
  <2>1. <<e[1], Bare(e[2][2])>> \in edges
    BY <1>2 DEF CrossEdgesCalled
  <2> QED
    BY <1>2, <2>1 DEF LocalEdgesRecorded, Bare
<1> QED
  BY <1>1, <1>2

\* Reindexing replaces: an edge out of an indexed file is a call its recorded
\* content makes, whatever the other files and the other sessions did.
THEOREM ReindexReplaces == Spec => []NoCallSurvives
  BY CallInvInit, CallInvNext, CallInvTells, PTL DEF Spec

-----------------------------------------------------------------------------
(* What a resolution promises.                                              *)

\* An indexer nobody overtook resolves from the tables as they are: of each
\* unique name it has the callers, or it has yet to ask for them.
ResolvesFromNow ==
    \A p \in Indexers : p \notin overtaken /\ pc[p] = "callers" =>
        \A t \in Unambiguous \ targets[p] : \A id \in nodes :
            <<id, Bare(t[2])>> \in edges => <<id, t>> \in additions[p]

SettledInv == TypeOK /\ ResolvesFromNow /\ SettledIsResolved

\* A step that leaves the nodes and the bare edges alone, removes no edge, and
\* settles nothing new keeps what an indexer it does not move resolves from.
LEMMA BareEdgesKeep ==
    ASSUME ResolvesFromNow, SettledIsResolved,
           nodes' = nodes, edges \subseteq edges',
           \A id \in Ids, n \in Names : <<id, Bare(n)>> \in edges' => <<id, Bare(n)>> \in edges,
           TypeOK
    PROVE  /\ Unambiguous' = Unambiguous
           /\ Unambiguous \subseteq nodes
           /\ \A t \in Unambiguous, id \in nodes :
                 <<id, Bare(t[2])>> \in edges' => <<id, Bare(t[2])>> \in edges
<1>1. Unambiguous' = Unambiguous /\ Unambiguous \subseteq nodes
  BY DEF Unambiguous
<1>2. \A t \in Unambiguous : t[2] \in Names
  BY DEF Unambiguous, TypeOK, Ids
<1> QED
  BY <1>1, <1>2 DEF TypeOK

\* A rewriting overtakes every other indexer that resolves, and unsettles.
LEMMA RewritingUnsettles ==
    ASSUME SettledInv, NEW p \in Indexers, RemoveOld(p) \/ PutNodes(p) \/ PutEdges(p)
    PROVE  ResolvesFromNow' /\ SettledIsResolved'
<1>1. /\ settled' = FALSE
      /\ overtaken' = overtaken \cup {q \in Indexers \ {p} : pc[q] \in Resolving}
      /\ pc'[p] \notin Resolving
      /\ \A q \in Indexers : q # p => pc'[q] = pc[q]
  BY DEF SettledInv, TypeOK, RemoveOld, PutNodes, PutEdges, Overtakes, Resolving
<1>2. \A q \in Indexers : q \notin overtaken' => pc'[q] \notin Resolving
  BY <1>1
<1>3. ResolvesFromNow'
  BY <1>2 DEF ResolvesFromNow, Resolving
<1>4. SettledIsResolved'
  BY <1>1 DEF SettledIsResolved
<1> QED
  BY <1>3, <1>4

\* The steps before the edges are put read the tables and change none.
LEMMA ReadingKeepsSettled ==
    ASSUME SettledInv, NEW p \in Indexers,
           \/ StartIndex(p) \/ ReadSource(p) \/ SkipUnchanged(p) \/ ParseSource(p)
           \/ ParseFails(p) \/ PutFileRecord(p) \/ Stop(p)
    PROVE  ResolvesFromNow' /\ SettledIsResolved'
<1>1. /\ nodes' = nodes /\ edges' = edges /\ settled' = settled
      /\ overtaken' \in {overtaken, overtaken \ {p}}
      /\ pc'[p] \notin Resolving
      /\ \A q \in Indexers : q # p => /\ pc'[q] = pc[q] /\ targets'[q] = targets[q]
                                      /\ additions'[q] = additions[q]
  BY DEF SettledInv, TypeOK, StartIndex, ReadSource, SkipUnchanged, ParseSource, ParseFails,
         PutFileRecord, Stop, store, bounds, ghosts, Resolving
<1>2. Unambiguous' = Unambiguous
  BY <1>1 DEF Unambiguous
<1>3. SettledIsResolved'
  BY <1>1, <1>2 DEF SettledInv, SettledIsResolved
<1>4. ResolvesFromNow'
  <2> SUFFICES ASSUME NEW q \in Indexers, q \notin overtaken', pc'[q] \in Resolving
               PROVE  \A t \in Unambiguous \ targets'[q] : \A id \in nodes :
                          <<id, Bare(t[2])>> \in edges => <<id, t>> \in additions'[q]
    BY <1>1, <1>2 DEF ResolvesFromNow, Resolving
  <2>1. q # p /\ q \notin overtaken
    BY <1>1
  <2> QED
    BY <1>1, <2>1 DEF SettledInv, ResolvesFromNow, Resolving
<1> QED
  BY <1>3, <1>4

\* findNodes({}) takes the unique names as they are, and the callers of each are
\* read from the edges as they are.
LEMMA NamesAreRead ==
    ASSUME SettledInv, NEW p \in Indexers, ReadNames(p) \/ ReadCallers(p)
    PROVE  ResolvesFromNow' /\ SettledIsResolved'
<1>1. /\ nodes' = nodes /\ edges' = edges /\ settled' = settled /\ overtaken' = overtaken
      /\ pc'[p] \in Resolving
      /\ \A q \in Indexers : q # p => /\ pc'[q] = pc[q] /\ targets'[q] = targets[q]
                                      /\ additions'[q] = additions[q]
  BY DEF SettledInv, TypeOK, ReadNames, ReadCallers, store, bounds, ghosts, Resolving
<1>2. Unambiguous' = Unambiguous
  BY <1>1 DEF Unambiguous
<1>3. SettledIsResolved'
  BY <1>1, <1>2 DEF SettledInv, SettledIsResolved
<1>4. ASSUME ReadNames(p)
      PROVE  targets'[p] = Unambiguous
  BY <1>4 DEF SettledInv, TypeOK, ReadNames
<1>5. ASSUME ReadCallers(p), p \notin overtaken,
             NEW t \in Unambiguous \ targets'[p], NEW id \in nodes, <<id, Bare(t[2])>> \in edges
      PROVE  <<id, t>> \in additions'[p]
  <2>1. PICK u \in targets[p] :
           /\ targets'[p] = targets[p] \ {u}
           /\ additions'[p] = additions[p] \cup (Callers(u[2]) \X {u})
    BY <1>5 DEF SettledInv, TypeOK, ReadCallers
  <2>2. CASE t = u
    <3>1. id \in Callers(t[2])
      BY <1>5 DEF Callers
    <3>2. <<id, t>> \in Callers(t[2]) \X {t}
      BY <3>1
    <3> QED
      BY <2>1, <2>2, <3>2
  <2>3. CASE t # u
    <3>1. t \notin targets[p] /\ pc[p] = "callers"
      BY <1>5, <2>1, <2>3 DEF ReadCallers
    <3>2. <<id, t>> \in additions[p]
      BY <1>5, <3>1 DEF SettledInv, ResolvesFromNow
    <3> QED
      BY <2>1, <3>2
  <2> QED
    BY <2>2, <2>3
<1>6. ResolvesFromNow'
  <2> SUFFICES ASSUME NEW q \in Indexers, q \notin overtaken, pc'[q] = "callers",
                      NEW t \in Unambiguous \ targets'[q], NEW id \in nodes,
                      <<id, Bare(t[2])>> \in edges
               PROVE  <<id, t>> \in additions'[q]
    BY <1>1, <1>2 DEF ResolvesFromNow
  <2>1. CASE q = p
    BY <1>4, <1>5, <2>1
  <2>2. CASE q # p
    BY <1>1, <2>2 DEF SettledInv, ResolvesFromNow
  <2> QED
    BY <2>1, <2>2
<1> QED
  BY <1>3, <1>6

\* The edges put lead to symbols, so no bare edge is new, and those an indexer
\* was not overtaken on are all that a settled graph promises.
LEMMA PuttingSettles ==
    ASSUME SettledInv, NEW p \in Indexers, PutResolved(p)
    PROVE  ResolvesFromNow' /\ SettledIsResolved'
<1>1. /\ nodes' = nodes /\ edges' = edges \cup additions[p]
      /\ pc[p] = "callers" /\ targets[p] = {} /\ pc'[p] = "idle"
      /\ settled' = (settled \/ p \notin overtaken)
      /\ overtaken' = overtaken \ {p}
      /\ \A q \in Indexers : q # p => /\ pc'[q] = pc[q] /\ targets'[q] = targets[q]
                                      /\ additions'[q] = additions[q]
  BY DEF SettledInv, TypeOK, PutResolved
<1>2. additions[p] \subseteq Ids \X Ids
  BY DEF SettledInv, TypeOK
<1>3. \A id \in Ids, n \in Names : <<id, Bare(n)>> \in edges' => <<id, Bare(n)>> \in edges
  BY <1>1, <1>2, OutsidersAssumption DEF Ids, Bare
<1>4. /\ Unambiguous' = Unambiguous
      /\ \A t \in Unambiguous, id \in nodes :
            <<id, Bare(t[2])>> \in edges' => <<id, Bare(t[2])>> \in edges
  BY <1>1, <1>3, BareEdgesKeep DEF SettledInv
<1>5. ResolvesFromNow'
  <2> SUFFICES ASSUME NEW q \in Indexers, q \notin overtaken \ {p}, pc'[q] = "callers",
                      NEW t \in Unambiguous \ targets'[q], NEW id \in nodes,
                      <<id, Bare(t[2])>> \in edges'
               PROVE  <<id, t>> \in additions'[q]
    BY <1>1, <1>4 DEF ResolvesFromNow
  <2>1. CASE q = p
    BY <1>1, <2>1
  <2>2. CASE q # p
    BY <1>1, <1>4, <2>2 DEF SettledInv, ResolvesFromNow
  <2> QED
    BY <2>1, <2>2
<1>6. ASSUME settled', NEW t \in Unambiguous, NEW id \in nodes, <<id, Bare(t[2])>> \in edges'
      PROVE  <<id, t>> \in edges'
  <2>1. <<id, Bare(t[2])>> \in edges
    BY <1>4, <1>6
  <2>2. CASE settled
    BY <1>1, <2>1, <2>2 DEF SettledInv, SettledIsResolved
  <2>3. CASE p \notin overtaken
    BY <1>1, <2>1, <2>3 DEF SettledInv, ResolvesFromNow
  <2> QED
    BY <1>1, <1>6, <2>2, <2>3
<1>7. SettledIsResolved'
  BY <1>1, <1>4, <1>6 DEF SettledIsResolved
<1> QED
  BY <1>5, <1>7

LEMMA SettledInvNext == SettledInv /\ [Next]_vars => SettledInv'
<1> SUFFICES ASSUME SettledInv, [Next]_vars
             PROVE  ResolvesFromNow' /\ SettledIsResolved'
  BY TypesNext DEF SettledInv
<1>1. CASE Edit \/ UNCHANGED vars
  <2>1. /\ nodes' = nodes /\ edges' = edges /\ pc' = pc /\ targets' = targets
        /\ additions' = additions /\ overtaken' = overtaken /\ settled' = settled
    BY <1>1 DEF Edit, vars, store, work, ghosts
  <2> QED
    BY <2>1 DEF SettledInv, ResolvesFromNow, SettledIsResolved, Unambiguous
<1>2. ASSUME NEW p \in Indexers,
             \/ StartIndex(p)
             \/ ReadSource(p) \/ SkipUnchanged(p) \/ ParseSource(p) \/ ParseFails(p)
             \/ RemoveOld(p) \/ PutNodes(p) \/ PutEdges(p) \/ PutFileRecord(p)
             \/ ReadNames(p) \/ ReadCallers(p) \/ PutResolved(p)
             \/ Stop(p)
      PROVE  ResolvesFromNow' /\ SettledIsResolved'
  BY <1>2, RewritingUnsettles, ReadingKeepsSettled, NamesAreRead, PuttingSettles
<1> QED
  BY <1>1, <1>2 DEF Next

LEMMA SettledInvInit == Init => SettledInv
  BY TypesInit DEF Init, SettledInv, ResolvesFromNow, SettledIsResolved

\* Whatever edits, kills and other sessions did, after a resolution nobody
\* overtook every caller of a unique name has an edge to its symbol, until the
\* next rewriting.
THEOREM ResolutionIsComplete == Spec => []SettledIsResolved
<1>1. SettledInv => SettledIsResolved
  BY DEF SettledInv
<1> QED
  BY SettledInvInit, SettledInvNext, <1>1, PTL DEF Spec

=============================================================================
