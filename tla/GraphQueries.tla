---------------------------- MODULE GraphQueries ----------------------------
(***************************************************************************)
(* What one SQL statement of the code graph answers                        *)
(* (packages/graph/src/sqlite-store.ts), and what the queries of           *)
(* packages/context/src/query.ts and the task map of task-map.ts make of   *)
(* the answers.  A graph is its nodes and its edges; an edge may lead to a *)
(* name that no node has.  What a row says of its node is a constant of    *)
(* the node's id, its position in (path, start_line) order included.       *)
(***************************************************************************)
EXTENDS Integers, Sequences, FiniteSets, SequencesExt

CONSTANTS
    Ids,             \* node ids: `path#name', or a path for a file's own node
    Symbol,          \* of each id: kind, name, path, inTest, row, rank, cost, and the
                     \* terms in its name, its signature and its doc
    Files,           \* the ids of the files' own nodes
    Words,           \* of each phrase searched for: its terms
    HeaderTokens,    \* tokens of an answer's header line, and of the task map's first
    SymbolsHeaderTokens, \* tokens of the task map's other header
    NoteTokens(_),   \* tokens of the note that k results are not shown
    ManyResults      \* 9999: the note's allowance is for that many

ASSUME IdsAssumption == IsFiniteSet(Ids)
ASSUME SymbolAssumption ==
    \A n \in Ids : /\ Symbol[n].cost \in Nat /\ Symbol[n].cost > 0
                   /\ Symbol[n].row \in Int /\ Symbol[n].rank \in Int
ASSUME OrderAssumption ==
    \A m, n \in Ids : Symbol[m].row = Symbol[n].row \/ Symbol[m].rank = Symbol[n].rank => m = n
ASSUME WordsAssumption == \A phrase \in DOMAIN Words : IsFiniteSet(Words[phrase])
ASSUME TokensAssumption ==
    HeaderTokens \in Nat /\ SymbolsHeaderTokens \in Nat /\ ManyResults \in Nat
ASSUME NoteAssumption ==
    /\ \A k \in 0..ManyResults :
          NoteTokens(k) \in Nat /\ NoteTokens(k) =< NoteTokens(ManyResults)
    /\ \A k \in 0..Cardinality(Ids) : NoteTokens(k) \in Nat

-----------------------------------------------------------------------------
(* The statements: each selects a set of nodes, and Rows is their order.   *)

\* A set in the order of a relation, a set of pairs.
Ordered(nodes, before) ==
    [i \in 1..Cardinality(nodes) |->
        CHOOSE n \in nodes : Cardinality({m \in nodes : <<m, n>> \in before}) = i - 1]

RowOrder == {p \in Ids \X Ids : Symbol[p[1]].row < Symbol[p[2]].row}

Rows(nodes) == Ordered(nodes, RowOrder)

getNode(g, id) == g.nodes \cap {id}

findNodes(g, name) == {n \in g.nodes : Symbol[n].name = name}

nodesInFile(g, path) == {n \in g.nodes : Symbol[n].path = path}

\* The recursive query: level k holds the ends of the walks of k edges.
traverse(g, from, to, start, kinds, depth) ==
    LET Step(S) == {e[to] : e \in {e \in g.edges : e[from] \in S /\ e.kind \in kinds}}
        level[k \in 1..Max({1, depth})] == Step(IF k = 1 THEN {start} ELSE level[k - 1])
    IN  g.nodes \cap UNION Range(level)

neighbours(g, id, kinds, depth) == traverse(g, "from", "to", id, kinds, depth)

\* Mutant: one level more than asked for.
dependentsTooDeep(g, id, kinds, depth) == traverse(g, "to", "from", id, kinds, depth + 1)

dependents(g, id, kinds, depth) == traverse(g, "to", "from", id, kinds, depth)

-----------------------------------------------------------------------------
(* The queries.                                                            *)

Calls == {"calls"}
AnyKind == {"calls", "references", "imports", "inherits"}

isFile(n) == Symbol[n].kind = "file"
isTest(n) == Symbol[n].kind = "test" \/ Symbol[n].inTest

\* An argument with a # in it is an id.
resolveSymbol(g, arg) == IF arg \in Ids \ Files THEN getNode(g, arg) ELSE findNodes(g, arg)

\* The terms a symbol's name, signature and doc contain, and ten for its name.
searchScore(n, phrase) ==
    Cardinality(Words[phrase] \cap (Symbol[n].inName \cup Symbol[n].inSignature
                                        \cup Symbol[n].inDoc))
        + (IF Symbol[n].name = phrase THEN 10 ELSE 0)

\* The better score first, then the order of the rows.
SearchOrder(phrase) ==
    {p \in Ids \X Ids :
        \/ searchScore(p[1], phrase) > searchScore(p[2], phrase)
        \/ searchScore(p[1], phrase) = searchScore(p[2], phrase) /\ p \in RowOrder}

search(g, phrase) ==
    Ordered({n \in g.nodes : ~isFile(n) /\ searchScore(n, phrase) > 0}, SearchOrder(phrase))

\* The queries that one statement answers.
Direct == {"overview", "symbol", "search", "expand"}

Lookup(g, op, arg) ==
    CASE op = "overview" -> Rows({n \in nodesInFile(g, arg) : ~isFile(n)})
      [] op = "symbol" -> Rows(resolveSymbol(g, arg))
      [] op = "search" -> search(g, arg)
      [] op = "expand" -> Rows(getNode(g, arg))

\* The others walk from every node the argument names.
Walking == {"references", "dependencies", "impact", "tests_for"}

Reached(g, op, id, depth) ==
    CASE op = "references" -> dependents(g, id, Calls, depth)
      [] op = "dependencies" -> neighbours(g, id, Calls, depth)
      [] op = "impact" -> {n \in dependents(g, id, AnyKind, Max({depth, 3})) : ~isFile(n)}
      [] op = "tests_for" -> {n \in dependents(g, id, AnyKind, 2) : isTest(n)}

-----------------------------------------------------------------------------
(* The task map: the repository's files up to half the budget, then the    *)
(* symbols that match the prompt, best first, while they fit.              *)

Total(costs) == SumFunction(costs)

\* Mutant: a line is put before its cost is looked at.
FittingOneMore(costs, spent, limit) ==
    Max({0} \cup {k \in DOMAIN costs : spent + Total(SubSeq(costs, 1, k - 1)) =< limit})

\* How many of the lines fit when the first that does not ends the loop.
Fitting(costs, spent, limit) ==
    Max({0} \cup {k \in DOMAIN costs : spent + Total(SubSeq(costs, 1, k)) =< limit})

CostsOf(ids) == [i \in DOMAIN ids |-> Symbol[ids[i]].cost]

mapScore(n, phrase) ==
    LET In(terms) == Cardinality(Words[phrase] \cap terms)
        name == {Symbol[n].name}
    IN  10 * In(name) + 4 * In(Symbol[n].inName \ name)
            + 2 * In(Symbol[n].inDoc) + In(Symbol[n].inSignature)

\* The better score first, then the id.
MapOrder(phrase) ==
    {p \in Ids \X Ids :
        \/ mapScore(p[1], phrase) > mapScore(p[2], phrase)
        \/ /\ mapScore(p[1], phrase) = mapScore(p[2], phrase)
           /\ Symbol[p[1]].rank < Symbol[p[2]].rank}

\* The symbols that match.
ranked(nodes, phrase) ==
    Ordered({n \in nodes : ~isFile(n) /\ mapScore(n, phrase) > 0}, MapOrder(phrase))

buildTaskMap(g, phrase, budget, maxFiles) ==
    LET files == Rows({n \in g.nodes : isFile(n)})
        offered == SubSeq(files, 1, Min({maxFiles, Len(files)}))
        listed == SubSeq(offered, 1, Fitting(CostsOf(offered), HeaderTokens, budget \div 2))
        left == Len(files) - Len(offered)
        matching == ranked(g.nodes, phrase)
        opened == HeaderTokens + Total(CostsOf(listed))
                    + (IF left > 0 THEN NoteTokens(left) ELSE 0)
                    + (IF matching = <<>> THEN 0 ELSE SymbolsHeaderTokens)
        kept == SubSeq(matching, 1, Fitting(CostsOf(matching), opened, budget))
    IN  [files |-> listed, left |-> left, symbols |-> kept,
         tokens |-> opened + Total(CostsOf(kept))]
=============================================================================
