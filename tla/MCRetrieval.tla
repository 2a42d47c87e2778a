---------------------------- MODULE MCRetrieval ----------------------------
\* A file with two functions that call each other, a function of the same name
\* in a file whose path no answer is recognised by, and a test of the first.
EXTENDS Retrieval

Node(kind, name, path, row, rank, cost) ==
    [kind |-> kind, name |-> name, path |-> path, row |-> row, rank |-> rank, cost |-> cost,
     inTest |-> path = "a.test.ts",
     inName |-> {name}, inSignature |-> {name} \cup (IF name = "g" THEN {"f"} ELSE {}),
     inDoc |-> IF name = "t" THEN {"f"} ELSE {}]

MCSymbol == ("a.ts"      :> Node("file", "a.ts", "a.ts", 2, 2, 2))
         @@ ("a.ts#f"    :> Node("function", "f", "a.ts", 3, 3, 2))
         @@ ("a.ts#g"    :> Node("function", "g", "a.ts", 4, 4, 1))
         @@ ("a.test.ts#t" :> Node("test", "t", "a.test.ts", 1, 1, 1))
         @@ ("b (1).ts"    :> Node("file", "b (1).ts", "b (1).ts", 5, 5, 1))
         @@ ("b (1).ts#f"  :> Node("function", "f", "b (1).ts", 6, 6, 3))

MCIds == DOMAIN MCSymbol
MCFiles == {"a.ts", "b (1).ts"}
MCWords == ("f" :> {"f"}) @@ ("t g" :> {"t", "g"})
MCNoteTokens(k) == IF k > 9 THEN 2 ELSE 1

Edge(from, to, kind) == [from |-> from, to |-> to, kind |-> kind]

MCWithin == {Edge("a.ts", "a.ts#f", "references"), Edge("a.ts", "a.ts#g", "references"),
             Edge("a.ts#f", "a.ts#g", "calls"), Edge("a.ts#g", "a.ts#f", "calls")}
MCAcross == {Edge("b (1).ts#f", "a.ts#g", "calls"), Edge("a.test.ts#t", "b (1).ts#f", "calls")}
MCBare == {Edge("a.test.ts#t", "f", "calls"), Edge("b (1).ts#f", "g", "calls")}

Of(file) == {n \in MCIds : MCSymbol[n].path = file}

\* Indexed and resolved; the first file removed, its nodes back, its edges back.
Resolved == [nodes |-> MCIds, edges |-> MCWithin \cup MCAcross \cup MCBare]
Removed == [nodes |-> MCIds \ Of("a.ts"), edges |-> MCBare]
NodesBack == [nodes |-> MCIds, edges |-> MCBare]
EdgesBack == [nodes |-> MCIds, edges |-> MCWithin \cup MCBare]

MCGraphs == {Resolved, Removed, NodesBack, EdgesBack}
MCTransactions == {<<Resolved, Removed>>, <<Removed, NodesBack>>, <<NodesBack, EdgesBack>>,
                   <<EdgesBack, Resolved>>}

Request(by, op, arg, depth, budget) ==
    [by |-> by, op |-> op, arg |-> arg, depth |-> depth, budget |-> budget]

Default == 9

\* Every operation; the budgets around the boundaries; the user's; the illegal.
MCRequests ==
         {Request("agent", "references", arg, depth, 4) :
             arg \in {"f", "a.ts#g"}, depth \in {0, 1}}
    \cup {Request("agent", op, "f", 4, 4) : op \in {"dependencies", "impact", "tests_for"}}
    \cup {Request("agent", "dependencies", "f", 1, 0)}
    \cup {Request("agent", op, "x", 1, 4) : op \in {"symbol", "impact"}}
    \cup {Request("agent", "search", "f", 1, budget) : budget \in {2, 4, 7, 8}}
    \cup {Request("agent", "overview", "a.ts", 1, Default),
          Request("agent", "expand", "a.ts#f", 1, Default),
          Request("agent", "nonsense", "f", 1, Default),
          Request("agent", "symbol", "", 1, Default)}
    \cup {Request("user", op, "f", 1, Default) : op \in {"symbol", "tests_for"}}

MCNormal == ("./a.ts" :> "a.ts") @@ ("/home/a.ts" :> "/home/a.ts") @@ ("b (1).ts" :> "b (1).ts")
MCMatchedPaths == {"a.ts", "a.test.ts", "/home/a.ts"}
=============================================================================
