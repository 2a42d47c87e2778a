--------------------------- MODULE BudgetedQuery ---------------------------
(***************************************************************************)
(* `graph_query' (packages/context/src/query.ts, tool.ts) one statement at *)
(* a time, while other sessions rewrite the graph between the statements,  *)
(* and fitToBudget one result at a time.  The agent's tool calls come with *)
(* any operation, argument and budget; `/graph' of the user                *)
(* (packages/cli/src/commands.ts) asks with the defaults.                  *)
(***************************************************************************)
EXTENDS GraphQueries

CONSTANTS
    Graphs,          \* the graphs that committed transactions leave
    Transactions,    \* what a transaction makes of a graph: <<before, after>>
    Requests,        \* [by, op, arg, depth, budget]
    MapBudgets,      \* budgets of the task maps asked for with `/map'
    MaxFiles,        \* files listed in a task map
    NothingTokens,   \* tokens of an answer without a header
    MaxWrites        \* bound: transactions of other sessions

ASSUME GraphsAssumption == \A g \in Graphs : g.nodes \subseteq Ids
ASSUME TransactionsAssumption == Transactions \subseteq Graphs \X Graphs
ASSUME RequestsAssumption ==
    \A r \in Requests : /\ r.budget \in Int /\ r.depth \in Int
                        /\ r.op = "search" => r.arg \in DOMAIN Words \cup {""}
ASSUME MapBudgetsAssumption == MapBudgets \subseteq Nat /\ MaxFiles \in Nat
ASSUME NothingAssumption == NothingTokens \in Nat

VARIABLES
    graph,           \* what is committed now
    writes,          \* how much of the bound is used
    pc,              \* "idle", "lookup", "resolve", "visit", "measure", "sum", "fit", "answered"
    request,
    targets,         \* nodes still to be walked from
    results,         \* the results, in the order they were found
    totals,          \* fitToBudget: the reduce's running total, all its values kept
    contentBudget,   \* what the lines may cost
    at,              \* how many results the loop has looked at
    shown, truncated, tokens,
    reply            \* the reply, until it is delivered

\* history: the graphs there were since the request was made.
VARIABLE during

fitting == <<totals, contentBudget, at, shown, truncated, tokens>>
asking == <<pc, request, targets, results, fitting>>
vars == <<graph, writes, asking, reply, during>>

NoReply == [kind |-> "none"]
NoRequest == [by |-> "nobody", op |-> "none", arg |-> "", depth |-> 0, budget |-> 0]

Init ==
    /\ graph \in Graphs
    /\ writes = 0
    /\ pc = "idle" /\ request = NoRequest
    /\ targets = <<>> /\ results = <<>>
    /\ totals = <<>> /\ contentBudget = 0 /\ at = 0
    /\ shown = <<>> /\ truncated = <<>> /\ tokens = 0
    /\ reply = NoReply
    /\ during = {}

\* A transaction of another session, in between two statements.
Write ==
    /\ writes < MaxWrites
    /\ writes' = writes + 1
    /\ \E t \in Transactions :
          /\ t[1] = graph /\ graph' = t[2]
          /\ during' = IF pc \in {"idle", "answered"} THEN during ELSE during \cup {t[2]}
    /\ UNCHANGED <<asking, reply>>

-----------------------------------------------------------------------------
(* One request.                                                            *)

\* What executeGraphQuery and graphQuery accept.
Legal(r) == r.op \in Direct \cup Walking /\ r.arg # ""

Refuse(r) ==
    /\ pc = "idle" /\ ~Legal(r)
    /\ pc' = "answered"
    /\ request' = r
    /\ reply' = [kind |-> "error"]
    /\ UNCHANGED <<graph, writes, targets, results, fitting, during>>

Ask(r) ==
    /\ pc = "idle" /\ Legal(r)
    /\ pc' = IF r.op \in Direct THEN "lookup" ELSE "resolve"
    /\ request' = r
    /\ during' = {graph}
    /\ UNCHANGED <<graph, writes, targets, results, fitting, reply>>

Answer(r) == pc' = "answered" /\ reply' = r

\* An answer with no line in it, or `expand' with one.
Plain(kind, lines, cost) ==
    [kind |-> kind, shown |-> lines, truncated |-> <<>>, tokens |-> cost, total |-> Len(lines)]

LookUp ==
    /\ pc = "lookup"
    /\ results' = Lookup(graph, request.op, request.arg)
    /\ pc' = "measure"
    /\ UNCHANGED <<graph, writes, request, targets, fitting, reply, during>>

Resolve ==
    /\ pc = "resolve"
    /\ targets' = Rows(resolveSymbol(graph, request.arg))
    /\ IF targets' = <<>>
       THEN Answer(Plain("nothing", <<>>, NothingTokens))
       ELSE pc' = "visit" /\ UNCHANGED reply
    /\ UNCHANGED <<graph, writes, request, results, fitting, during>>

\* A node that was found before keeps its place.
VisitTarget ==
    /\ pc = "visit"
    /\ results' = results \o Rows(Reached(graph, request.op, Head(targets), request.depth)
                                     \ Range(results))
    /\ targets' = Tail(targets)
    /\ pc' = IF Len(targets) = 1 THEN "measure" ELSE "visit"
    /\ UNCHANGED <<graph, writes, request, fitting, reply, during>>

\* `dependencies' and `impact' of a known symbol have a header even with no line.
SaysNothing == results = <<>> /\ request.op \notin {"dependencies", "impact"}

AnswerNothing ==
    /\ pc = "measure" /\ SaysNothing
    /\ Answer(Plain("nothing", <<>>, NothingTokens))
    /\ UNCHANGED <<graph, writes, request, targets, results, fitting, during>>

Expand ==
    /\ pc = "measure" /\ ~SaysNothing /\ request.op = "expand"
    /\ Answer(Plain("expanded", results, Total(CostsOf(results)) - 1))
    /\ UNCHANGED <<graph, writes, request, targets, results, fitting, during>>

-----------------------------------------------------------------------------
(* fitToBudget.                                                            *)

everything == totals[Len(totals)]

\* Mutant: no room is kept for the note.
WholeBudget == request.budget

\* Mutant: exactly at the budget, something has to go.
BudgetBelow ==
    IF everything < request.budget THEN request.budget
    ELSE request.budget - NoteTokens(ManyResults)

\* Room is kept for the note only when something has to go.
BudgetForLines ==
    IF everything =< request.budget THEN request.budget
    ELSE request.budget - NoteTokens(ManyResults)

Measure ==
    /\ pc = "measure" /\ ~SaysNothing /\ request.op # "expand"
    /\ pc' = "sum"
    /\ totals' = <<HeaderTokens>>
    /\ UNCHANGED <<graph, writes, request, targets, results, contentBudget, at, shown,
                   truncated, tokens, reply, during>>

AddCost ==
    /\ pc = "sum" /\ Len(totals) =< Len(results)
    /\ totals' = Append(totals, everything + Symbol[results[Len(totals)]].cost)
    /\ UNCHANGED <<graph, writes, pc, request, targets, results, contentBudget, at, shown,
                   truncated, tokens, reply, during>>

SetBudget ==
    /\ pc = "sum" /\ Len(totals) > Len(results)
    /\ pc' = "fit"
    /\ contentBudget' = BudgetForLines
    /\ tokens' = HeaderTokens
    /\ UNCHANGED <<graph, writes, request, targets, results, totals, at, shown, truncated,
                   reply, during>>

\* A line that does not fit is passed over; one after it may still be shown.
FitLine ==
    /\ pc = "fit" /\ at < Len(results)
    /\ at' = at + 1
    /\ LET n == results[at + 1]
           cost == Symbol[n].cost
       IN  IF tokens + cost > contentBudget
           THEN truncated' = Append(truncated, n) /\ UNCHANGED <<shown, tokens>>
           ELSE shown' = Append(shown, n) /\ tokens' = tokens + cost /\ UNCHANGED truncated
    /\ UNCHANGED <<graph, writes, pc, request, targets, results, totals, contentBudget, reply,
                   during>>

NoteCost(k) == IF k = 0 THEN 0 ELSE NoteTokens(k)

Finish ==
    /\ pc = "fit" /\ at = Len(results)
    /\ Answer([kind |-> "fitted", shown |-> shown, truncated |-> truncated,
               tokens |-> tokens + NoteCost(Len(truncated)), total |-> Len(results)])
    /\ UNCHANGED <<graph, writes, request, targets, results, fitting, during>>

\* What the call held is gone with it.
Deliver ==
    /\ pc = "answered"
    /\ pc' = "idle" /\ request' = NoRequest
    /\ results' = <<>>
    /\ totals' = <<>> /\ contentBudget' = 0 /\ at' = 0
    /\ shown' = <<>> /\ truncated' = <<>> /\ tokens' = 0
    /\ reply' = NoReply /\ during' = {}
    /\ UNCHANGED <<graph, writes, targets>>

\* `/map': one statement, and no budget but its own.
ShowMap(phrase, budget) ==
    /\ pc = "idle"
    /\ Answer([kind |-> "map", map |-> buildTaskMap(graph, phrase, budget, MaxFiles)])
    /\ request' = [NoRequest EXCEPT !.op = "map", !.arg = phrase, !.budget = budget]
    /\ UNCHANGED <<graph, writes, targets, results, fitting, during>>

Requested == \E r \in Requests : Refuse(r) \/ Ask(r)
Mapped == \E phrase \in DOMAIN Words, budget \in MapBudgets : ShowMap(phrase, budget)
Proceeds == LookUp \/ VisitTarget \/ Measure \/ AddCost \/ SetBudget \/ FitLine \/ Deliver
Answers == Resolve \/ AnswerNothing \/ Expand \/ Finish

Next == Write \/ Requested \/ Mapped \/ Proceeds \/ Answers

Spec == Init /\ [][Next]_vars

-----------------------------------------------------------------------------
(* Properties.                                                             *)

\* query.ts:14-16, 87-93: an answer that shows a result costs no more than was
\* asked for, the note that the rest is missing included -- for as many missing
\* results as the note has room for.
BudgetHolds ==
    reply.kind = "fitted" /\ Len(reply.truncated) =< ManyResults =>
        reply.tokens =< request.budget \/ reply.shown = <<>>

\* A budget has no room for a map's fixed lines: two headers and the note on the
\* files left out, the last two of which come after the files have had half.
Cramped(budget, left) ==
    LET after == SymbolsHeaderTokens + NoteCost(left)
    IN  budget < HeaderTokens + after \/ budget < 2 * after

\* task-map.ts, SPEC 4.1: the map costs no more than its budget if that has room
\* for its fixed lines, however many files and symbols there are.
MapFits ==
    reply.kind = "map" =>
        \/ reply.map.tokens =< request.budget
        \/ Cramped(request.budget, reply.map.left)

\* sqlite-store.ts:160-252: whatever a query has found is a list of nodes.
ResultsAreNodes == results \in Seq(Ids)

\* tools.ts, query.ts:66-72: what is found are nodes, each of which is shown or
\* named as missing, once; something is missing exactly when there is something
\* and everything together, the header too, is over the budget.
NothingIsDropped ==
    /\ ResultsAreNodes
    /\ reply.kind = "fitted" =>
        /\ IsInjective(reply.shown \o reply.truncated)
        /\ Range(reply.shown \o reply.truncated) = Range(results)
        /\ reply.total = Len(results)
        /\ reply.truncated = <<>> <=>
              \/ results = <<>>
              \/ HeaderTokens + Total(CostsOf(results)) =< request.budget

-----------------------------------------------------------------------------
\* What a query means, by walks instead of levels.
Ends == UNION {g.nodes \cup {e.to : e \in g.edges} : g \in Graphs}

WalksOf(g, kinds, k) ==
    {p \in [0..k -> Ends] :
        \A i \in 1..k : \E e \in g.edges : e.from = p[i - 1] /\ e.to = p[i] /\ e.kind \in kinds}

\* How far a request may ask for.
Depths == {2} \cup UNION {{Max({1, r.depth}), Max({3, r.depth})} : r \in Requests}

Within ==
    [g \in Graphs |-> [kinds \in {Calls, AnyKind} |-> [k \in Depths |->
        UNION {{<<p[0], p[j]>> : p \in WalksOf(g, kinds, j)} : j \in 1..k}]]]

Named(g, arg) ==
    {n \in g.nodes : IF arg \in Ids \ Files THEN n = arg ELSE Symbol[n].name = arg}

Led(g, r, target) ==
    LET depth == Max({1, r.depth})
        deep == Max({3, r.depth})
    IN  {n \in g.nodes :
          CASE r.op = "references" -> <<n, target>> \in Within[g][Calls][depth]
            [] r.op = "dependencies" -> <<target, n>> \in Within[g][Calls][depth]
            [] r.op = "impact" -> ~isFile(n) /\ <<n, target>> \in Within[g][AnyKind][deep]
            [] r.op = "tests_for" -> isTest(n) /\ <<n, target>> \in Within[g][AnyKind][2]}

Reported == Range(reply.shown \o reply.truncated)

\* Whatever other sessions rewrite while a query runs, it reports only what some
\* graph of that time leads to from a symbol that some graph of that time names
\* so, and it reports what all of them lead to from one that all of them name.
AnswersAreTrue ==
    (reply.kind \in {"fitted", "nothing"} /\ request.op \in Walking) =>
        /\ \A n \in Reported :
              \E g, h \in during : \E t \in Named(g, request.arg) : n \in Led(h, request, t)
        /\ \A t \in Ids : (\A g \in during : t \in Named(g, request.arg)) =>
              \A n \in Ids : (\A g \in during : n \in Led(g, request, t)) => n \in Reported
=============================================================================
