----------------------------- MODULE Telemetry -----------------------------
(***************************************************************************)
(* The telemetry file of a directory (packages/telemetry/src): what        *)
(* JsonlSink.record lets through, what readEvents makes of the lines, and  *)
(* what `/cost` (packages/cli/src/cost.ts) reports of them.  Every session *)
(* of the directory appends to the one file.  An event is a step or a      *)
(* retrieval miss; both reports leave the misses out, and SessionTurns     *)
(* records steps only.  The id of an event stands for the time stamp,      *)
(* model and names it carries, and every event is taken to lie in the week *)
(* that is reported.                                                       *)
(***************************************************************************)
EXTENDS LineFile, Integers, FiniteSetsExt, Functions

LAYERS == {"local", "flash", "escalation", "byok"}

Step(session, id, layer, tokens) ==
    [type |-> "step", session |-> session, id |-> id, layer |-> layer, tokens |-> tokens]

\* validateEvent, which runs before the write and again on every line read.
Valid(e) ==
    \/ e.type = "step" /\ e.layer \in LAYERS /\ e.tokens >= 0
    \/ e.type = "retrieval_miss" /\ e.wasted >= 0

\* JsonlSink.record: the files it may return with, and those it may throw with.
record(f, e) == {g \in {AppendLine(f, e)} : Valid(e)}

recordThrows(f, e) == IF Valid(e) THEN CutAppends(f, e) ELSE {f}

\* Mutant: reading ends at the first line that cannot be read.
readEventsUntilTorn(f) ==
    LET lines == AllLines(f)
        torn == {i \in DOMAIN lines : lines[i] = Garbled \/ ~Valid(lines[i])}
        last == IF torn = {} THEN Len(lines) ELSE Min(torn) - 1
    IN  [events |-> Restrict(lines, 1..last), skipped |-> Cardinality(torn)]

\* readEvents: the lines that parse and are valid, each at its place, and how
\* many are not.
readEvents(f) ==
    LET lines == AllLines(f)
        readable == {i \in DOMAIN lines : lines[i] # Garbled /\ Valid(lines[i])}
    IN  [events |-> Restrict(lines, readable),
         skipped |-> Cardinality(DOMAIN lines \ readable)]

forSession(events, session) == RestrictValues(events, LAMBDA e : e.session = session)

isStep(e) == e.type = "step"

\* aggregate: the steps of each layer, and their tokens.
aggregate(events) ==
    LET steps == RestrictValues(events, isStep)
        OfLayer(l) == {i \in DOMAIN steps : steps[i].layer = l}
    IN  [steps |-> Cardinality(DOMAIN steps),
         byLayer |-> [l \in LAYERS |-> SumFunction([i \in OfLayer(l) |-> steps[i].tokens])]]

\* `/cost` in one session.
costReport(f, session) ==
    LET read == readEvents(f)
    IN  [session |-> aggregate(forSession(read.events, session)),
         week |-> aggregate(read.events),
         skipped |-> read.skipped]
=============================================================================
