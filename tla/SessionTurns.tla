---------------------------- MODULE SessionTurns ----------------------------
(***************************************************************************)
(* The turns of one interactive session (packages/cli/src/session.ts): a   *)
(* prompt routes, runs the agent, journals what landed, counts what it     *)
(* cost and records a step.  It composes the journal's file (LineFile), the *)
(* telemetry file the sessions of a directory share (Telemetry) and the     *)
(* router (Router).  The steps of prompt that a throw or a kill -9 can *)
(* separate are actions of their own; the REPL catches a prompt that       *)
(* throws and reads the next line (packages/cli/src/bin/nodrel.ts:186-199).*)
(* Messages are numbered as they land, and each reply costs one token.     *)
(***************************************************************************)
EXTENDS Router, Telemetry

CONSTANTS
    PromptsTried,    \* what the classifier sees of the prompts tried
    Pins,            \* pins the user may set
    AgentMayThrow,   \* whether agent.prompt may throw
    MaxTurns,        \* bound: prompts
    MaxFaults,       \* bound: calls that throw, and cuts by other sessions
    MaxClears,       \* bound: /clear
    MaxOthers        \* bound: steps other sessions record

ASSUME PinsAssumption == Pins \subseteq Layers \cup {"auto"}
ASSUME SessionBounds == {MaxTurns, MaxFaults, MaxClears, MaxOthers} \subseteq Nat

Own == "own"
Other == "other"

\* The step events of the directory's sessions.
StepRecord ==
    [type : {"step"}, session : {Own, Other}, id : Nat, layer : LAYERS, tokens : Nat]

ASSUME LinesDiffer ==
    /\ Garbled \notin Nat \cup StepRecord
    /\ NoTail \notin Nat \cup StepRecord
    /\ Garbled # NoTail

VARIABLES
    pc,              \* "idle", or the next step of prompt, or "killed"
    transcript,      \* agent.state.messages
    journaled, lastAssistantIndex,
    pos,             \* the message the journal loop is at
    journal,         \* the session's journal file
    telemetry,       \* the telemetry file of the directory
    turns, faults, clears, others,
    made,            \* history: messages that ever landed
    returned,        \* history: value of made when prompt last returned
    billed,          \* history: replies requested while on each layer
    acked            \* history: ids of the steps whose record returned

own == <<pc, transcript, journaled, lastAssistantIndex, pos, journal, telemetry>>
history == <<made, returned, billed, acked>>
bounds == <<turns, faults, clears, others>>
svars == <<own, bounds, history, vars>>

SInit ==
    /\ pc = "idle"
    /\ transcript = <<>>
    /\ journaled = 0
    /\ lastAssistantIndex = 0
    /\ pos = 0
    /\ journal = EmptyFile
    /\ telemetry = EmptyFile
    /\ turns = 0 /\ faults = 0 /\ clears = 0 /\ others = 0
    /\ made = 0 /\ returned = 0
    /\ billed = [l \in Layers |-> 0]
    /\ acked = {}
    /\ Init

Fault == faults < MaxFaults /\ faults' = faults + 1

Message(id, role) == [id |-> id, role |-> role]

\* A prompt, and a tool call between any two replies.
TurnRoles(replies) ==
    [i \in 1..(2 * replies) |-> IF i = 1 THEN "user"
                                ELSE IF i % 2 = 0 THEN "assistant" ELSE "toolResult"]

Assistants == Cardinality({i \in DOMAIN transcript : transcript[i].role = "assistant"})

Fresh == Assistants - lastAssistantIndex

-----------------------------------------------------------------------------
\* ensureAgent and route; the rest of the turn keeps the decision's layer.
BeginPrompt(prompt) ==
    /\ pc = "idle" /\ turns < MaxTurns
    /\ turns' = turns + 1
    /\ pc' = "agent"
    /\ Route(prompt)
    /\ UNCHANGED <<transcript, journaled, lastAssistantIndex, pos, journal, telemetry,
                   faults, clears, others, history>>

\* The first messages of a turn land, and their replies are paid for.
Land(count, replies) ==
    /\ transcript' = transcript \o
                     [i \in 1..count |-> Message(made + i, TurnRoles(replies)[i])]
    /\ made' = made + count
    /\ billed' = [billed EXCEPT ![current] = @ + count \div 2]

\* agent.prompt returns after one reply, or two with a tool call between.
AgentReturns(replies) ==
    /\ pc = "agent"
    /\ Land(2 * replies, replies)
    /\ pc' = "journal"
    /\ pos' = journaled + 1
    /\ UNCHANGED <<journaled, lastAssistantIndex, journal, telemetry, bounds, returned,
                   acked, vars>>

\* agent.prompt throws: nothing after it in prompt runs.
AgentThrows(count) ==
    /\ AgentMayThrow /\ Fault
    /\ pc = "agent"
    /\ Land(count, 2)
    /\ pc' = "idle"
    /\ UNCHANGED <<journaled, lastAssistantIndex, pos, journal, telemetry, turns,
                   clears, others, returned, acked, vars>>

JournalNext ==
    /\ pc = "journal" /\ pos =< Len(transcript)
    /\ journal' = AppendLine(journal, transcript[pos].id)
    /\ pos' = pos + 1
    /\ UNCHANGED <<pc, transcript, journaled, lastAssistantIndex, telemetry, bounds,
                   history, vars>>

\* Mutant: journaled is advanced before the loop.
JournalThrowsAfterAdvance ==
    /\ pc = "journal" /\ pos =< Len(transcript)
    /\ Fault
    /\ journal' \in CutAppends(journal, transcript[pos].id)
    /\ pc' = "idle"
    /\ journaled' = Len(transcript)
    /\ UNCHANGED <<transcript, lastAssistantIndex, pos, telemetry, turns, clears,
                   others, history, vars>>

\* journal.append throws: the loop and the turn end, journaled stays.
JournalThrows ==
    /\ pc = "journal" /\ pos =< Len(transcript)
    /\ Fault
    /\ journal' \in CutAppends(journal, transcript[pos].id)
    /\ pc' = "idle"
    /\ UNCHANGED <<transcript, journaled, lastAssistantIndex, pos, telemetry, turns,
                   clears, others, history, vars>>

\* Mutant: the replies of a turn stay fresh.
AccountKeepsIndex ==
    /\ pc = "journal" /\ pos > Len(transcript)
    /\ journaled' = Len(transcript)
    /\ RecordUsage(Fresh)
    /\ pos' = Fresh
    /\ pc' = "sink"
    /\ UNCHANGED <<transcript, lastAssistantIndex, journal, telemetry, bounds, history>>

\* After the loop: both counters and the router's usage; pos keeps what the
\* step event will say.
Account ==
    /\ pc = "journal" /\ pos > Len(transcript)
    /\ journaled' = Len(transcript)
    /\ lastAssistantIndex' = Assistants
    /\ RecordUsage(Fresh)
    /\ pos' = Fresh
    /\ pc' = "sink"
    /\ UNCHANGED <<transcript, journal, telemetry, bounds, history>>

\* The step event of this turn; a prompt records at most one.
StepEvent == Step(Own, turns, current, pos)

RecordStep ==
    /\ pc = "sink"
    /\ telemetry' \in record(telemetry, StepEvent)
    /\ acked' = acked \cup {StepEvent.id}
    /\ pc' = "idle"
    /\ returned' = made
    /\ UNCHANGED <<transcript, journaled, lastAssistantIndex, pos, journal, bounds,
                   made, billed, vars>>

\* sink.record throws: the step is lost, everything else is kept.
RecordThrows ==
    /\ pc = "sink"
    /\ Fault
    /\ telemetry' \in recordThrows(telemetry, StepEvent)
    /\ pc' = "idle"
    /\ UNCHANGED <<transcript, journaled, lastAssistantIndex, pos, journal,
                   turns, clears, others, history, vars>>

\* A step of another session of the directory.
OtherStep == Step(Other, MaxTurns + others + 1, "flash", 1)

\* Another session records a step, or is cut short while it does.
OtherRecords ==
    /\ others < MaxOthers
    /\ others' = others + 1
    /\ \/ /\ telemetry' \in record(telemetry, OtherStep)
          /\ acked' = acked \cup {OtherStep.id}
          /\ UNCHANGED faults
       \/ /\ Fault
          /\ telemetry' \in recordThrows(telemetry, OtherStep)
          /\ UNCHANGED acked
    /\ UNCHANGED <<pc, transcript, journaled, lastAssistantIndex, pos, journal, turns,
                   clears, made, returned, billed, vars>>

-----------------------------------------------------------------------------
\* Mutant: /clear keeps the journal position.
ClearKeepsJournaled ==
    /\ pc = "idle" /\ clears < MaxClears
    /\ clears' = clears + 1
    /\ transcript' = <<>>
    /\ lastAssistantIndex' = 0
    /\ UNCHANGED <<pc, journaled, pos, journal, telemetry, turns, faults, others,
                   history, vars>>

\* Mutant: /clear keeps the count of replies.
ClearKeepsIndex ==
    /\ pc = "idle" /\ clears < MaxClears
    /\ clears' = clears + 1
    /\ transcript' = <<>>
    /\ journaled' = 0
    /\ UNCHANGED <<pc, lastAssistantIndex, pos, journal, telemetry, turns, faults, others,
                   history, vars>>

\* /clear: a new agent over an empty transcript; journal and router stay.
Clear ==
    /\ pc = "idle" /\ clears < MaxClears
    /\ clears' = clears + 1
    /\ transcript' = <<>>
    /\ lastAssistantIndex' = 0
    /\ journaled' = 0
    /\ UNCHANGED <<pc, pos, journal, telemetry, turns, faults, others,
                   history, vars>>

setPin(p) ==
    /\ pc = "idle"
    /\ SetPin(p)
    /\ UNCHANGED <<own, bounds, history>>

\* kill -9: the next session has an id and a journal of its own.
Kill ==
    /\ pc # "killed"
    /\ pc' = "killed"
    /\ IF pc = "journal" /\ pos =< Len(transcript)
          THEN journal' \in CutAppends(journal, transcript[pos].id)
          ELSE UNCHANGED journal
    /\ IF pc = "sink"
          THEN telemetry' \in CutAppends(telemetry, StepEvent)
          ELSE UNCHANGED telemetry
    /\ UNCHANGED <<transcript, journaled, lastAssistantIndex, pos, bounds, history,
                   vars>>

Prompt ==
    \/ \E prompt \in PromptsTried : BeginPrompt(prompt)
    \/ \E replies \in {1, 2} : AgentReturns(replies)
    \/ \E count \in {1, 2} : AgentThrows(count)
    \/ JournalNext \/ JournalThrows
    \/ Account
    \/ RecordStep \/ RecordThrows

SNext ==
    \/ Prompt
    \/ Clear
    \/ \E p \in Pins : setPin(p)
    \/ OtherRecords
    \/ Kill

SSpec == SInit /\ [][SNext]_svars

-----------------------------------------------------------------------------
(* Properties.                                                             *)

Total(f) == f["local"] + f["flash"] + f["escalation"] + f["byok"]

Report == costReport(telemetry, Own)

\* session.ts:301-303: when nothing throws, a kill -9 at any point loses only
\* the turn in flight.  The messages of every prompt that returned are in the
\* journal, each once and in order, over any number of /clear.
KillLosesOnlyTheTurn ==
    faults = 0 => \A k \in 1..returned : Len(journal.lines) >= k /\ journal.lines[k] = k

\* When nothing throws, every request is counted once on the layer it ran on,
\* by the router and by what `/cost` says of the session, whatever is pinned or
\* cleared between and whatever other sessions record (session.ts:305-341).
SpendingIsCounted ==
    pc = "idle" /\ faults = 0 =>
        /\ tokensByLayer = billed
        /\ LET told == Report
           IN  told.session.byLayer = billed /\ told.skipped = 0

\* Whatever throws, no request is counted twice: `/cost` never says more of a
\* layer than the router, and the two no more in all than was spent
\* (session.ts:307-340).
NothingCountedTwice ==
    /\ LET told == Report.session.byLayer
       IN  \A l \in Layers : told[l] =< tokensByLayer[l]
    /\ Total(tokensByLayer) =< Total(billed)

\* cost.ts:105-110: a total that shrank silently is never mistaken for cheaper
\* operation.  Over all sessions of the directory, every step whose record
\* returned is in the report or among the lines it says it skipped, and each
\* throw or kill hides at most one.
ShrinkingIsSurfaced ==
    LET seen == {e.id : e \in Range(readEvents(telemetry).events)}
        hidden == Cardinality(acked \ seen)
        skipped == Report.skipped
    IN  /\ hidden =< skipped
        /\ skipped =< faults + IF pc = "killed" THEN 1 ELSE 0

\* A turn whose journalling threw is journalled by the next prompt: once a
\* prompt gets through its loop, each fault has cost at most one message of the
\* conversation, the one glued to a torn line (session.ts:304-305).
NextTurnHeals ==
    journaled = Len(transcript) =>
        Cardinality({transcript[i].id : i \in DOMAIN transcript} \ ReadBack(journal))
            =< faults
=============================================================================
