--------------------------- MODULE TaskRunnerProofs ---------------------------
(***************************************************************************)
(* Proofs about TaskRunner and TimedTask, for chains of any length, agents *)
(* of any number of replies and any clock.  The inductive invariant says   *)
(* where in the two passes the loops are, by the length of fallbacksFrom,  *)
(* and that an agent still runs outside the race only when no other will   *)
(* be started.  TimerInv says what the turn timer holds of the             *)
(* milliseconds that are spent.                                            *)
(***************************************************************************)
EXTENDS TimedTask, SumLemmas

Step(n) == IF n =< Models THEN n ELSE n - Models

\* The failures are those of the runs before this one, in order.
Order ==
    /\ fallbacksFrom \in Seq(1..Models)
    /\ \A i \in DOMAIN fallbacksFrom : fallbacksFrom[i] = Step(i)

\* How many they are tells where the loops stand.
Place ==
    /\ pc \in {"begin", "race"} =>
          Len(fallbacksFrom) = IF pass = 1 THEN pos - 1 ELSE Models + pos - 1
    /\ pc = "pause" => pass = 1 /\ Len(fallbacksFrom) = Models
    /\ pass = 2 => Models > 1
    /\ pc = "pause" => Models > 1
    /\ pc \in {"begin", "pause"} => attempt = Len(fallbacksFrom)
    /\ pc = "race" => attempt = Len(fallbacksFrom) + 1

\* The length of the walk.
Whole == IF Models > 1 THEN 2 * Models ELSE Models

\* What a result says of the runs.
Result ==
    pc \in {"done", "exited"} =>
        /\ error = "provider error" => Len(fallbacksFrom) = Whole
        /\ error # "provider error" => attempt = Len(fallbacksFrom) + 1
        /\ error = "none" => turns > 0 /\ ~erred /\ running = {}

Agents ==
    /\ running \subseteq {attempt}
    /\ pc \in {"begin", "pause"} => running = {}

Types ==
    /\ unknown \subseteq 1..Models
    /\ pass \in 1..2 /\ pos \in 1..Models
    /\ attempt \in Nat
    /\ turns \in 0..MaxReplies
    /\ error \in Errors

IInv == Types /\ Order /\ Place /\ Result /\ Agents

-----------------------------------------------------------------------------
LEMMA WalkLength == Passes * Models = Whole
<1>1. CASE Models > 1
  BY <1>1, TaskAssumption DEF Passes, Whole
<1>2. CASE ~(Models > 1)
  BY <1>2, TaskAssumption DEF Passes, Whole
<1> QED BY <1>1, <1>2

LEMMA InitInv == Init => IInv
<1> SUFFICES ASSUME Init PROVE IInv
  OBVIOUS
<1>1. fallbacksFrom = <<>> /\ fallbacksFrom \in Seq(1..Models) /\ Len(fallbacksFrom) = 0
  BY DEF Init
<1>2. Order
  BY <1>1 DEF Order
<1>3. Types
  BY <1>1, TaskAssumption DEF Init, Types, Errors
<1>4. Place /\ Result /\ Agents
  BY <1>1, TaskAssumption DEF Init, Place, Result, Agents
<1> QED BY <1>2, <1>3, <1>4 DEF IInv

\* What Conclude does to the loops.
LEMMA ConcludeWalks ==
  ASSUME Types, Order, Place, pc = "race", NEW e \in Errors, Conclude(e),
         UNCHANGED <<pass, attempt>>
  PROVE  /\ error' = e
         /\ pc' \in {"begin", "pause", "done"}
         /\ pos' \in 1..Models
         /\ fallbacksFrom' \in Seq(1..Models)
         /\ Order'
         /\ Place'
         /\ e # "provider error" => pc' = "done" /\ attempt' = Len(fallbacksFrom') + 1
         /\ pc' = "done" /\ e = "provider error" => Len(fallbacksFrom') = Whole
<1> USE TaskAssumption
<1>0. /\ Models \in Nat \ {0} /\ pos \in 1..Models /\ pass \in {1, 2}
      /\ fallbacksFrom \in Seq(1..Models) /\ Len(fallbacksFrom) \in Nat
  BY DEF Types, Order
<1>1. CASE e # "provider error"
  <2>1. /\ error' = e /\ pc' = "done" /\ pos' = pos /\ fallbacksFrom' = fallbacksFrom
    BY <1>1 DEF Conclude, ProviderFailure
  <2> QED BY <1>0, <1>1, <2>1 DEF Order, Place, Step
<1>2. CASE e = "provider error"
  <2>1. /\ error' = e
        /\ fallbacksFrom' = Append(fallbacksFrom, pos)
        /\ Advance
    BY <1>2 DEF Conclude, ProviderFailure
  <2>2. /\ fallbacksFrom' \in Seq(1..Models)
        /\ Len(fallbacksFrom') = Len(fallbacksFrom) + 1
        /\ DOMAIN fallbacksFrom = 1..Len(fallbacksFrom)
        /\ DOMAIN fallbacksFrom' = 1..(Len(fallbacksFrom) + 1)
        /\ \A i \in DOMAIN fallbacksFrom : fallbacksFrom'[i] = fallbacksFrom[i]
        /\ fallbacksFrom'[Len(fallbacksFrom) + 1] = pos
    BY <1>0, <2>1
  <2>3. pos = Step(Len(fallbacksFrom) + 1)
    BY <1>0 DEF Place, Step
  <2>4. Order'
    <3> SUFFICES ASSUME NEW i \in DOMAIN fallbacksFrom'
                 PROVE  fallbacksFrom'[i] = Step(i)
      BY <2>2 DEF Order, Step
    <3>1. CASE i = Len(fallbacksFrom) + 1
      BY <3>1, <2>2, <2>3
    <3>2. CASE i # Len(fallbacksFrom) + 1
      <4>1. i \in DOMAIN fallbacksFrom
        BY <1>0, <3>2, <2>2
      <4> QED BY <4>1, <2>2 DEF Order
    <3> QED BY <3>1, <3>2
  <2>5. CASE pos < Models
    <3>1. pc' = "begin" /\ pos' = pos + 1 /\ pass' = pass /\ attempt' = attempt
      BY <1>0, <2>1, <2>5 DEF Advance
    <3>2. Place'
      BY <1>0, <2>2, <3>1 DEF Place
    <3>3. pc' \in {"begin", "pause", "done"} /\ pc' # "done" /\ pos' \in 1..Models
      BY <1>0, <2>5, <3>1
    <3> QED BY <1>2, <2>1, <2>2, <2>4, <3>2, <3>3
  <2>6. CASE pos = Models
    <3>1. /\ pos' = pos /\ pass' = pass /\ attempt' = attempt
          /\ pc' = IF pass < Passes THEN "pause" ELSE "done"
      BY <1>0, <2>1, <2>6 DEF Advance
    <3>2. pc' = IF pass = 1 /\ Models > 1 THEN "pause" ELSE "done"
      BY <1>0, <3>1 DEF Passes, Place
    <3>3. Place'
      BY <1>0, <2>2, <2>6, <3>1, <3>2 DEF Place
    <3>4. pc' = "done" => Len(fallbacksFrom') = Whole
      BY <1>0, <2>2, <2>6, <3>2 DEF Place, Whole
    <3>5. pc' \in {"begin", "pause", "done"} /\ pos' \in 1..Models
      BY <1>0, <3>1, <3>2
    <3> QED BY <1>2, <2>1, <2>2, <2>4, <3>3, <3>4, <3>5
  <2>7. pos < Models \/ pos = Models
    BY <1>0
  <2> QED BY <2>5, <2>6, <2>7
<1> QED BY <1>1, <1>2

LEMMA StepInv == IInv /\ [Next]_vars => IInv'
<1> SUFFICES ASSUME IInv, [Next]_vars PROVE IInv'
  OBVIOUS
<1> USE TaskAssumption
<1>0. /\ Types /\ Order /\ Place /\ Result /\ Agents
      /\ fallbacksFrom' = fallbacksFrom => Order'
  BY DEF IInv, Order, Step
<1>1. CASE Begin
  <2>1. /\ pc' = "race" /\ attempt' = attempt + 1 /\ running' = {attempt'}
        /\ turns' = 0 /\ erred' = FALSE
        /\ UNCHANGED <<unknown, pass, pos, fallbacksFrom, error>>
    BY <1>1 DEF Begin, IInv, Agents
  <2>2. Types'
    BY <1>0, <2>1 DEF Types
  <2>3. Place' /\ Result' /\ Agents'
    BY <1>0, <1>1, <2>1 DEF Begin, Types, Place, Result, Agents
  <2> QED BY <1>0, <2>1, <2>2, <2>3 DEF IInv
<1>2. CASE BeginThrows
  <2>1. fallbacksFrom' = fallbacksFrom
    BY <1>2 DEF BeginThrows
  <2>2. Types'
    BY <1>0, <1>2 DEF BeginThrows, Types
  <2>3. Place' /\ Result' /\ Agents'
    BY <1>0, <1>2 DEF BeginThrows, Types, Place, Result, Agents
  <2> QED BY <1>0, <2>1, <2>2, <2>3 DEF IInv
<1>3. CASE Reply
  <2>1. fallbacksFrom' = fallbacksFrom
    BY <1>3 DEF Reply
  <2>2. Types'
    BY <1>0, <1>3 DEF Reply, Types
  <2>3. Place' /\ Result' /\ Agents'
    BY <1>0, <1>3 DEF Reply, Types, Place, Result, Agents
  <2> QED BY <1>0, <2>1, <2>2, <2>3 DEF IInv
<1>4. CASE AgentSettles
  <2>1. /\ pc = "race" /\ running' = {} /\ Conclude(ErrorFound)
        /\ UNCHANGED <<unknown, pass, attempt, turns, erred>>
    BY <1>4 DEF AgentSettles, IInv, Agents
  <2>2. /\ ErrorFound \in Errors
        /\ ErrorFound = "none" => turns > 0 /\ ~erred
    <3>1. turns \in Nat
      BY <1>0 DEF Types
    <3>2. CASE erred
      BY <3>2 DEF ErrorFound, Errors
    <3>3. CASE ~erred
      BY <3>1, <3>3 DEF ErrorFound, Errors
    <3> QED BY <3>2, <3>3
  <2>3. /\ error' = ErrorFound
        /\ pc' \in {"begin", "pause", "done"}
        /\ pos' \in 1..Models
        /\ fallbacksFrom' \in Seq(1..Models)
        /\ Order' /\ Place'
        /\ ErrorFound # "provider error" => pc' = "done" /\ attempt' = Len(fallbacksFrom') + 1
        /\ pc' = "done" /\ ErrorFound = "provider error" => Len(fallbacksFrom') = Whole
    BY <2>1, <2>2, ConcludeWalks DEF IInv
  <2>4. Types'
    BY <1>0, <2>1, <2>2, <2>3 DEF Types
  <2>5. Result' /\ Agents'
    BY <1>0, <2>1, <2>2, <2>3 DEF Result, Agents
  <2> QED BY <2>3, <2>4, <2>5 DEF IInv
<1>5. CASE AgentThrows
  <2>1. /\ pc = "race" /\ running' = {} /\ Conclude("thrown") /\ "thrown" \in Errors
        /\ UNCHANGED <<unknown, pass, attempt, turns, erred>>
    BY <1>5 DEF AgentThrows, IInv, Agents, Errors
  <2>2. /\ error' = "thrown" /\ pc' = "done" /\ attempt' = Len(fallbacksFrom') + 1
        /\ pos' \in 1..Models /\ fallbacksFrom' \in Seq(1..Models) /\ Order' /\ Place'
    BY <2>1, ConcludeWalks DEF IInv
  <2>3. Types'
    BY <1>0, <2>1, <2>2 DEF Types
  <2>4. Result' /\ Agents'
    BY <1>0, <2>1, <2>2 DEF Result, Agents
  <2> QED BY <2>2, <2>3, <2>4 DEF IInv
<1>6. CASE Timeout
  <2>1. /\ pc = "race" /\ Conclude("timeout") /\ "timeout" \in Errors
        /\ UNCHANGED <<unknown, pass, attempt, running, turns, erred>>
    BY <1>6 DEF Timeout, Errors
  <2>2. /\ error' = "timeout" /\ pc' = "done" /\ attempt' = Len(fallbacksFrom') + 1
        /\ pos' \in 1..Models /\ fallbacksFrom' \in Seq(1..Models) /\ Order' /\ Place'
    BY <2>1, ConcludeWalks DEF IInv
  <2>3. Types'
    BY <1>0, <2>1, <2>2 DEF Types
  <2>4. Result' /\ Agents'
    BY <1>0, <2>1, <2>2 DEF Result, Agents
  <2> QED BY <2>2, <2>3, <2>4 DEF IInv
<1>7. CASE LateSettle
  <2>1. fallbacksFrom' = fallbacksFrom
    BY <1>7 DEF LateSettle
  <2>2. Types'
    BY <1>0, <1>7 DEF LateSettle, Types
  <2>3. Place' /\ Result' /\ Agents'
    BY <1>0, <1>7 DEF LateSettle, Types, Place, Result, Agents
  <2> QED BY <1>0, <2>1, <2>2, <2>3 DEF IInv
<1>8. CASE Resume
  <2>1. fallbacksFrom' = fallbacksFrom
    BY <1>8 DEF Resume
  <2>2. Types'
    BY <1>0, <1>8 DEF Resume, Types, Place
  <2>3. Place' /\ Result' /\ Agents'
    BY <1>0, <1>8 DEF Resume, Types, Place, Result, Agents
  <2> QED BY <1>0, <2>1, <2>2, <2>3 DEF IInv
<1>9. CASE Exit
  <2>1. fallbacksFrom' = fallbacksFrom
    BY <1>9 DEF Exit
  <2>2. Types'
    BY <1>0, <1>9 DEF Exit, Types
  <2>3. Place' /\ Result' /\ Agents'
    BY <1>0, <1>9 DEF Exit, Types, Place, Result, Agents
  <2> QED BY <1>0, <2>1, <2>2, <2>3 DEF IInv
<1>10. CASE UNCHANGED vars
  <2>1. fallbacksFrom' = fallbacksFrom
    BY <1>10 DEF vars
  <2>2. Types'
    BY <1>0, <1>10 DEF vars, Types
  <2>3. Place' /\ Result' /\ Agents'
    BY <1>0, <1>10 DEF vars, Types, Place, Result, Agents
  <2> QED BY <1>0, <2>1, <2>2, <2>3 DEF IInv
<1> QED BY <1>1, <1>2, <1>3, <1>4, <1>5, <1>6, <1>7, <1>8, <1>9, <1>10 DEF Next, Stopped

\* The loops and the race keep their bookkeeping (run-task.ts:128-151, 232-261).
THEOREM Invariance == Spec => []IInv
<1>1. Init => IInv BY InitInv
<1>2. IInv /\ [Next]_vars => IInv' BY StepInv
<1> QED BY <1>1, <1>2, PTL DEF Spec

\* A provider error is the result only when every model failed so in every
\* pass, and any other result is that of the next model of the chain
\* (run-task.ts:132-147).
THEOREM Weather == Spec => []WeatherIsNotFailure
<1>1. IInv => WeatherIsNotFailure
  BY WalkLength DEF IInv, Order, Result, WeatherIsNotFailure, Reported, Step
<1> QED BY <1>1, Invariance, PTL

\* No agent is started beside one that a timeout left behind (run-task.ts:232-243).
THEOREM OneAgent == Spec => []OneAgentOnTheTree
<1>1. IInv => OneAgentOnTheTree
  <2> SUFFICES ASSUME IInv PROVE Cardinality(running) =< 1
    BY DEF OneAgentOnTheTree
  <2>1. running = {} \/ running = {attempt}
    BY DEF IInv, Agents
  <2>2. Cardinality(running) \in {0, 1}
    BY <2>1, FS_EmptySet, FS_Singleton, Zenon
  <2> QED BY <2>2
<1> QED BY <1>1, Invariance, PTL

\* A run is reported ok only if its agent ended by itself, with a reply and no
\* error among its replies (run-task.ts:248-261, 289).
THEOREM OkIsAnswered == Spec => []OkMeansAnswered
<1>1. IInv => OkMeansAnswered
  BY DEF IInv, Result, OkMeansAnswered, Reported
<1> QED BY <1>1, Invariance, PTL

-----------------------------------------------------------------------------
(* The clock of an agent.  Where the time of a turn went is known from the *)
(* phase it is in, and what the sums of the ended turns owe to it.         *)

Times == Nat \cup {Unset}

TurnRow == [providerMs : Nat, toolMs : Nat, toolCalls : Nat]

TimerRecord ==
    [turns : Seq(TurnRow), turnStart : Times, messageEnd : Times,
     toolStart : Times, toolMs : Nat, toolCalls : Nat,
     sessionStart : Times, sessionEnd : Times]

SpentRecord == [provider : Nat, tools : Nat, harness : Nat]

TimedTypes ==
    /\ now \in Nat /\ timer \in TimerRecord /\ spent \in SpentRecord
    /\ phase \in {"idle", "prompt", "provider", "tools"} /\ overlapped \in BOOLEAN

ProviderMs(ts) == SumFunction([i \in DOMAIN ts |-> ts[i].providerMs])

ToolMs(ts) == SumFunction([i \in DOMAIN ts |-> ts[i].toolMs])

\* The time in which the provider or a tool ran, and all of it.
Worked == spent.provider + spent.tools

Elapsed == Worked + spent.harness

\* Every millisecond between the first event and the last is spent somewhere.
Clocked ==
    IF timer.sessionStart = Unset
    THEN timer.sessionEnd = Unset /\ spent = Nowhere /\ phase = "idle"
    ELSE /\ timer.sessionStart \in Nat /\ timer.sessionEnd \in Nat
         /\ timer.sessionEnd =< now
         /\ timer.sessionEnd = timer.sessionStart + Elapsed

\* What the tools of the turns that ended are blamed for.
ToolsBlamed ==
    /\ ToolMs(timer.turns) =< spent.tools
    /\ ~overlapped => spent.tools = ToolMs(timer.turns)

\* Between two turns the ended ones contain all work and no more than all time.
Idle ==
    /\ open = {} /\ untold = {} /\ timer.turnStart = Unset /\ timer.toolStart = Unset
    /\ Worked =< ProviderMs(timer.turns) /\ ProviderMs(timer.turns) =< Elapsed
    /\ ToolsBlamed

\* In a turn, so do they and the turn up to the last event.
InTurn ==
    /\ timer.turnStart \in Nat /\ timer.turnStart =< timer.sessionEnd
    /\ Worked =< ProviderMs(timer.turns) + (timer.sessionEnd - timer.turnStart)
    /\ ProviderMs(timer.turns) + (timer.sessionEnd - timer.turnStart) =< Elapsed

\* Prompt and answer: no tool has run in this turn.
InMessage ==
    /\ open = {} /\ untold = {} /\ timer.toolStart = Unset /\ timer.toolMs = 0
    /\ ToolsBlamed

\* How long the tool that is timed has run.
InTool == IF timer.toolStart = Unset THEN 0 ELSE timer.sessionEnd - timer.toolStart

ToolClock ==
    /\ open = {} => timer.toolStart = Unset
    /\ timer.toolStart # Unset => timer.toolStart =< timer.sessionEnd
    /\ ToolMs(timer.turns) + timer.toolMs + InTool =< spent.tools
    /\ ~overlapped => /\ spent.tools = ToolMs(timer.turns) + timer.toolMs + InTool
                      /\ open # {} => timer.toolStart # Unset
                      /\ \A x, y \in open : x = y

\* Once every result is a message, the last message_end is behind all work.
MessageClock ==
    /\ timer.messageEnd \in Nat /\ timer.turnStart =< timer.messageEnd
    /\ timer.messageEnd =< timer.sessionEnd
    /\ open = {} /\ untold = {} =>
          Worked =< ProviderMs(timer.turns) + (timer.messageEnd - timer.turnStart)

TimerInv ==
    /\ TimedTypes /\ Clocked
    /\ phase = "idle" => Idle
    /\ phase # "idle" => InTurn
    /\ phase \in {"prompt", "provider"} => InMessage
    /\ phase = "tools" => ToolClock /\ MessageClock

-----------------------------------------------------------------------------
LEMMA OneMoreTurn ==
  ASSUME NEW ts \in Seq(TurnRow), NEW turn \in TurnRow
  PROVE  /\ ProviderMs(ts) \in Nat /\ ToolMs(ts) \in Nat
         /\ ProviderMs(Append(ts, turn)) = ProviderMs(ts) + turn.providerMs
         /\ ToolMs(Append(ts, turn)) = ToolMs(ts) + turn.toolMs
<1> DEFINE us == Append(ts, turn)
           p == [i \in DOMAIN ts |-> ts[i].providerMs]
           q == [i \in DOMAIN ts |-> ts[i].toolMs]
<1>1. /\ DOMAIN ts = 1..Len(ts) /\ Len(ts) \in Nat
      /\ \A i \in DOMAIN ts : ts[i] \in TurnRow /\ us[i] = ts[i]
      /\ DOMAIN us = 1..(Len(ts) + 1) /\ us[Len(ts) + 1] = turn
  OBVIOUS
<1>2. \A row \in TurnRow : row.providerMs \in Nat /\ row.toolMs \in Nat
  BY DEF TurnRow
<1>3. p \in Seq(Nat) /\ q \in Seq(Nat) /\ Len(p) = Len(ts) /\ Len(q) = Len(ts)
  BY <1>1, <1>2
<1>4. [i \in DOMAIN us |-> us[i].providerMs] = Append(p, turn.providerMs)
  BY <1>1, <1>3
<1>5. [i \in DOMAIN us |-> us[i].toolMs] = Append(q, turn.toolMs)
  BY <1>1, <1>3
<1> HIDE DEF us, p, q
<1>6. /\ SumFunction(p) \in Nat /\ SumFunction(q) \in Nat
      /\ SumFunction(Append(p, turn.providerMs)) = SumFunction(p) + turn.providerMs
      /\ SumFunction(Append(q, turn.toolMs)) = SumFunction(q) + turn.toolMs
  BY <1>2, <1>3, SumOfAppended
<1>7. /\ ProviderMs(us) = SumFunction(p) + turn.providerMs
      /\ ToolMs(us) = SumFunction(q) + turn.toolMs
  BY <1>4, <1>5, <1>6 DEF ProviderMs, ToolMs
<1> QED BY <1>6, <1>7 DEF ProviderMs, ToolMs, us, p, q

\* What every event leaves of the timer: its session grows to now.
Heard(t, u, at) ==
    /\ u \in TimerRecord
    /\ u.sessionStart = Or(t.sessionStart, at) /\ u.sessionEnd = at

LEMMA SessionHeard ==
  ASSUME NEW t \in TimerRecord, NEW at \in Nat
  PROVE  LET u == [t EXCEPT !.sessionStart = Or(@, at), !.sessionEnd = at] IN
         /\ Heard(t, u, at)
         /\ u.turns = t.turns /\ u.turnStart = t.turnStart
         /\ u.messageEnd = t.messageEnd /\ u.toolStart = t.toolStart
         /\ u.toolMs = t.toolMs /\ u.toolCalls = t.toolCalls
BY DEF TimerRecord, Times, Or, Heard

LEMMA TurnStartHeard ==
  ASSUME NEW t \in TimerRecord, NEW at \in Nat
  PROVE  LET u == record(t, "turn_start", at) IN
         /\ Heard(t, u, at)
         /\ u.turns = t.turns /\ u.turnStart = at /\ u.messageEnd = Unset
         /\ u.toolStart = t.toolStart /\ u.toolMs = 0
BY SessionHeard, ZenonT(60) DEF TimerRecord, Times, Heard, record, TurnStarts

LEMMA OtherHeard ==
  ASSUME NEW t \in TimerRecord, NEW at \in Nat
  PROVE  LET u == record(t, "other", at) IN
         /\ Heard(t, u, at)
         /\ u.turns = t.turns /\ u.turnStart = t.turnStart /\ u.messageEnd = t.messageEnd
         /\ u.toolStart = t.toolStart /\ u.toolMs = t.toolMs
BY SessionHeard DEF record

LEMMA MessageHeard ==
  ASSUME NEW t \in TimerRecord, NEW at \in Nat
  PROVE  LET u == record(t, "message_end", at) IN
         /\ Heard(t, u, at)
         /\ u.turns = t.turns /\ u.turnStart = t.turnStart /\ u.messageEnd = at
         /\ u.toolStart = t.toolStart /\ u.toolMs = t.toolMs
BY SessionHeard DEF TimerRecord, Times, Heard, record

LEMMA ToolStartHeard ==
  ASSUME NEW t \in TimerRecord, NEW at \in Nat
  PROVE  LET u == record(t, "tool_execution_start", at) IN
         /\ Heard(t, u, at)
         /\ u.turns = t.turns /\ u.turnStart = t.turnStart /\ u.messageEnd = t.messageEnd
         /\ u.toolStart = at /\ u.toolMs = t.toolMs
<1> DEFINE s == [t EXCEPT !.sessionStart = Or(@, at), !.sessionEnd = at]
<1>1. /\ Heard(t, s, at)
      /\ s.turns = t.turns /\ s.turnStart = t.turnStart
      /\ s.messageEnd = t.messageEnd /\ s.toolMs = t.toolMs
  BY SessionHeard
<1>2. record(t, "tool_execution_start", at)
        = [s EXCEPT !.toolStart = at, !.toolCalls = @ + 1]
  BY DEF record
<1> HIDE DEF s
<1>3. s.toolCalls + 1 \in Nat /\ at \in Times
  BY <1>1 DEF TimerRecord, Times, Heard
<1> QED BY <1>1, <1>2, <1>3 DEF TimerRecord, Heard

LEMMA ToolEndHeard ==
  ASSUME NEW t \in TimerRecord, NEW at \in Nat, t.toolStart # Unset => t.toolStart =< at
  PROVE  LET u == record(t, "tool_execution_end", at) IN
         /\ Heard(t, u, at)
         /\ u.turns = t.turns /\ u.turnStart = t.turnStart /\ u.messageEnd = t.messageEnd
         /\ u.toolStart = Unset
         /\ u.toolMs = IF t.toolStart = Unset THEN t.toolMs
                       ELSE t.toolMs + (at - t.toolStart)
<1> DEFINE s == [t EXCEPT !.sessionStart = Or(@, at), !.sessionEnd = at]
<1>1. /\ Heard(t, s, at)
      /\ s.turns = t.turns /\ s.turnStart = t.turnStart
      /\ s.messageEnd = t.messageEnd /\ s.toolStart = t.toolStart /\ s.toolMs = t.toolMs
  BY SessionHeard
<1>2. record(t, "tool_execution_end", at) = ToolEnds(s, at)
  BY DEF record
<1>3. (IF s.toolStart = Unset THEN s.toolMs ELSE s.toolMs + (at - s.toolStart)) \in Nat
  BY <1>1 DEF TimerRecord, Times, Heard
<1> HIDE DEF s
<1> QED BY <1>1, <1>2, <1>3, ZenonT(60) DEF TimerRecord, Times, Heard, ToolEnds

LEMMA TurnEndHeard ==
  ASSUME NEW t \in TimerRecord, NEW at \in Nat, t.turnStart \in Nat, t.messageEnd \in Nat,
         t.turnStart =< t.messageEnd
  PROVE  LET u == record(t, "turn_end", at) IN
         /\ Heard(t, u, at)
         /\ u.turnStart = Unset /\ u.toolStart = t.toolStart
         /\ \E turn \in TurnRow : /\ turn.providerMs = t.messageEnd - t.turnStart
                                  /\ turn.toolMs = t.toolMs
                                  /\ u.turns = Append(t.turns, turn)
<1> DEFINE s == [t EXCEPT !.sessionStart = Or(@, at), !.sessionEnd = at]
           turn == [providerMs |-> Or(s.messageEnd, at) - s.turnStart,
                    toolMs |-> s.toolMs, toolCalls |-> s.toolCalls]
           u == record(t, "turn_end", at)
<1>1. /\ Heard(t, s, at)
      /\ s.turns = t.turns /\ s.turnStart = t.turnStart
      /\ s.messageEnd = t.messageEnd /\ s.toolStart = t.toolStart
      /\ s.toolMs = t.toolMs /\ s.toolCalls = t.toolCalls
  BY SessionHeard
<1>2. s.turnStart # Unset /\ s.messageEnd # Unset
  BY <1>1, UnsetAssumption
<1>3. u = TurnEnds(s, at)
  BY DEF record
<1>4. s.toolMs \in Nat /\ s.toolCalls \in Nat
  BY <1>1 DEF TimerRecord, Heard
<1> HIDE DEF s, u
<1>5. u = [s EXCEPT !.turns = Append(@, turn), !.turnStart = Unset]
  BY <1>2, <1>3 DEF TurnEnds
<1>6. /\ turn \in TurnRow /\ turn.providerMs = t.messageEnd - t.turnStart
      /\ turn.toolMs = t.toolMs
  <2>1. Or(s.messageEnd, at) = t.messageEnd
    BY <1>1, <1>2 DEF Or
  <2>2. turn.providerMs \in Nat
    BY <1>1, <2>1
  <2> QED BY <1>1, <1>4, <2>1, <2>2 DEF TurnRow
<1> HIDE DEF turn
<1>7. Append(s.turns, turn) \in Seq(TurnRow)
  BY <1>1, <1>6 DEF TimerRecord, Heard
<1>8. /\ Heard(t, u, at) /\ u.turnStart = Unset /\ u.toolStart = t.toolStart
      /\ u.turns = Append(t.turns, turn)
  BY <1>1, <1>5, <1>7 DEF TimerRecord, Times, Heard
<1> QED BY <1>6, <1>8 DEF u

-----------------------------------------------------------------------------
\* The time since the last event.
Gap == now - Or(timer.sessionEnd, now)

\* An event adds it to the place where it was spent.
LEMMA GapIsSpent ==
  ASSUME TimedTypes, Clocked, NEW type, Emit(type), Heard(timer, timer', now), now' = now
  PROVE  /\ timer' \in TimerRecord /\ spent' \in SpentRecord /\ Clocked'
         /\ Gap \in Nat /\ timer'.sessionEnd = now
         /\ timer.sessionEnd # Unset => timer.sessionEnd \in Nat /\ now = timer.sessionEnd + Gap
         /\ spent'.tools = spent.tools + (IF Busy = "tools" THEN Gap ELSE 0)
         /\ Worked' = Worked + (IF Busy = "harness" THEN 0 ELSE Gap)
         /\ Elapsed' = Elapsed + Gap
<1>1. /\ now \in Nat /\ timer \in TimerRecord /\ timer' \in TimerRecord
      /\ timer'.sessionStart = Or(timer.sessionStart, now) /\ timer'.sessionEnd = now
      /\ spent.provider \in Nat /\ spent.tools \in Nat /\ spent.harness \in Nat
      /\ spent \in SpentRecord
      /\ now # Unset /\ now' # Unset
  BY UnsetAssumption DEF TimedTypes, SpentRecord, Heard
<1>2. Busy \in {"provider", "tools", "harness"}
  BY DEF Busy
<1>3. spent' = [spent EXCEPT ![Busy] = @ + Gap]
  BY DEF Emit, Gap
<1>4. /\ Gap \in Nat
      /\ timer.sessionEnd # Unset => timer.sessionEnd \in Nat /\ now = timer.sessionEnd + Gap
  BY <1>1, UnsetAssumption DEF Clocked, Gap, Or
<1>5. /\ spent' \in SpentRecord
      /\ spent'.provider = spent.provider + (IF Busy = "provider" THEN Gap ELSE 0)
      /\ spent'.tools = spent.tools + (IF Busy = "tools" THEN Gap ELSE 0)
      /\ spent'.harness = spent.harness + (IF Busy = "harness" THEN Gap ELSE 0)
  BY <1>1, <1>2, <1>3, <1>4 DEF SpentRecord
<1>6. /\ Worked' = Worked + (IF Busy = "harness" THEN 0 ELSE Gap)
      /\ Elapsed' = Elapsed + Gap
  BY <1>1, <1>2, <1>4, <1>5 DEF Worked, Elapsed
<1>7. Elapsed \in Nat
  BY <1>1 DEF Elapsed, Worked
<1>8. Clocked'
  <2>1. CASE timer.sessionStart = Unset
    <3>1. /\ timer.sessionEnd = Unset /\ Elapsed = 0 /\ timer'.sessionStart = now
      BY <1>1, <2>1 DEF Clocked, Or, Nowhere, Elapsed, Worked
    <3>2. Gap = 0
      BY <1>1, <3>1 DEF Gap, Or
    <3>3. Elapsed' = 0
      BY <1>6, <3>1, <3>2
    <3> QED BY <1>1, <3>1, <3>3 DEF Clocked
  <2>2. CASE timer.sessionStart # Unset
    <3>1. /\ timer'.sessionStart = timer.sessionStart /\ timer.sessionStart \in Nat
          /\ timer.sessionEnd = timer.sessionStart + Elapsed
          /\ timer.sessionEnd # Unset
      BY <1>1, <2>2, UnsetAssumption DEF Clocked, Or
    <3>2. now = timer'.sessionStart + Elapsed'
      BY <1>4, <1>6, <1>7, <3>1
    <3> QED BY <1>1, <2>2, <3>1, <3>2 DEF Clocked
  <2> QED BY <2>1, <2>2
<1> QED BY <1>1, <1>4, <1>5, <1>6, <1>8

\* An event that neither begins nor ends a turn leaves it open, to its own time.
LEMMA TurnGoesOn ==
  ASSUME TimedTypes, Clocked, phase # "idle", InTurn,
         NEW type, Emit(type), Heard(timer, timer', now), now' = now,
         timer'.turns = timer.turns, timer'.turnStart = timer.turnStart
  PROVE  InTurn'
<1>1. /\ Gap \in Nat /\ timer'.sessionEnd = now
      /\ timer.sessionEnd # Unset => timer.sessionEnd \in Nat /\ now = timer.sessionEnd + Gap
      /\ Worked' = Worked + (IF Busy = "harness" THEN 0 ELSE Gap)
      /\ Elapsed' = Elapsed + Gap
  BY GapIsSpent
<1>2. timer.sessionEnd \in Nat /\ now = timer.sessionEnd + Gap
  BY <1>1, UnsetAssumption DEF Clocked
<1>3. Worked \in Nat /\ Elapsed \in Nat
  BY DEF TimedTypes, SpentRecord, Worked, Elapsed
<1>4. ProviderMs(timer.turns) \in Nat
  <2>1. [providerMs |-> 0, toolMs |-> 0, toolCalls |-> 0] \in TurnRow
    BY DEF TurnRow
  <2> QED BY <2>1, OneMoreTurn DEF TimedTypes, TimerRecord
<1>5. /\ timer.turnStart \in Nat /\ timer.turnStart =< timer.sessionEnd
      /\ Worked =< ProviderMs(timer.turns) + (timer.sessionEnd - timer.turnStart)
      /\ ProviderMs(timer.turns) + (timer.sessionEnd - timer.turnStart) =< Elapsed
  BY DEF InTurn
<1>6. Worked' =< Worked + Gap
  BY <1>1, <1>3
<1>7. /\ timer.turnStart =< now
      /\ Worked' =< ProviderMs(timer.turns) + (now - timer.turnStart)
      /\ ProviderMs(timer.turns) + (now - timer.turnStart) =< Elapsed'
  BY <1>1, <1>2, <1>3, <1>4, <1>5, <1>6
<1> QED BY <1>1, <1>5, <1>7 DEF InTurn

\* One that is not of a tool leaves the tools running, to its own time.
LEMMA ToolsGoOn ==
  ASSUME TimedTypes, Clocked, phase = "tools", ToolClock,
         NEW type, Emit(type), Heard(timer, timer', now), UNCHANGED <<now, open, overlapped>>,
         timer'.turns = timer.turns, timer'.toolStart = timer.toolStart,
         timer'.toolMs = timer.toolMs
  PROVE  ToolClock'
<1>1. /\ Gap \in Nat /\ timer'.sessionEnd = now
      /\ timer.sessionEnd # Unset => timer.sessionEnd \in Nat /\ now = timer.sessionEnd + Gap
      /\ spent'.tools = spent.tools + (IF Busy = "tools" THEN Gap ELSE 0)
  BY GapIsSpent
<1>2. timer.sessionEnd \in Nat /\ now = timer.sessionEnd + Gap
  BY <1>1, UnsetAssumption DEF Clocked
<1>3. spent'.tools = spent.tools + (IF open # {} THEN Gap ELSE 0)
  BY <1>1 DEF Busy
<1>4. /\ open = {} => timer.toolStart = Unset
      /\ timer.toolStart # Unset => timer.toolStart =< timer.sessionEnd
      /\ ToolMs(timer.turns) + timer.toolMs + InTool =< spent.tools
      /\ ~overlapped => /\ spent.tools = ToolMs(timer.turns) + timer.toolMs + InTool
                        /\ open # {} => timer.toolStart # Unset
                        /\ \A x, y \in open : x = y
  BY DEF ToolClock
<1>5. /\ timer.toolMs \in Nat /\ spent.tools \in Nat /\ timer.toolStart \in Times
      /\ ToolMs(timer.turns) \in Nat
  <2>1. [providerMs |-> 0, toolMs |-> 0, toolCalls |-> 0] \in TurnRow
    BY DEF TurnRow
  <2>2. timer.turns \in Seq(TurnRow)
    BY DEF TimedTypes, TimerRecord
  <2>3. ToolMs(timer.turns) \in Nat
    BY <2>1, <2>2, OneMoreTurn
  <2> QED BY <2>3 DEF TimedTypes, TimerRecord, SpentRecord
<1>6. InTool' = InTool + (IF timer.toolStart = Unset THEN 0 ELSE Gap) /\ InTool \in Nat
  BY <1>1, <1>2, <1>4, <1>5 DEF InTool, Times
<1>7. timer.toolStart # Unset => timer.toolStart =< now
  BY <1>1, <1>2, <1>4, <1>5 DEF Times
<1>8. /\ ToolMs(timer.turns) + timer.toolMs + InTool' =< spent'.tools
      /\ ~overlapped => spent'.tools = ToolMs(timer.turns) + timer.toolMs + InTool'
  <2>1. CASE open = {}
    BY <1>3, <1>4, <1>5, <1>6, <2>1
  <2>2. CASE open # {}
    <3>1. spent'.tools = spent.tools + Gap
      BY <1>3, <2>2
    <3>2. ToolMs(timer.turns) + timer.toolMs + InTool =< spent.tools
      BY <1>4
    <3>3. ToolMs(timer.turns) + timer.toolMs + InTool' =< spent'.tools
      BY <1>1, <1>5, <1>6, <3>1, <3>2
    <3>4. ASSUME ~overlapped
          PROVE  spent'.tools = ToolMs(timer.turns) + timer.toolMs + InTool'
      <4>1. InTool' = InTool + Gap
        BY <1>4, <1>6, <2>2, <3>4
      <4>2. spent.tools = ToolMs(timer.turns) + timer.toolMs + InTool
        BY <1>4, <3>4
      <4> QED BY <1>1, <1>5, <1>6, <3>1, <4>1, <4>2
    <3> QED BY <3>3, <3>4
  <2> QED BY <2>1, <2>2
<1> QED BY <1>1, <1>4, <1>7, <1>8 DEF ToolClock

LEMMA TimerStays ==
  ASSUME TimerInv, UNCHANGED timed
  PROVE  TimerInv'
BY DEF timed, TimerInv, TimedTypes, Clocked, Idle, InTurn, InMessage, ToolClock,
       MessageClock, InTool, ToolsBlamed, Worked, Elapsed

LEMMA NewTimerTypes ==
  /\ NewTimer \in TimerRecord /\ Nowhere \in SpentRecord
  /\ ProviderMs(NewTimer.turns) = 0 /\ ToolMs(NewTimer.turns) = 0
<1>1. NewTimer \in TimerRecord /\ Nowhere \in SpentRecord
  <2>1. <<>> \in Seq(TurnRow)
    OBVIOUS
  <2> QED BY <2>1 DEF NewTimer, TimerRecord, Times, Nowhere, SpentRecord
<1>2. ProviderMs(NewTimer.turns) = 0 /\ ToolMs(NewTimer.turns) = 0
  <2>1. /\ [i \in DOMAIN NewTimer.turns |-> NewTimer.turns[i].providerMs] = <<>>
        /\ [i \in DOMAIN NewTimer.turns |-> NewTimer.turns[i].toolMs] = <<>>
    BY DEF NewTimer
  <2> QED BY <2>1, SumOfEmpty DEF ProviderMs, ToolMs
<1> QED BY <1>1, <1>2

LEMMA NewTimerIsIdle == TInit => TimerInv
<1> SUFFICES ASSUME TInit PROVE TimerInv
  OBVIOUS
<1>a. /\ now = 0 /\ timer = NewTimer /\ phase = "idle" /\ open = {} /\ untold = {}
      /\ overlapped = FALSE /\ spent = Nowhere
  BY DEF TInit
<1>1. TimedTypes
  BY <1>a, NewTimerTypes DEF TimedTypes
<1>2. Clocked
  BY <1>a DEF Clocked, NewTimer
<1>3. Idle
  BY <1>a, NewTimerTypes DEF Idle, ToolsBlamed, NewTimer, Nowhere, Worked, Elapsed
<1> QED BY <1>a, <1>1, <1>2, <1>3 DEF TimerInv

LEMMA NewTimerStarts ==
  ASSUME now' = 0, timer' = NewTimer, phase' = "idle", open' = {}, untold' = {},
         overlapped' = FALSE, spent' = Nowhere
  PROVE  TimerInv'
<1>1. timer' \in TimerRecord /\ spent' \in SpentRecord
  BY NewTimerTypes
<1>2. ProviderMs(timer'.turns) = 0 /\ ToolMs(timer'.turns) = 0
  BY NewTimerTypes
<1>3. TimedTypes'
  BY <1>1 DEF TimedTypes
<1>4. Clocked'
  BY DEF Clocked, NewTimer
<1>5. Idle'
  BY <1>2 DEF Idle, ToolsBlamed, NewTimer, Nowhere, Worked, Elapsed
<1> QED BY <1>3, <1>4, <1>5 DEF TimerInv

LEMMA TimerStep == TimerInv /\ [TNext]_tvars => TimerInv'
<1> SUFFICES ASSUME TimerInv, [TNext]_tvars PROVE TimerInv'
  OBVIOUS
<1>a. /\ now \in Nat /\ timer \in TimerRecord /\ spent \in SpentRecord
      /\ overlapped \in BOOLEAN /\ TimedTypes /\ Clocked
      /\ spent.provider \in Nat /\ spent.tools \in Nat /\ spent.harness \in Nat
      /\ timer.turns \in Seq(TurnRow) /\ timer.toolMs \in Nat
      /\ timer.toolStart \in Times
      /\ phase \in {"idle", "prompt", "provider", "tools"}
  BY DEF TimerInv, TimedTypes, SpentRecord, TimerRecord
<1>b. ProviderMs(timer.turns) \in Nat /\ ToolMs(timer.turns) \in Nat
  <2>1. [providerMs |-> 0, toolMs |-> 0, toolCalls |-> 0] \in TurnRow
    BY DEF TurnRow
  <2> QED BY <1>a, <2>1, OneMoreTurn
<1>c. phase # "idle" => timer.sessionEnd \in Nat /\ timer.sessionEnd # Unset
  BY UnsetAssumption DEF TimerInv, Clocked
<1>d. Worked \in Nat /\ Elapsed \in Nat
  BY <1>a DEF Worked, Elapsed
<1>e. /\ phase = "idle" => Idle
      /\ phase # "idle" => InTurn
      /\ phase \in {"prompt", "provider"} => InMessage
      /\ phase = "tools" => ToolClock /\ MessageClock
  BY DEF TimerInv
<1>1. CASE Tick
  <2>1. now' = now + 1 /\ UNCHANGED <<timer, phase, called, open, untold, overlapped, spent>>
    BY <1>1 DEF Tick
  <2>2. TimedTypes' /\ Clocked'
    BY <1>a, <2>1 DEF TimedTypes, Clocked, Elapsed, Worked
  <2>3. /\ Idle => Idle'
        /\ InTurn => InTurn'
        /\ InMessage => InMessage'
        /\ ToolClock => ToolClock'
        /\ MessageClock => MessageClock'
    BY <2>1 DEF Idle, InTurn, InMessage, ToolClock, MessageClock, InTool, ToolsBlamed,
                Worked, Elapsed
  <2>4. phase' = phase
    BY <2>1
  <2> QED BY <1>e, <2>2, <2>3, <2>4, Zenon DEF TimerInv
<1>2. CASE TurnBegins
  <2>1. /\ phase = "idle" /\ phase' \in {"prompt", "provider"} /\ Emit("turn_start")
        /\ timer' = record(timer, "turn_start", now)
        /\ UNCHANGED <<now, open, untold, overlapped>> /\ Idle
    BY <1>2, <1>e DEF TurnBegins, Emit
  <2>2. /\ Heard(timer, timer', now)
        /\ timer'.turns = timer.turns /\ timer'.turnStart = now
        /\ timer'.toolStart = timer.toolStart /\ timer'.toolMs = 0
    BY <1>a, <2>1, TurnStartHeard
  <2>3. /\ timer' \in TimerRecord /\ spent' \in SpentRecord /\ Clocked'
        /\ timer'.sessionEnd = now /\ Gap \in Nat
        /\ spent'.tools = spent.tools /\ Worked' = Worked /\ Elapsed' = Elapsed + Gap
    <3>1. Busy = "harness"
      BY <2>1 DEF Busy
    <3>2. /\ spent'.tools = spent.tools + 0 /\ Worked' = Worked + 0
      BY <1>a, <2>1, <2>2, <3>1, GapIsSpent
    <3> QED BY <1>a, <1>d, <2>1, <2>2, <3>2, GapIsSpent
  <2>4. TimedTypes'
    BY <1>a, <2>1, <2>3 DEF TimedTypes
  <2>5. /\ open = {} /\ untold = {} /\ timer.toolStart = Unset /\ ToolsBlamed
        /\ Worked =< ProviderMs(timer.turns) /\ ProviderMs(timer.turns) =< Elapsed
    BY <2>1 DEF Idle
  <2>6. InTurn'
    <3>1. /\ now =< now /\ Worked' =< ProviderMs(timer.turns) + (now - now)
          /\ ProviderMs(timer.turns) + (now - now) =< Elapsed'
      BY <1>a, <1>b, <1>d, <2>3, <2>5
    <3> QED BY <1>a, <2>2, <2>3, <3>1 DEF InTurn
  <2>7. InMessage'
    BY <2>1, <2>2, <2>3, <2>5 DEF InMessage, ToolsBlamed
  <2> QED BY <2>1, <2>3, <2>4, <2>6, <2>7 DEF TimerInv
<1>3. CASE PromptTold
  <2>1. /\ phase = "prompt" /\ phase' = "provider" /\ Emit("message_end")
        /\ timer' = record(timer, "message_end", now)
        /\ UNCHANGED <<now, open, untold, overlapped>> /\ InTurn /\ InMessage
    BY <1>3, <1>e DEF PromptTold, Emit
  <2>2. /\ Heard(timer, timer', now)
        /\ timer'.turns = timer.turns /\ timer'.turnStart = timer.turnStart
        /\ timer'.toolStart = timer.toolStart /\ timer'.toolMs = timer.toolMs
    BY <1>a, <2>1, MessageHeard
  <2>3. /\ timer' \in TimerRecord /\ spent' \in SpentRecord /\ Clocked'
        /\ spent'.tools = spent.tools
    <3>1. Busy = "harness"
      BY <2>1 DEF Busy
    <3>2. spent'.tools = spent.tools + 0
      BY <1>a, <2>1, <2>2, <3>1, GapIsSpent
    <3> QED BY <1>a, <2>1, <2>2, <3>2, GapIsSpent
  <2>4. TimedTypes'
    BY <1>a, <2>1, <2>3 DEF TimedTypes
  <2>5. InTurn'
    BY <1>a, <2>1, <2>2, TurnGoesOn
  <2>6. InMessage'
    BY <2>1, <2>2, <2>3 DEF InMessage, ToolsBlamed
  <2> QED BY <2>1, <2>3, <2>4, <2>5, <2>6 DEF TimerInv
<1>4. CASE TReply
  <2>1. /\ phase = "provider" /\ phase' = "tools" /\ Emit("message_end")
        /\ timer' = record(timer, "message_end", now)
        /\ UNCHANGED <<now, open, untold, overlapped>> /\ InTurn /\ InMessage
    BY <1>4, <1>e DEF TReply, Emit
  <2>2. /\ Heard(timer, timer', now)
        /\ timer'.turns = timer.turns /\ timer'.turnStart = timer.turnStart
        /\ timer'.messageEnd = now
        /\ timer'.toolStart = timer.toolStart /\ timer'.toolMs = timer.toolMs
    BY <1>a, <2>1, MessageHeard
  <2>3. /\ timer' \in TimerRecord /\ spent' \in SpentRecord /\ Clocked'
        /\ timer'.sessionEnd = now /\ spent'.tools = spent.tools
    <3>1. Busy = "provider"
      BY <2>1 DEF Busy
    <3>2. spent'.tools = spent.tools + 0
      BY <1>a, <2>1, <2>2, <3>1, GapIsSpent
    <3> QED BY <1>a, <2>1, <2>2, <3>2, GapIsSpent
  <2>4. TimedTypes'
    BY <1>a, <2>1, <2>3 DEF TimedTypes
  <2>5. InTurn'
    BY <1>a, <2>1, <2>2, TurnGoesOn
  <2>6. MessageClock'
    BY <1>a, <2>2, <2>3, <2>5 DEF MessageClock, InTurn
  <2>7. ToolClock'
    <3>1. /\ open = {} /\ timer.toolStart = Unset /\ ToolsBlamed /\ timer.toolMs = 0
      BY <2>1 DEF InMessage
    <3>2. InTool' = 0
      BY <2>2, <3>1 DEF InTool
    <3>3. /\ ToolMs(timer.turns) + timer.toolMs + 0 =< spent.tools
          /\ ~overlapped => spent.tools = ToolMs(timer.turns) + timer.toolMs + 0
      BY <1>a, <1>b, <3>1 DEF ToolsBlamed
    <3> QED BY <2>1, <2>2, <2>3, <3>1, <3>2, <3>3 DEF ToolClock
  <2> QED BY <2>1, <2>3, <2>4, <2>5, <2>6, <2>7 DEF TimerInv
<1>5. ASSUME NEW tool \in Tools, ToolStarts(tool) PROVE TimerInv'
  <2>1. /\ phase = "tools" /\ phase' = "tools" /\ Emit("tool_execution_start")
        /\ timer' = record(timer, "tool_execution_start", now)
        /\ now' = now /\ InTurn /\ ToolClock /\ MessageClock
        /\ open' = open \cup {tool} /\ overlapped' = (overlapped \/ open # {})
    BY <1>5, <1>e DEF ToolStarts, Emit
  <2>2. /\ Heard(timer, timer', now)
        /\ timer'.turns = timer.turns /\ timer'.turnStart = timer.turnStart
        /\ timer'.messageEnd = timer.messageEnd
        /\ timer'.toolStart = now /\ timer'.toolMs = timer.toolMs
    BY <1>a, <2>1, ToolStartHeard
  <2>3. /\ timer' \in TimerRecord /\ spent' \in SpentRecord /\ Clocked'
        /\ timer'.sessionEnd = now /\ Gap \in Nat /\ now = timer.sessionEnd + Gap
        /\ spent'.tools = spent.tools + (IF open # {} THEN Gap ELSE 0)
    <3>1. Busy = IF open # {} THEN "tools" ELSE "harness"
      BY <2>1 DEF Busy
    <3> QED BY <1>a, <1>c, <2>1, <2>2, <3>1, GapIsSpent
  <2>4. TimedTypes'
    BY <1>a, <2>1, <2>3 DEF TimedTypes
  <2>5. InTurn'
    BY <1>a, <2>1, <2>2, TurnGoesOn
  <2>6. open' # {}
    BY <2>1
  <2>7. MessageClock'
    <3>1. /\ timer.messageEnd \in Nat /\ timer.turnStart =< timer.messageEnd
          /\ timer.messageEnd =< timer.sessionEnd
      BY <2>1 DEF MessageClock
    <3>2. timer.messageEnd =< now
      BY <1>c, <2>1, <2>3, <3>1
    <3> QED BY <2>2, <2>3, <2>6, <3>1, <3>2 DEF MessageClock
  <2>8. ToolClock'
    <3>1. /\ open = {} => timer.toolStart = Unset
          /\ ToolMs(timer.turns) + timer.toolMs + InTool =< spent.tools
          /\ ~overlapped => spent.tools = ToolMs(timer.turns) + timer.toolMs + InTool
          /\ timer.toolStart # Unset => timer.toolStart =< timer.sessionEnd
      BY <2>1 DEF ToolClock
    <3>2. InTool' = 0 /\ now # Unset
      BY <1>a, <2>2, <2>3, UnsetAssumption DEF InTool
    <3>3. InTool \in Nat
      BY <1>a, <1>c, <2>1, <3>1 DEF InTool, Times
    <3>4. ToolMs(timer.turns) + timer.toolMs + 0 =< spent'.tools
      <4>1. /\ ToolMs(timer.turns) \in Nat /\ timer.toolMs \in Nat
            /\ spent.tools \in Nat /\ spent'.tools \in Nat
        BY <1>a, <1>b, <2>3
      <4>2. spent.tools =< spent'.tools
        BY <2>3, <4>1
      <4>3. ToolMs(timer.turns) + timer.toolMs + InTool =< spent.tools
        BY <3>1
      <4>4. \A i, j, k, m, n \in Nat : i + j + k =< m /\ m =< n => i + j + 0 =< n
        OBVIOUS
      <4> QED BY <3>3, <4>1, <4>2, <4>3, <4>4, Zenon
    <3>5. ASSUME ~overlapped'
          PROVE  /\ spent'.tools = ToolMs(timer.turns) + timer.toolMs + 0
                 /\ \A x, y \in open' : x = y
      <4>1. ~overlapped /\ open = {} /\ open' = {tool}
        BY <2>1, <3>5
      <4>2. InTool = 0
        BY <3>1, <4>1 DEF InTool
      <4> QED BY <1>a, <1>b, <2>3, <3>1, <4>1, <4>2
    <3>6. now =< now
      BY <1>a
    <3> QED BY <2>2, <2>3, <2>6, <3>2, <3>4, <3>5, <3>6 DEF ToolClock
  <2> QED BY <2>1, <2>3, <2>4, <2>5, <2>7, <2>8 DEF TimerInv
<1>6. ASSUME NEW tool \in Tools, ToolFinishes(tool) PROVE TimerInv'
  <2>1. /\ tool \in open /\ Emit("tool_execution_end")
        /\ timer' = record(timer, "tool_execution_end", now)
        /\ UNCHANGED <<now, phase, overlapped>>
        /\ open' = open \ {tool} /\ untold' = untold \cup {tool}
    BY <1>6 DEF ToolFinishes, Emit
  <2>2. phase = "tools" /\ InTurn /\ ToolClock /\ MessageClock
    BY <1>a, <1>e, <2>1 DEF Idle, InMessage
  <2>3. /\ timer.toolStart # Unset => timer.toolStart =< timer.sessionEnd
        /\ ToolMs(timer.turns) + timer.toolMs + InTool =< spent.tools
        /\ ~overlapped => /\ spent.tools = ToolMs(timer.turns) + timer.toolMs + InTool
                          /\ open # {} => timer.toolStart # Unset
                          /\ \A x, y \in open : x = y
    BY <2>2 DEF ToolClock
  <2>4. timer.sessionEnd =< now /\ timer.sessionEnd \in Nat
    BY <1>a, <1>c, <2>2, UnsetAssumption DEF Clocked
  <2>5. /\ Heard(timer, timer', now)
        /\ timer'.turns = timer.turns /\ timer'.turnStart = timer.turnStart
        /\ timer'.messageEnd = timer.messageEnd
        /\ timer'.toolStart = Unset
        /\ timer'.toolMs = IF timer.toolStart = Unset THEN timer.toolMs
                           ELSE timer.toolMs + (now - timer.toolStart)
    <3>1. timer.toolStart # Unset => timer.toolStart =< now
      BY <1>a, <2>3, <2>4 DEF Times
    <3> QED BY <1>a, <2>1, <3>1, ToolEndHeard
  <2>6. /\ timer' \in TimerRecord /\ spent' \in SpentRecord /\ Clocked'
        /\ timer'.sessionEnd = now /\ Gap \in Nat /\ now = timer.sessionEnd + Gap
        /\ spent'.tools = spent.tools + Gap
    <3>1. Busy = "tools"
      BY <2>1, <2>2 DEF Busy
    <3> QED BY <1>a, <1>c, <2>1, <2>2, <2>5, <3>1, GapIsSpent
  <2>7. TimedTypes'
    BY <1>a, <2>1, <2>2, <2>6 DEF TimedTypes
  <2>11. InTurn'
    BY <1>a, <2>1, <2>2, <2>5, TurnGoesOn
  <2>12. MessageClock'
    <3>1. /\ timer.messageEnd \in Nat /\ timer.turnStart =< timer.messageEnd
          /\ timer.messageEnd =< timer.sessionEnd
      BY <2>2 DEF MessageClock
    <3>2. timer.messageEnd =< now
      BY <1>a, <2>4, <3>1
    <3>3. untold' # {}
      BY <2>1
    <3> QED BY <2>5, <2>6, <3>1, <3>2, <3>3 DEF MessageClock
  <2>8. /\ timer'.toolMs \in Nat /\ timer'.toolMs =< timer.toolMs + InTool + Gap
        /\ timer.toolStart # Unset => timer'.toolMs = timer.toolMs + InTool + Gap
    <3>1. CASE timer.toolStart = Unset
      <4>1. InTool = 0 /\ timer'.toolMs = timer.toolMs
        BY <2>5, <3>1 DEF InTool
      <4> QED BY <1>a, <2>6, <3>1, <4>1
    <3>2. CASE timer.toolStart # Unset
      <4>1. /\ timer.toolStart \in Nat /\ timer.toolStart =< timer.sessionEnd
            /\ InTool = timer.sessionEnd - timer.toolStart
            /\ timer'.toolMs = timer.toolMs + (now - timer.toolStart)
        BY <1>a, <2>3, <2>5, <3>2 DEF InTool, Times
      <4>2. /\ now - timer.toolStart = InTool + Gap
            /\ InTool \in Nat
        <5>1. \A a, b, g \in Nat : b =< a => (a + g) - b = (a - b) + g /\ a - b \in Nat
          OBVIOUS
        <5>2. now = timer.sessionEnd + Gap /\ Gap \in Nat /\ timer.sessionEnd \in Nat
          BY <2>4, <2>6
        <5> QED BY <4>1, <5>1, <5>2, Zenon
      <4>3. timer'.toolMs = timer.toolMs + (InTool + Gap)
        BY <4>1, <4>2
      <4>4. timer.toolMs \in Nat /\ InTool \in Nat /\ Gap \in Nat
        BY <1>a, <2>6, <4>2
      <4> QED BY <4>3, <4>4
    <3> QED BY <3>1, <3>2
  <2>9. InTool \in Nat /\ InTool' = 0
    BY <1>a, <2>3, <2>4, <2>5 DEF InTool, Times
  <2>10. ToolClock'
    <3>1. ToolMs(timer.turns) + timer'.toolMs + 0 =< spent'.tools
      BY <1>a, <1>b, <2>3, <2>6, <2>8, <2>9, SMTT(30)
    <3>2. ASSUME ~overlapped
          PROVE  /\ spent'.tools = ToolMs(timer.turns) + timer'.toolMs + 0
                 /\ open' = {}
      <4>1. /\ spent.tools = ToolMs(timer.turns) + timer.toolMs + InTool
            /\ timer.toolStart # Unset /\ \A x, y \in open : x = y
        BY <2>1, <2>3, <3>2
      <4>2. timer'.toolMs = timer.toolMs + InTool + Gap
        BY <2>8, <4>1
      <4>3. open' = {}
        BY <2>1, <4>1
      <4> QED BY <1>a, <1>b, <2>6, <2>8, <2>9, <4>1, <4>2, <4>3
    <3> QED BY <2>1, <2>5, <2>6, <2>9, <3>1, <3>2 DEF ToolClock
  <2> QED BY <2>1, <2>2, <2>6, <2>7, <2>10, <2>11, <2>12 DEF TimerInv
<1>7. ASSUME NEW tool \in Tools, ResultTold(tool) PROVE TimerInv'
  <2>1. /\ tool \in untold /\ Emit("message_end")
        /\ timer' = record(timer, "message_end", now)
        /\ UNCHANGED <<now, phase, open, overlapped>>
    BY <1>7 DEF ResultTold, Emit
  <2>2. phase = "tools" /\ InTurn /\ ToolClock
    BY <1>a, <1>e, <2>1 DEF Idle, InMessage
  <2>3. /\ Heard(timer, timer', now)
        /\ timer'.turns = timer.turns /\ timer'.turnStart = timer.turnStart
        /\ timer'.messageEnd = now
        /\ timer'.toolStart = timer.toolStart /\ timer'.toolMs = timer.toolMs
    BY <1>a, <2>1, MessageHeard
  <2>4. /\ timer' \in TimerRecord /\ spent' \in SpentRecord /\ Clocked'
        /\ timer'.sessionEnd = now
    BY <1>a, <2>1, <2>3, GapIsSpent
  <2>5. TimedTypes'
    BY <1>a, <2>1, <2>4 DEF TimedTypes
  <2>6. InTurn'
    BY <1>a, <2>1, <2>2, <2>3, TurnGoesOn
  <2>7. ToolClock'
    BY <1>a, <2>1, <2>2, <2>3, ToolsGoOn
  <2>8. MessageClock'
    BY <1>a, <2>3, <2>4, <2>6 DEF MessageClock, InTurn
  <2> QED BY <2>1, <2>2, <2>4, <2>5, <2>6, <2>7, <2>8 DEF TimerInv
<1>8. CASE TurnFinishes
  <2>1. /\ phase = "tools" /\ phase' = "idle" /\ open = {} /\ untold = {} /\ Emit("turn_end")
        /\ timer' = record(timer, "turn_end", now)
        /\ UNCHANGED <<now, open, untold, overlapped>> /\ InTurn /\ ToolClock /\ MessageClock
    BY <1>8, <1>e DEF TurnFinishes, Emit
  <2>2. /\ timer.turnStart \in Nat /\ timer.turnStart =< timer.messageEnd
        /\ timer.messageEnd \in Nat /\ timer.messageEnd =< timer.sessionEnd
        /\ Worked =< ProviderMs(timer.turns) + (timer.messageEnd - timer.turnStart)
        /\ ProviderMs(timer.turns) + (timer.sessionEnd - timer.turnStart) =< Elapsed
    BY <2>1 DEF InTurn, MessageClock
  <2>3. /\ timer.toolStart = Unset /\ InTool = 0
        /\ ToolMs(timer.turns) + timer.toolMs + InTool =< spent.tools
        /\ ~overlapped => spent.tools = ToolMs(timer.turns) + timer.toolMs + InTool
    BY <2>1 DEF ToolClock, InTool
  <2>4. /\ Heard(timer, timer', now)
        /\ timer'.turnStart = Unset /\ timer'.toolStart = timer.toolStart
        /\ \E turn \in TurnRow : /\ turn.providerMs = timer.messageEnd - timer.turnStart
                                 /\ turn.toolMs = timer.toolMs
                                 /\ timer'.turns = Append(timer.turns, turn)
    BY <1>a, <2>1, <2>2, TurnEndHeard
  <2>5. /\ ProviderMs(timer'.turns)
             = ProviderMs(timer.turns) + (timer.messageEnd - timer.turnStart)
        /\ ToolMs(timer'.turns) = ToolMs(timer.turns) + timer.toolMs
    <3>1. PICK turn \in TurnRow : /\ turn.providerMs = timer.messageEnd - timer.turnStart
                                  /\ turn.toolMs = timer.toolMs
                                  /\ timer'.turns = Append(timer.turns, turn)
      BY <2>4
    <3>2. /\ ProviderMs(Append(timer.turns, turn)) = ProviderMs(timer.turns) + turn.providerMs
          /\ ToolMs(Append(timer.turns, turn)) = ToolMs(timer.turns) + turn.toolMs
      BY <1>a, OneMoreTurn
    <3> QED BY <3>1, <3>2
  <2>6. /\ timer' \in TimerRecord /\ spent' \in SpentRecord /\ Clocked' /\ Gap \in Nat
        /\ spent'.tools = spent.tools /\ Worked' = Worked /\ Elapsed' = Elapsed + Gap
    <3>1. Busy = "harness"
      BY <2>1 DEF Busy
    <3>2. spent'.tools = spent.tools + 0 /\ Worked' = Worked + 0
      BY <1>a, <2>1, <2>4, <3>1, GapIsSpent
    <3> QED BY <1>a, <1>d, <2>1, <2>4, <3>2, GapIsSpent
  <2>7. TimedTypes'
    BY <1>a, <2>1, <2>6 DEF TimedTypes
  <2>8. Idle'
    <3>1. ToolsBlamed'
      BY <1>a, <1>b, <2>1, <2>3, <2>5, <2>6 DEF ToolsBlamed
    <3>2. Worked' =< ProviderMs(timer'.turns)
      BY <2>2, <2>5, <2>6
    <3>3. ProviderMs(timer'.turns) =< Elapsed'
      <4>1. timer.sessionEnd \in Nat
        BY <1>c, <2>1
      <4> QED BY <1>b, <1>d, <2>2, <2>5, <2>6, <4>1
    <3> QED BY <2>1, <2>3, <2>4, <3>1, <3>2, <3>3 DEF Idle
  <2> QED BY <2>1, <2>6, <2>7, <2>8 DEF TimerInv
<1>9. CASE OtherEvent
  <2>1. /\ Emit("other") /\ timer' = record(timer, "other", now)
        /\ UNCHANGED <<now, phase, open, untold, overlapped>>
    BY <1>9 DEF OtherEvent, Emit
  <2>2. /\ Heard(timer, timer', now)
        /\ timer'.turns = timer.turns /\ timer'.turnStart = timer.turnStart
        /\ timer'.messageEnd = timer.messageEnd
        /\ timer'.toolStart = timer.toolStart /\ timer'.toolMs = timer.toolMs
    BY <1>a, <2>1, OtherHeard
  <2>3. /\ timer' \in TimerRecord /\ spent' \in SpentRecord /\ Clocked'
        /\ timer'.sessionEnd = now /\ Gap \in Nat
        /\ timer.sessionEnd # Unset => now = timer.sessionEnd + Gap
        /\ spent'.tools = spent.tools + (IF Busy = "tools" THEN Gap ELSE 0)
        /\ Worked' = Worked + (IF Busy = "harness" THEN 0 ELSE Gap)
        /\ Elapsed' = Elapsed + Gap
    BY <1>a, <2>1, <2>2, GapIsSpent
  <2>4. TimedTypes'
    BY <1>a, <2>1, <2>3 DEF TimedTypes
  <2>5. ASSUME phase # "tools" PROVE spent'.tools = spent.tools
    BY <1>a, <2>3, <2>5 DEF Busy
  <2>6. ASSUME phase = "idle" PROVE Idle'
    <3>1. /\ open = {} /\ untold = {} /\ timer.turnStart = Unset /\ timer.toolStart = Unset
          /\ Worked =< ProviderMs(timer.turns) /\ ProviderMs(timer.turns) =< Elapsed
          /\ ToolsBlamed
      BY <1>e, <2>6 DEF Idle
    <3>2. Busy = "harness"
      BY <2>6 DEF Busy
    <3>3. Worked' =< ProviderMs(timer.turns) /\ ProviderMs(timer.turns) =< Elapsed'
      BY <1>b, <1>d, <2>3, <3>1, <3>2
    <3>4. ToolsBlamed'
      BY <2>1, <2>2, <2>5, <2>6, <3>1 DEF ToolsBlamed
    <3> QED BY <2>1, <2>2, <3>1, <3>3, <3>4 DEF Idle
  <2>7. ASSUME phase # "idle" PROVE InTurn'
    BY <1>a, <1>e, <2>1, <2>2, <2>7, TurnGoesOn
  <2>8. ASSUME phase \in {"prompt", "provider"} PROVE InMessage'
    BY <1>e, <2>1, <2>2, <2>5, <2>8 DEF InMessage, ToolsBlamed
  <2>9. ASSUME phase = "tools" PROVE ToolClock'
    BY <1>a, <1>e, <2>1, <2>2, <2>9, ToolsGoOn
  <2>10. ASSUME phase = "tools" PROVE MessageClock'
    <3>1. /\ timer.messageEnd \in Nat /\ timer.turnStart =< timer.messageEnd
          /\ timer.messageEnd =< timer.sessionEnd
          /\ open = {} /\ untold = {} =>
                Worked =< ProviderMs(timer.turns) + (timer.messageEnd - timer.turnStart)
      BY <1>e, <2>10 DEF MessageClock
    <3>2. timer.messageEnd =< now
      BY <1>c, <2>3, <2>10, <3>1
    <3>3. open = {} => Worked' = Worked
      BY <1>d, <2>3, <2>10 DEF Busy
    <3> QED BY <2>1, <2>2, <2>3, <3>1, <3>2, <3>3 DEF MessageClock
  <2> QED BY <2>1, <2>3, <2>4, <2>6, <2>7, <2>8, <2>9, <2>10 DEF TimerInv
<1>10. CASE TBegin
  <2>1. /\ now' = 0 /\ timer' = NewTimer /\ phase' = "idle"
        /\ open' = {} /\ untold' = {} /\ overlapped' = FALSE /\ spent' = Nowhere
    BY <1>10 DEF TBegin
  <2> QED BY <2>1, NewTimerStarts
<1>11. CASE TSettles \/ Elsewhere \/ UNCHANGED tvars
  <2>1. UNCHANGED timed
    BY <1>11 DEF TSettles, Elsewhere, tvars
  <2> QED BY <2>1, TimerStays
<1> QED BY <1>1, <1>2, <1>3, <1>4, <1>5, <1>6, <1>7, <1>8, <1>9, <1>10, <1>11 DEF TNext

\* The clock of an agent, under the runner that starts and leaves it.
THEOREM TimerInvariance == TSpec => []TimerInv
BY NewTimerIsIdle, TimerStep, PTL DEF TSpec

LEMMA BreakdownHolds == TimerInv => BreakdownIsBounded
<1> SUFFICES ASSUME TimerInv PROVE BreakdownIsBounded
  OBVIOUS
<1> DEFINE P == ProviderMs(timer.turns)
           T == ToolMs(timer.turns)
           s == summary(timer)
<1>1. /\ spent.provider \in Nat /\ spent.tools \in Nat /\ spent.harness \in Nat
      /\ timer.turns \in Seq(TurnRow) /\ timer.toolMs \in Nat /\ timer.toolStart \in Times
      /\ phase \in {"idle", "prompt", "provider", "tools"}
  BY DEF TimerInv, TimedTypes, SpentRecord, TimerRecord
<1>2. P \in Nat /\ T \in Nat
  <2>1. [providerMs |-> 0, toolMs |-> 0, toolCalls |-> 0] \in TurnRow
    BY DEF TurnRow
  <2> QED BY <1>1, <2>1, OneMoreTurn
<1>3. /\ s.totalMs = IF timer.sessionStart = Unset THEN 0
                     ELSE timer.sessionEnd - timer.sessionStart
      /\ s.providerMs = P /\ s.toolMs = T
      /\ s.harnessMs = IF s.totalMs - P - T > 0 THEN s.totalMs - P - T ELSE 0
  BY DEF summary, ProviderMs, ToolMs
<1>0. /\ phase = "idle" => Idle
      /\ phase # "idle" => InTurn /\ timer.sessionEnd \in Nat
      /\ phase \in {"prompt", "provider"} => InMessage
      /\ phase = "tools" => ToolClock
  BY DEF TimerInv, Clocked
<1> HIDE DEF P, T, s
<1>4. s.totalMs = Elapsed
  <2>1. CASE timer.sessionStart = Unset
    BY <1>3, <2>1 DEF TimerInv, Clocked, Nowhere, Elapsed, Worked
  <2>2. CASE timer.sessionStart # Unset
    <3>1. /\ timer.sessionStart \in Nat /\ timer.sessionEnd = timer.sessionStart + Elapsed
      BY <2>2 DEF TimerInv, Clocked
    <3>2. Elapsed \in Nat
      BY <1>1 DEF Elapsed, Worked
    <3> QED BY <1>3, <2>2, <3>1, <3>2
  <2> QED BY <2>1, <2>2
<1>5. P =< s.totalMs
  <2>1. CASE phase = "idle"
    BY <1>0, <1>4, <2>1 DEF Idle, P
  <2>2. CASE phase # "idle"
    <3>1. /\ timer.turnStart \in Nat /\ timer.turnStart =< timer.sessionEnd
          /\ P + (timer.sessionEnd - timer.turnStart) =< Elapsed
      BY <1>0, <2>2 DEF InTurn, P
    <3>2. Elapsed \in Nat
      BY <1>1 DEF Elapsed, Worked
    <3> QED BY <1>0, <1>2, <1>4, <2>2, <3>1, <3>2
  <2> QED BY <2>1, <2>2
<1>6. T =< spent.tools
  <2>1. CASE phase \in {"idle", "prompt", "provider"}
    BY <1>0, <2>1 DEF Idle, InMessage, ToolsBlamed, T
  <2>2. CASE phase = "tools"
    <3>1. /\ timer.toolStart # Unset => timer.toolStart =< timer.sessionEnd
          /\ T + timer.toolMs + InTool =< spent.tools
      BY <1>0, <2>2 DEF ToolClock, T
    <3>2. InTool \in Nat
      BY <1>0, <1>1, <2>2, <3>1 DEF InTool, Times
    <3> QED BY <1>1, <1>2, <3>1, <3>2
  <2> QED BY <1>1, <2>1, <2>2
<1>7. ASSUME phase = "idle"
      PROVE  /\ spent.provider + spent.tools =< P
             /\ overlapped \/ T = spent.tools
             /\ s.harnessMs = 0 \/ s.harnessMs + T =< spent.harness
  <2>1. Worked =< P /\ (overlapped \/ T = spent.tools)
    BY <1>0, <1>7 DEF Idle, ToolsBlamed, P, T
  <2>2. spent.provider + spent.tools =< P
    BY <2>1 DEF Worked
  <2>3. s.totalMs = spent.provider + spent.tools + spent.harness
    BY <1>1, <1>4 DEF Elapsed, Worked
  <2>4. s.harnessMs = 0 \/ s.harnessMs + T =< spent.harness
    BY <1>1, <1>2, <1>3, <2>2, <2>3
  <2> QED BY <2>1, <2>2, <2>4
<1>8. s.totalMs = spent.provider + spent.tools + spent.harness
  BY <1>1, <1>4 DEF Elapsed, Worked
<1> QED BY <1>3, <1>5, <1>6, <1>7, <1>8 DEF BreakdownIsBounded, s

\* timing.ts:14-32, 95-125: the breakdown blames the tools for no more than they
\* took, the provider, once the turns have ended, for the provider's time and the
\* tools', and covers the whole time, for any number of turns and tools and any
\* times of theirs.
THEOREM BreakdownBounded == TSpec => []BreakdownIsBounded
BY TimerInvariance, BreakdownHolds, PTL

\* The clock changes nothing in what the runner does: every timed run is a run
\* of TaskRunner, so what is proved of those holds of the timed ones.
THEOREM TimedRunsAreRuns == TSpec => Init /\ [][Next]_vars
<1>1. TInit => Init
  BY DEF TInit
<1>2. [TNext]_tvars => [Next]_vars
  BY DEF TNext, tvars, Tick, TurnBegins, PromptTold, TReply, ToolStarts, ToolFinishes,
         ResultTold, TurnFinishes, OtherEvent, TSettles, TBegin, Elsewhere, Next
<1> QED BY <1>1, <1>2, PTL DEF TSpec
=============================================================================
