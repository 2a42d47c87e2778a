----------------------------- MODULE TurnTimer -----------------------------
(***************************************************************************)
(* The latency breakdown of one agent                                      *)
(* (packages/telemetry/src/timing.ts): a pure state machine over the names *)
(* of the agent's events and the times they are recorded at.  The time to  *)
(* the first token, which nothing else is computed from, is left out.      *)
(***************************************************************************)
EXTENDS Integers, Sequences, Functions

CONSTANT Unset       \* a time that is undefined

ASSUME UnsetAssumption == Unset \notin Int

NewTimer ==
    [turns |-> <<>>, turnStart |-> Unset, messageEnd |-> Unset,
     toolStart |-> Unset, toolMs |-> 0, toolCalls |-> 0,
     sessionStart |-> Unset, sessionEnd |-> Unset]

\* The first of two times that is set: a ?? b.
Or(a, b) == IF a = Unset THEN b ELSE a

\* Mutant: a turn goes on counting the tools of the one before.
TurnStartsKeepingTools(t, at) ==
    [t EXCEPT !.turnStart = at, !.messageEnd = Unset]

TurnStarts(t, at) ==
    [t EXCEPT !.turnStart = at, !.messageEnd = Unset, !.toolMs = 0, !.toolCalls = 0]

ToolEnds(t, at) ==
    [t EXCEPT !.toolMs = IF t.toolStart = Unset THEN @ ELSE @ + (at - t.toolStart),
              !.toolStart = Unset]

TurnEnds(t, at) ==
    IF t.turnStart = Unset THEN t
    ELSE [t EXCEPT
            !.turns = Append(@, [providerMs |-> Or(t.messageEnd, at) - t.turnStart,
                                 toolMs |-> t.toolMs, toolCalls |-> t.toolCalls]),
            !.turnStart = Unset]

record(timer, type, at) ==
    LET t == [timer EXCEPT !.sessionStart = Or(@, at), !.sessionEnd = at]
    IN  CASE type = "turn_start" -> TurnStarts(t, at)
          [] type = "message_end" -> [t EXCEPT !.messageEnd = at]
          [] type = "tool_execution_start" ->
                [t EXCEPT !.toolStart = at, !.toolCalls = @ + 1]
          [] type = "tool_execution_end" -> ToolEnds(t, at)
          [] type = "turn_end" -> TurnEnds(t, at)
          [] OTHER -> t

summary(t) ==
    LET providerMs == SumFunction([i \in DOMAIN t.turns |-> t.turns[i].providerMs])
        toolMs == SumFunction([i \in DOMAIN t.turns |-> t.turns[i].toolMs])
        totalMs == IF t.sessionStart = Unset THEN 0 ELSE t.sessionEnd - t.sessionStart
        rest == totalMs - providerMs - toolMs
    IN  [turns |-> Len(t.turns), totalMs |-> totalMs, providerMs |-> providerMs,
         toolMs |-> toolMs, harnessMs |-> IF rest > 0 THEN rest ELSE 0]
=============================================================================
