----------------------------- MODULE TaskRunner -----------------------------
(***************************************************************************)
(* One eval task (packages/cli/src/run-task.ts, bin/run-task.ts): a fresh  *)
(* agent for each model of the chain until one ends without a provider     *)
(* error, the chain being gone through twice if it has fallbacks.  Each    *)
(* agent races a timeout that it does not hear of: when the timeout wins,  *)
(* the agent works on until the process exits.                             *)
(***************************************************************************)
EXTENDS Naturals, Sequences, FiniteSets

CONSTANTS
    Models,          \* length of the chain, the fallbacks included
    MaxReplies       \* bound: assistant messages of one agent

ASSUME TaskAssumption == Models \in Nat \ {0} /\ MaxReplies \in Nat

VARIABLES
    unknown,         \* models of the chain that the catalogue does not have
    pc,              \* "begin", "race", "pause", "done", "threw" or "exited"
    pass, pos,       \* the pass over the chain, and the model of the run
    fallbacksFrom,   \* models whose run ended in a provider error
    attempt,         \* agents started so far; the last is the current one
    running,         \* agents whose prompt has not settled
    turns,           \* assistant messages of the current agent
    erred,           \* one of them has stopReason "error"
    error            \* of the task's result; "none" if ok

vars == <<unknown, pc, pass, pos, fallbacksFrom, attempt, running, turns, erred, error>>

Passes == IF Models > 1 THEN 2 ELSE 1

Errors == {"none", "provider error", "no response", "thrown", "timeout"}

Init ==
    /\ unknown \in SUBSET (1..Models)
    /\ pc = "begin"
    /\ pass = 1 /\ pos = 1
    /\ fallbacksFrom = <<>>
    /\ attempt = 0
    /\ running = {}
    /\ turns = 0
    /\ erred = FALSE
    /\ error = "none"

-----------------------------------------------------------------------------
(* runTask.                                                                *)

\* Mutant: a task that timed out goes to the next model as well.
ProviderFailureOrTimeout(e) == e \in {"provider error", "timeout"}

\* The only error for which another model is tried.
ProviderFailure(e) == e = "provider error"

\* The next model, the pause before the next pass, or the end.
Advance ==
    \/ /\ pos < Models
       /\ pc' = "begin" /\ pos' = pos + 1
    \/ /\ pos = Models
       /\ pc' = IF pass < Passes THEN "pause" ELSE "done"
       /\ UNCHANGED pos

\* A run of one model is over.
Conclude(e) ==
    /\ error' = e
    /\ \/ /\ ProviderFailure(e)
          /\ fallbacksFrom' = Append(fallbacksFrom, pos)
          /\ Advance
       \/ /\ ~ProviderFailure(e)
          /\ pc' = "done"
          /\ UNCHANGED <<pos, fallbacksFrom>>

\* Mutant: the second pass goes on where the first ended.
ResumeAtLast ==
    /\ pc = "pause"
    /\ pc' = "begin"
    /\ pass' = pass + 1
    /\ UNCHANGED <<unknown, pos, fallbacksFrom, attempt, running, turns, erred, error>>

\* The 30 seconds between two passes are over.
Resume ==
    /\ pc = "pause"
    /\ pc' = "begin"
    /\ pass' = pass + 1 /\ pos' = 1
    /\ UNCHANGED <<unknown, fallbacksFrom, attempt, running, turns, erred, error>>

-----------------------------------------------------------------------------
(* runTaskOnce.                                                            *)

\* A fresh agent, and the race with its timeout.
Begin ==
    /\ pc = "begin"
    /\ pos \notin unknown
    /\ pc' = "race"
    /\ attempt' = attempt + 1
    /\ running' = running \cup {attempt'}
    /\ turns' = 0 /\ erred' = FALSE
    /\ UNCHANGED <<unknown, pass, pos, fallbacksFrom, error>>

\* resolveModel throws, and nothing catches it before main, which ends the
\* process without a result.
BeginThrows ==
    /\ pc = "begin"
    /\ pos \in unknown
    /\ pc' = "threw"
    /\ UNCHANGED <<unknown, pass, pos, fallbacksFrom, attempt, running, turns, erred, error>>

\* The agent gets a reply, perhaps a provider error, which is its last.
Reply ==
    /\ pc = "race"
    /\ turns < MaxReplies /\ ~erred
    /\ turns' = turns + 1
    /\ erred' \in BOOLEAN
    /\ UNCHANGED <<unknown, pc, pass, pos, fallbacksFrom, attempt, running, error>>

\* Mutant: the stop reason is not looked at.
ErrorUnseen == IF turns = 0 THEN "no response" ELSE "none"

\* What the transcript of an agent that did not throw says of the run.
ErrorFound ==
    IF erred THEN "provider error" ELSE IF turns = 0 THEN "no response" ELSE "none"

\* agent.prompt resolves first.
AgentSettles ==
    /\ pc = "race"
    /\ running' = running \ {attempt}
    /\ Conclude(ErrorFound)
    /\ UNCHANGED <<unknown, pass, attempt, turns, erred>>

AgentThrows ==
    /\ pc = "race"
    /\ running' = running \ {attempt}
    /\ Conclude("thrown")
    /\ UNCHANGED <<unknown, pass, attempt, turns, erred>>

\* Mutant: the timeout rejects nothing.
TimeoutUnheard == pc = "race" /\ UNCHANGED vars

\* The timeout rejects first; the agent is not told.
Timeout ==
    /\ pc = "race"
    /\ Conclude("timeout")
    /\ UNCHANGED <<unknown, pass, attempt, running, turns, erred>>

\* An agent left behind comes to its end by itself.
LateSettle ==
    /\ pc # "race" /\ running # {}
    /\ running' = {}
    /\ UNCHANGED <<unknown, pc, pass, pos, fallbacksFrom, attempt, turns, erred, error>>

\* main prints the result and ends the process, with what still runs in it.
Exit ==
    /\ pc = "done"
    /\ pc' = "exited"
    /\ running' = {}
    /\ UNCHANGED <<unknown, pass, pos, fallbacksFrom, attempt, turns, erred, error>>

Stopped == pc \in {"exited", "threw"} /\ UNCHANGED vars

Next ==
    \/ Begin \/ BeginThrows
    \/ Reply \/ AgentSettles \/ AgentThrows
    \/ Timeout \/ LateSettle
    \/ Resume
    \/ Exit
    \/ Stopped

\* The timers fire and the process does what is next.  Nothing is asked of the
\* agent: its provider may hang for ever.
Fairness ==
    WF_vars(Begin \/ BeginThrows) /\ WF_vars(Timeout) /\ WF_vars(Resume) /\ WF_vars(Exit)

Spec == Init /\ [][Next]_vars /\ Fairness

-----------------------------------------------------------------------------
(* Properties.                                                             *)

Reported == pc \in {"done", "exited"}

\* Provider weather is not counted as a failed task (run-task.ts:46-52, 132-147):
\* a result names a provider error only when every model failed so in every
\* pass, in the order of the chain, and any other result comes from the model
\* after the ones that failed.
WeatherIsNotFailure ==
    /\ \A i \in DOMAIN fallbacksFrom :
          fallbacksFrom[i] = IF i =< Models THEN i ELSE i - Models
    /\ Reported /\ error = "provider error" => Len(fallbacksFrom) = Passes * Models
    /\ Reported /\ error # "provider error" => attempt = Len(fallbacksFrom) + 1

\* Agents share the working directory, and one that timed out is not stopped
\* (run-task.ts:123-127, 235-240): no agent is ever started beside it, so a
\* model sees what the last one left but never what it is still doing.
OneAgentOnTheTree == Cardinality(running) =< 1

\* SPEC 4.9: a provider error ends the turn without an exception, so a run is
\* reported ok only if its agent has come to an end by itself, with a reply, and
\* none of its replies is an error (run-task.ts:248-261).
OkMeansAnswered ==
    Reported /\ error = "none" => turns > 0 /\ ~erred /\ attempt \notin running

\* A hung agent cannot hold up the suite (run-task.ts:16-18, 234-240).
EveryTaskEnds == <>(pc \in {"exited", "threw"})
=============================================================================
