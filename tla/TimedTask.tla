----------------------------- MODULE TimedTask -----------------------------
(***************************************************************************)
(* TaskRunner with the clock of each agent: what its TurnTimer makes of    *)
(* the events it is subscribed to (packages/cli/src/run-task.ts:225-227,   *)
(* 291-299), against where the time really went.  The first turn begins    *)
(* with the prompt; every turn is a round trip to the provider, its        *)
(* message, and the tools that message calls, which may overlap.  Prompt,  *)
(* answer and tool results are messages alike: each has its message_end.   *)
(***************************************************************************)
EXTENDS TaskRunner, TurnTimer

CONSTANTS
    Tools,           \* tools that may run in one turn
    MaxMs            \* bound: ticks of the clock while one agent runs

VARIABLES
    now,             \* Date.now() since the current agent was started
    timer,           \* its TurnTimer
    phase,           \* of the agent: "idle", "prompt", "provider" or "tools"
    called, open,    \* tools the turn has called, and those still running
    untold,          \* tools that ended and whose result is no message yet
    overlapped,      \* two tools of this agent have run at once
    spent            \* history: ms between its events, by where they were spent

timed == <<now, timer, phase, called, open, untold, overlapped, spent>>
tvars == <<vars, timed>>

Nowhere == [provider |-> 0, tools |-> 0, harness |-> 0]

TInit ==
    /\ Init
    /\ now = 0 /\ timer = NewTimer /\ phase = "idle"
    /\ called = {} /\ open = {} /\ untold = {} /\ overlapped = FALSE
    /\ spent = Nowhere

\* Where the agent is between two events.
Busy ==
    CASE phase = "provider" -> "provider"
      [] phase = "tools" /\ open # {} -> "tools"
      [] OTHER -> "harness"

\* The agent emits an event, which the subscriber records.
Emit(type) ==
    /\ timer' = record(timer, type, now)
    /\ spent' = [spent EXCEPT ![Busy] = @ + (now - Or(timer.sessionEnd, now))]

-----------------------------------------------------------------------------
(* The agent that is racing.                                               *)

\* A millisecond passes.
Tick ==
    /\ pc = "race" /\ now < MaxMs
    /\ now' = now + 1
    /\ UNCHANGED <<vars, timer, phase, called, open, untold, overlapped, spent>>

TurnBegins ==
    /\ pc = "race" /\ phase = "idle"
    /\ turns < MaxReplies /\ ~erred
    /\ Emit("turn_start")
    /\ phase' = IF turns = 0 THEN "prompt" ELSE "provider"
    /\ UNCHANGED <<vars, now, called, open, untold, overlapped>>

\* The prompt lands in the transcript.
PromptTold ==
    /\ pc = "race" /\ phase = "prompt"
    /\ Emit("message_end")
    /\ phase' = "provider"
    /\ UNCHANGED <<vars, now, called, open, untold, overlapped>>

\* The message is complete, and lands in the transcript.
TReply ==
    /\ phase = "provider"
    /\ Reply
    /\ Emit("message_end")
    /\ phase' = "tools"
    /\ UNCHANGED <<now, called, open, untold, overlapped>>

ToolStarts(tool) ==
    /\ pc = "race" /\ phase = "tools" /\ ~erred
    /\ tool \notin called
    /\ Emit("tool_execution_start")
    /\ called' = called \cup {tool}
    /\ open' = open \cup {tool}
    /\ overlapped' = (overlapped \/ open # {})
    /\ UNCHANGED <<vars, now, phase, untold>>

ToolFinishes(tool) ==
    /\ pc = "race" /\ tool \in open
    /\ Emit("tool_execution_end")
    /\ open' = open \ {tool}
    /\ untold' = untold \cup {tool}
    /\ UNCHANGED <<vars, now, phase, called, overlapped>>

\* The result of a tool lands in the transcript, at once or when others are done.
ResultTold(tool) ==
    /\ pc = "race" /\ tool \in untold
    /\ Emit("message_end")
    /\ untold' = untold \ {tool}
    /\ UNCHANGED <<vars, now, phase, called, open, overlapped>>

TurnFinishes ==
    /\ pc = "race" /\ phase = "tools" /\ open = {} /\ untold = {}
    /\ Emit("turn_end")
    /\ phase' = "idle"
    /\ called' = {}
    /\ UNCHANGED <<vars, now, open, untold, overlapped>>

\* Any other event only moves the end of the timer's session: agent_start,
\* message_start, message_update, tool_execution_update, agent_end.
OtherEvent ==
    /\ pc = "race"
    /\ Emit("other")
    /\ UNCHANGED <<vars, now, phase, called, open, untold, overlapped>>

\* The agent settles between two turns; it may throw, or be left, at any point.
TSettles == AgentSettles /\ phase = "idle" /\ UNCHANGED timed

-----------------------------------------------------------------------------
\* Each agent has a timer of its own, which is read when its race is over.
TBegin ==
    /\ Begin
    /\ now' = 0 /\ timer' = NewTimer /\ phase' = "idle"
    /\ called' = {} /\ open' = {} /\ untold' = {} /\ overlapped' = FALSE
    /\ spent' = Nowhere

Elsewhere ==
    /\ BeginThrows \/ AgentThrows \/ Timeout \/ LateSettle \/ Resume \/ Exit \/ Stopped
    /\ UNCHANGED timed

TNext ==
    \/ Tick
    \/ TurnBegins \/ PromptTold \/ TReply \/ TurnFinishes \/ OtherEvent
    \/ \E tool \in Tools : ToolStarts(tool) \/ ToolFinishes(tool) \/ ResultTold(tool)
    \/ TBegin \/ TSettles \/ Elsewhere

TFairness ==
    /\ WF_tvars(TBegin \/ (BeginThrows /\ UNCHANGED timed))
    /\ WF_tvars(Timeout /\ UNCHANGED timed)
    /\ WF_tvars(Resume /\ UNCHANGED timed)
    /\ WF_tvars(Exit /\ UNCHANGED timed)

TSpec == TInit /\ [][TNext]_tvars /\ TFairness

-----------------------------------------------------------------------------
(* Properties.                                                             *)

\* timing.ts:14-32, 95-125: however tools overlap and however the race ends, the
\* breakdown covers the whole time and blames the tools for no more than they
\* took, exactly that when every turn has ended and no two overlapped.  The last
\* message_end of a turn is that of a tool result, so once every turn has ended
\* the provider's share contains the tools' time with the provider's own, and
\* the harness is blamed, if at all, for no more than the time in which neither
\* ran, from which the tools' time is taken a second time.
BreakdownIsBounded ==
    pc # "race" =>
        LET s == summary(timer)
        IN  /\ s.totalMs = spent.provider + spent.tools + spent.harness
            /\ s.toolMs =< spent.tools /\ s.providerMs =< s.totalMs
            /\ phase = "idle" => /\ spent.provider + spent.tools =< s.providerMs
                                 /\ \/ s.harnessMs = 0
                                    \/ s.harnessMs + s.toolMs =< spent.harness
                                 /\ overlapped \/ s.toolMs = spent.tools
=============================================================================
