------------------------- MODULE ConversationProofs -------------------------
(***************************************************************************)
(* An agent is built after the index and on the map of its own             *)
(* conversation, for any processes, kinds, commands and bounds.  A session *)
(* is changed by its own process only, so the invariant is one predicate   *)
(* of one session, and each action has a lemma about what it makes of it.  *)
(* What ran was cleared: the processes meet in the audit file, so there    *)
(* the invariant relates every pending call, every call that ran and every *)
(* entry (AuditInv), and a step is quiet, asks, gives a verdict or runs.   *)
(***************************************************************************)
EXTENDS Conversation, FiniteSetTheorems, TLAPS

Pins == [prompt : Nat, map : BOOLEAN]
Agents == [graph : BOOLEAN, pin : Pins]
Waiting == [call : Nat, command : Commands, at : {"confirm", "cleared"}]

Steps == {"ready", "open", "init", "files", "prompt", "pin", "build", "turn"}

Sessions ==
    [kind : Kinds, pc : Steps, caller : {"start", "prompt", "command"}, store : BOOLEAN,
     agent : Agents, pinned : Pins, pending : SUBSET Waiting, lines : Nat,
     indexed : BOOLEAN, asked : SUBSET Nat]

\* A store was indexed, or is on the way to it; the REPL indexes before it reads a
\* line, so none of its prompts does, and what an index throws ends the process.
StoreOK(c) ==
    /\ c.store => c.indexed \/ c.pc \in {"init", "files"}
    /\ c.pc \in {"init", "files"} \/ c.indexed => c.store
    /\ (~c.kind.shot /\ c.kind.graph /\ c.pc \in {"ready", "prompt"}) => c.store
    /\ (~c.kind.shot /\ c.caller = "prompt") => c.pc \notin {"open", "init", "files"}

\* A prompt that has no agent yet.
PromptOK(c) ==
    /\ c.pc \in {"prompt", "pin", "build", "turn"} => c.caller = "prompt"
    /\ (c.caller = "prompt" /\ c.pc \in {"open", "init", "files", "pin", "build"}) =>
          c.agent = NoAgent
    /\ c.pc = "turn" => c.agent # NoAgent
    /\ c.pc \in {"pin", "build", "turn"} /\ c.kind.graph => c.store

\* Whether a prompt is on its way to the pinned context.
Coming(c) == c.caller = "prompt" /\ c.pc \in {"prompt", "open", "init", "files", "pin"}

\* What is pinned is of the first prompt, and is not kept without an agent unless
\* there will never be one.
PinOK(c) ==
    /\ \A x \in c.asked : x > 0 /\ x =< c.lines
    /\ Coming(c) => c.lines \in c.asked
    /\ c.pinned = NoPin => c.asked = IF Coming(c) THEN {c.lines} ELSE {}
    /\ c.pinned # NoPin =>
          c.pinned.prompt \in c.asked /\ \A x \in c.asked : c.pinned.prompt =< x
    /\ (c.pinned # NoPin /\ c.kind.model) => c.agent # NoAgent \/ c.pc = "build"
    /\ c.pc = "build" => c.pinned # NoPin
    /\ (c.pc = "build" /\ c.kind.model) => c.pinned.map = c.store

AgentOK(c) ==
    c.agent # NoAgent =>
        /\ c.agent.pin = c.pinned /\ c.pinned # NoPin
        /\ c.agent.graph = c.agent.pin.map
        /\ c.kind.graph => c.agent.graph
        /\ c.agent.graph => c.indexed

Good(c) == c \in Sessions /\ StoreOK(c) /\ PromptOK(c) /\ PinOK(c) /\ AgentOK(c)

IInv == s \in [Procs -> {Off} \cup Sessions] /\ \A p \in Procs : s[p] = Off \/ Good(s[p])

-----------------------------------------------------------------------------
LEMMA OffIsNoSession == Off \notin Sessions /\ Off.pc = "off"
BY DEF Off, Sessions, Steps

LEMMA BecomesKeeps ==
    ASSUME IInv, NEW p \in Procs, NEW c, c = Off \/ Good(c), Becomes(p, c)
    PROVE  IInv'
BY DEF IInv, Becomes, Good

\* A session that is not off is a good one.
LEMMA Running ==
    ASSUME IInv, NEW p \in Procs, s[p].pc # "off"
    PROVE  Good(s[p])
BY OffIsNoSession DEF IInv

LEMMA FreshIsGood ==
    ASSUME NEW kind \in Kinds, kind.shot \/ ~kind.graph
    PROVE  Good(Fresh(kind)) /\ Fresh(kind).pc = "ready"
BY DEF Fresh, Good, Sessions, Steps, Pins, Agents, Waiting, NoAgent, NoPin, StoreOK, PromptOK,
       PinOK, AgentOK, Coming

LEMMA FirstIndexIsGood ==
    ASSUME NEW kind \in Kinds
    PROVE  Good(Indexing(Fresh(kind), "start"))
BY DEF Indexing, Fresh, Good, Sessions, Steps, Pins, Agents, Waiting, NoAgent, NoPin, StoreOK,
       PromptOK, PinOK, AgentOK, Coming

LEMMA PromptingIsGood ==
    ASSUME NEW c, Good(c),
           c.pc = "ready"
    PROVE  Good(Prompting(c))
<1> DEFINE d == Prompting(c)
<1>0. c.lines \in Nat /\ c.lines + 1 \in Nat /\ c.asked \in SUBSET Nat /\ c.pinned \in Pins
  BY DEF Good, Sessions
<1>1. /\ d \in Sessions /\ d.kind = c.kind /\ d.pc = "prompt" /\ d.caller = "prompt"
      /\ d.store = c.store /\ d.agent = c.agent /\ d.pinned = c.pinned
      /\ d.lines = c.lines + 1 /\ d.indexed = c.indexed
      /\ d.asked = (c.asked \cup {c.lines + 1})
  BY <1>0 DEF Prompting, Good, Sessions, Steps, Agents, Pins
<1> HIDE DEF d
<1>2. StoreOK(d) BY <1>1 DEF Good, StoreOK, PromptOK
<1>3. PromptOK(d) BY <1>1 DEF Good, PromptOK
<1>4. PinOK(d) BY <1>0, <1>1 DEF Good, PinOK, PromptOK, AgentOK, Coming
<1>5. AgentOK(d) BY <1>1 DEF Good, AgentOK, StoreOK, PromptOK, PinOK
<1>6. Good(d) BY <1>1, <1>2, <1>3, <1>4, <1>5 DEF Good
<1> QED BY <1>6 DEF d

LEMMA IndexingIsGood ==
    ASSUME NEW c, Good(c), NEW by \in {"start", "prompt", "command"},
           \/ c.pc = "ready" /\ by # "prompt"
           \/ c.pc = "prompt" /\ by = "prompt" /\ c.agent = NoAgent /\ NeedsIndex(c)
    PROVE  Good(Indexing(c, by))
<1> DEFINE d == Indexing(c, by)
<1>1. /\ d \in Sessions /\ d.caller = by /\ d.pc = (IF c.store THEN "files" ELSE "open")
      /\ d.kind = c.kind /\ d.store = c.store /\ d.agent = c.agent /\ d.pinned = c.pinned
      /\ d.lines = c.lines /\ d.indexed = c.indexed /\ d.asked = c.asked
  BY DEF Indexing, Good, Sessions, Steps
<1> HIDE DEF d
<1>2. StoreOK(d) BY <1>1 DEF Good, StoreOK, NeedsIndex
<1>3. PromptOK(d) BY <1>1 DEF Good, PromptOK
<1>4. PinOK(d) BY <1>1 DEF Good, PinOK, PromptOK, AgentOK, Coming
<1>5. AgentOK(d) BY <1>1 DEF Good, AgentOK
<1>6. Good(d) BY <1>1, <1>2, <1>3, <1>4, <1>5 DEF Good
<1> QED BY <1>6 DEF d

\* Out of every step a prompt or an index may throw from.
LEMMA ThrownIsGood ==
    ASSUME NEW c, Good(c),
           c.caller = "prompt" => c.pc \in {"open", "init", "files", "pin", "build", "turn"},
           c.pc = "build" => ~c.kind.model
    PROVE  Thrown(c) = Off \/ Good(Thrown(c))
<1> SUFFICES ASSUME c.caller = "prompt", ~c.kind.shot PROVE Good(Thrown(c))
  BY DEF Thrown
<1> DEFINE d == Thrown(c)
<1>1. /\ d \in Sessions /\ d.caller = c.caller /\ d.pc = "ready"
      /\ d.kind = c.kind /\ d.store = c.store /\ d.agent = c.agent /\ d.pinned = c.pinned
      /\ d.lines = c.lines /\ d.indexed = c.indexed
      /\ d.asked = (IF c.pinned = NoPin THEN c.asked \ {c.lines} ELSE c.asked)
  BY DEF Thrown, Good, Sessions, Steps
<1> HIDE DEF d
<1>2. StoreOK(d) BY <1>1 DEF Good, StoreOK, PromptOK
<1>3. PromptOK(d) BY <1>1 DEF Good, PromptOK
<1>4. PinOK(d) BY <1>1 DEF Good, PinOK, PromptOK, AgentOK, Coming
<1>5. AgentOK(d) BY <1>1 DEF Good, AgentOK
<1>6. Good(d) BY <1>1, <1>2, <1>3, <1>4, <1>5 DEF Good
<1> QED BY <1>6 DEF d

LEMMA OpenedIsGood ==
    ASSUME NEW c, Good(c),
           c.pc = "open"
    PROVE  Good([c EXCEPT !.store = TRUE, !.pc = "init"])
<1> DEFINE d == [c EXCEPT !.store = TRUE, !.pc = "init"]
<1>1. /\ d \in Sessions /\ d.kind = c.kind /\ d.pc = "init" /\ d.caller = c.caller
      /\ d.store = TRUE /\ d.agent = c.agent /\ d.pinned = c.pinned /\ d.lines = c.lines
      /\ d.indexed = c.indexed /\ d.asked = c.asked
  BY DEF Good, Sessions, Steps, Agents, Pins
<1> HIDE DEF d
<1>2. StoreOK(d) BY <1>1 DEF Good, StoreOK, PromptOK
<1>3. PromptOK(d) BY <1>1 DEF Good, PromptOK
<1>4. PinOK(d) BY <1>1 DEF Good, PinOK, PromptOK, AgentOK, Coming
<1>5. AgentOK(d) BY <1>1 DEF Good, AgentOK, StoreOK, PromptOK, PinOK
<1>6. Good(d) BY <1>1, <1>2, <1>3, <1>4, <1>5 DEF Good
<1> QED BY <1>6 DEF d

LEMMA InitialisedIsGood ==
    ASSUME NEW c, Good(c),
           c.pc = "init"
    PROVE  Good([c EXCEPT !.pc = "files"])
<1> DEFINE d == [c EXCEPT !.pc = "files"]
<1>1. /\ d \in Sessions /\ d.kind = c.kind /\ d.pc = "files" /\ d.caller = c.caller
      /\ d.store = c.store /\ d.agent = c.agent /\ d.pinned = c.pinned
      /\ d.lines = c.lines /\ d.indexed = c.indexed
      /\ d.asked = c.asked
  BY DEF Good, Sessions, Steps, Agents, Pins
<1> HIDE DEF d
<1>2. StoreOK(d) BY <1>1 DEF Good, StoreOK, PromptOK
<1>3. PromptOK(d) BY <1>1 DEF Good, PromptOK
<1>4. PinOK(d) BY <1>1 DEF Good, PinOK, PromptOK, AgentOK, Coming
<1>5. AgentOK(d) BY <1>1 DEF Good, AgentOK, StoreOK, PromptOK, PinOK
<1>6. Good(d) BY <1>1, <1>2, <1>3, <1>4, <1>5 DEF Good
<1> QED BY <1>6 DEF d

LEMMA IndexedIsGood ==
    ASSUME NEW c, Good(c),
           c.pc = "files"
    PROVE  Good([c EXCEPT !.indexed = TRUE,
                            !.pc = IF c.caller = "prompt" THEN "pin" ELSE "ready"])
<1> DEFINE d == [c EXCEPT !.indexed = TRUE,
                            !.pc = IF c.caller = "prompt" THEN "pin" ELSE "ready"]
<1>1. /\ d \in Sessions /\ d.kind = c.kind
      /\ d.pc = (IF c.caller = "prompt" THEN "pin" ELSE "ready") /\ d.caller = c.caller
      /\ d.store = c.store /\ d.agent = c.agent /\ d.pinned = c.pinned
      /\ d.lines = c.lines /\ d.indexed = TRUE /\ d.asked = c.asked
  BY DEF Good, Sessions, Steps, Agents, Pins
<1> HIDE DEF d
<1>2. StoreOK(d) BY <1>1 DEF Good, StoreOK, PromptOK
<1>3. PromptOK(d) BY <1>1 DEF Good, PromptOK, StoreOK
<1>4. PinOK(d) BY <1>1 DEF Good, PinOK, PromptOK, AgentOK, Coming
<1>5. AgentOK(d) BY <1>1 DEF Good, AgentOK, StoreOK, PromptOK, PinOK
<1>6. Good(d) BY <1>1, <1>2, <1>3, <1>4, <1>5 DEF Good
<1> QED BY <1>6 DEF d

LEMMA TypedIsGood ==
    ASSUME NEW c, Good(c),
           c.pc = "ready"
    PROVE  Good([c EXCEPT !.lines = @ + 1])
<1> DEFINE d == [c EXCEPT !.lines = @ + 1]
<1>0. c.lines \in Nat /\ c.lines + 1 \in Nat /\ c.asked \in SUBSET Nat /\ c.pinned \in Pins
  BY DEF Good, Sessions
<1>1. /\ d \in Sessions /\ d.kind = c.kind /\ d.pc = c.pc /\ d.caller = c.caller
      /\ d.store = c.store /\ d.agent = c.agent /\ d.pinned = c.pinned
      /\ d.lines = c.lines + 1 /\ d.indexed = c.indexed
      /\ d.asked = c.asked
  BY <1>0 DEF Good, Sessions, Steps, Agents, Pins
<1> HIDE DEF d
<1>2. StoreOK(d) BY <1>1 DEF Good, StoreOK, PromptOK
<1>3. PromptOK(d) BY <1>1 DEF Good, PromptOK
<1>4. PinOK(d) BY <1>0, <1>1 DEF Good, PinOK, PromptOK, AgentOK, Coming
<1>5. AgentOK(d) BY <1>1 DEF Good, AgentOK, StoreOK, PromptOK, PinOK
<1>6. Good(d) BY <1>1, <1>2, <1>3, <1>4, <1>5 DEF Good
<1> QED BY <1>6 DEF d

LEMMA ClearedIsGood ==
    ASSUME NEW c, Good(c),
           c.pc = "ready"
    PROVE  Good([clear(c) EXCEPT !.lines = @ + 1, !.asked = {}])
<1> DEFINE d == [clear(c) EXCEPT !.lines = @ + 1, !.asked = {}]
<1>0. c.lines \in Nat /\ c.lines + 1 \in Nat /\ c.asked \in SUBSET Nat /\ c.pinned \in Pins
  BY DEF Good, Sessions
<1>1. /\ d \in Sessions /\ d.kind = c.kind /\ d.pc = c.pc /\ d.caller = c.caller
      /\ d.store = c.store /\ d.agent = NoAgent /\ d.pinned = NoPin
      /\ d.lines = c.lines + 1 /\ d.indexed = c.indexed
      /\ d.asked = {}
  BY <1>0 DEF clear, NoAgent, NoPin, Good, Sessions, Steps, Agents, Pins
<1> HIDE DEF d
<1>2. StoreOK(d) BY <1>1 DEF Good, StoreOK, PromptOK
<1>3. PromptOK(d) BY <1>1 DEF Good, PromptOK
<1>4. PinOK(d) BY <1>0, <1>1 DEF Good, PinOK, PromptOK, AgentOK, Coming
<1>5. AgentOK(d) BY <1>1 DEF Good, AgentOK, StoreOK, PromptOK, PinOK
<1>6. Good(d) BY <1>1, <1>2, <1>3, <1>4, <1>5 DEF Good
<1> QED BY <1>6 DEF d

LEMMA TurningIsGood ==
    ASSUME NEW c, Good(c),
           c.pc = "prompt", c.agent # NoAgent
    PROVE  Good([c EXCEPT !.pc = "turn"])
<1> DEFINE d == [c EXCEPT !.pc = "turn"]
<1>1. /\ d \in Sessions /\ d.kind = c.kind /\ d.pc = "turn" /\ d.caller = c.caller
      /\ d.store = c.store /\ d.agent = c.agent /\ d.pinned = c.pinned
      /\ d.lines = c.lines /\ d.indexed = c.indexed
      /\ d.asked = c.asked
  BY DEF Good, Sessions, Steps, Agents, Pins
<1> HIDE DEF d
<1>2. StoreOK(d) BY <1>1 DEF Good, StoreOK, PromptOK
<1>3. PromptOK(d) BY <1>1 DEF Good, PromptOK, AgentOK, StoreOK
<1>4. PinOK(d) BY <1>1 DEF Good, PinOK, PromptOK, AgentOK, Coming
<1>5. AgentOK(d) BY <1>1 DEF Good, AgentOK, StoreOK, PromptOK, PinOK
<1>6. Good(d) BY <1>1, <1>2, <1>3, <1>4, <1>5 DEF Good
<1> QED BY <1>6 DEF d

LEMMA PinningIsGood ==
    ASSUME NEW c, Good(c),
           c.pc = "prompt", c.agent = NoAgent, ~NeedsIndex(c)
    PROVE  Good([c EXCEPT !.pc = "pin"])
<1> DEFINE d == [c EXCEPT !.pc = "pin"]
<1>1. /\ d \in Sessions /\ d.kind = c.kind /\ d.pc = "pin" /\ d.caller = c.caller
      /\ d.store = c.store /\ d.agent = c.agent /\ d.pinned = c.pinned
      /\ d.lines = c.lines /\ d.indexed = c.indexed
      /\ d.asked = c.asked
  BY DEF Good, Sessions, Steps, Agents, Pins
<1> HIDE DEF d
<1>2. StoreOK(d) BY <1>1 DEF Good, StoreOK, PromptOK
<1>3. PromptOK(d) BY <1>1 DEF Good, PromptOK, NeedsIndex
<1>4. PinOK(d) BY <1>1 DEF Good, PinOK, PromptOK, AgentOK, Coming
<1>5. AgentOK(d) BY <1>1 DEF Good, AgentOK, StoreOK, PromptOK, PinOK
<1>6. Good(d) BY <1>1, <1>2, <1>3, <1>4, <1>5 DEF Good
<1> QED BY <1>6 DEF d

LEMMA PinnedIsGood ==
    ASSUME NEW c, Good(c),
           c.pc = "pin"
    PROVE  Good([c EXCEPT !.pc = "build",
                            !.pinned = IF c.pinned = NoPin
                                       THEN [prompt |-> c.lines, map |-> c.store] ELSE @])
<1> DEFINE d == [c EXCEPT !.pc = "build",
                            !.pinned = IF c.pinned = NoPin
                                       THEN [prompt |-> c.lines, map |-> c.store] ELSE @]
<1>0. c.lines \in Nat /\ c.lines + 1 \in Nat /\ c.asked \in SUBSET Nat /\ c.pinned \in Pins
  BY DEF Good, Sessions
<1>1. /\ d \in Sessions /\ d.kind = c.kind /\ d.pc = "build" /\ d.caller = c.caller
      /\ d.store = c.store /\ d.agent = c.agent
      /\ d.pinned = (IF c.pinned = NoPin
                   THEN [prompt |-> c.lines, map |-> c.store] ELSE c.pinned)
      /\ d.lines = c.lines /\ d.indexed = c.indexed
      /\ d.asked = c.asked
  BY <1>0 DEF Good, Sessions, Steps, Agents, Pins
<1> HIDE DEF d
<1>2. StoreOK(d) BY <1>1 DEF Good, StoreOK, PromptOK
<1>3. PromptOK(d) BY <1>1 DEF Good, PromptOK
<1>4. PinOK(d)
  <2>1. c.lines \in c.asked /\ c.lines > 0 /\ c.agent = NoAgent BY DEF Good, PromptOK, PinOK, Coming
  <2>2. CASE c.pinned # NoPin BY <2>1, <2>2, <1>1 DEF Good, PinOK, Coming
  <2>3. CASE c.pinned = NoPin
    <3>1. d.pinned.prompt = c.lines /\ d.pinned.map = c.store BY <2>3, <1>1
    <3>2. d.pinned # NoPin BY <3>1, <2>1 DEF NoPin
    <3> QED BY <3>1, <3>2, <2>1, <1>0, <1>1 DEF Good, PinOK, Coming
  <2> QED BY <2>2, <2>3
<1>5. AgentOK(d) BY <1>1 DEF Good, AgentOK, StoreOK, PromptOK, PinOK
<1>6. Good(d) BY <1>1, <1>2, <1>3, <1>4, <1>5 DEF Good
<1> QED BY <1>6 DEF d

LEMMA BuiltIsGood ==
    ASSUME NEW c, Good(c),
           c.pc = "build", c.kind.model
    PROVE  Good([c EXCEPT !.pc = "turn", !.agent = [graph |-> c.store, pin |-> c.pinned]])
<1> DEFINE d == [c EXCEPT !.pc = "turn", !.agent = [graph |-> c.store, pin |-> c.pinned]]
<1>1. /\ d \in Sessions /\ d.kind = c.kind /\ d.pc = "turn" /\ d.caller = c.caller
      /\ d.store = c.store /\ d.agent = [graph |-> c.store, pin |-> c.pinned]
      /\ d.pinned = c.pinned /\ d.lines = c.lines /\ d.indexed = c.indexed
      /\ d.asked = c.asked
  BY DEF Good, Sessions, Steps, Agents, Pins
<1> HIDE DEF d
<1>2. d.agent # NoAgent
  <2>1. c.pinned # NoPin BY DEF Good, PinOK
  <2>2. d.agent.pin # NoAgent.pin BY <1>1, <2>1 DEF NoAgent
  <2> QED BY <2>2
<1>3. StoreOK(d) BY <1>1 DEF Good, StoreOK, PromptOK
<1>4. PromptOK(d) BY <1>1, <1>2 DEF Good, PromptOK
<1>5. PinOK(d) BY <1>1, <1>2 DEF Good, PinOK, Coming
<1>6. AgentOK(d) BY <1>1 DEF Good, AgentOK, StoreOK, PromptOK, PinOK
<1>7. Good(d) BY <1>1, <1>3, <1>4, <1>5, <1>6 DEF Good
<1> QED BY <1>7 DEF d

LEMMA EndedIsGood ==
    ASSUME NEW c, Good(c),
           c.pc = "turn"
    PROVE  Good([c EXCEPT !.pc = "ready"])
<1> DEFINE d == [c EXCEPT !.pc = "ready"]
<1>1. /\ d \in Sessions /\ d.kind = c.kind /\ d.pc = "ready" /\ d.caller = c.caller
      /\ d.store = c.store /\ d.agent = c.agent /\ d.pinned = c.pinned
      /\ d.lines = c.lines /\ d.indexed = c.indexed
      /\ d.asked = c.asked
  BY DEF Good, Sessions, Steps, Agents, Pins
<1> HIDE DEF d
<1>2. StoreOK(d) BY <1>1 DEF Good, StoreOK, PromptOK
<1>3. PromptOK(d) BY <1>1 DEF Good, PromptOK
<1>4. PinOK(d) BY <1>1 DEF Good, PinOK, PromptOK, AgentOK, Coming
<1>5. AgentOK(d) BY <1>1 DEF Good, AgentOK, StoreOK, PromptOK, PinOK
<1>6. Good(d) BY <1>1, <1>2, <1>3, <1>4, <1>5 DEF Good
<1> QED BY <1>6 DEF d

LEMMA CallingIsGood ==
    ASSUME NEW c, Good(c), NEW w \in SUBSET Waiting
    PROVE  Good([c EXCEPT !.pending = w])
<1> DEFINE d == [c EXCEPT !.pending = w]
<1>1. /\ d \in Sessions /\ d.kind = c.kind /\ d.pc = c.pc /\ d.caller = c.caller
      /\ d.store = c.store /\ d.agent = c.agent /\ d.pinned = c.pinned
      /\ d.lines = c.lines /\ d.indexed = c.indexed
      /\ d.asked = c.asked
  BY DEF Good, Sessions, Steps, Agents, Pins
<1> HIDE DEF d
<1>2. StoreOK(d) BY <1>1 DEF Good, StoreOK, PromptOK
<1>3. PromptOK(d) BY <1>1 DEF Good, PromptOK
<1>4. PinOK(d) BY <1>1 DEF Good, PinOK, PromptOK, AgentOK, Coming
<1>5. AgentOK(d) BY <1>1 DEF Good, AgentOK, StoreOK, PromptOK, PinOK
<1>6. Good(d) BY <1>1, <1>2, <1>3, <1>4, <1>5 DEF Good
<1> QED BY <1>6 DEF d

-----------------------------------------------------------------------------
(* The actions.                                                            *)

LEMMA IndexKeeps ==
    ASSUME IInv, NEW p \in Procs, Index(p)
    PROVE  IInv'
<1> DEFINE c == s[p]
           thrown == Thrown(c)
<1>1. Good(c) BY Running DEF Index, Open, InitStore, IndexFiles
<1>2. thrown = Off \/ Good(thrown)
  <2>1. c.pc \in {"open", "init", "files"} BY DEF Index, Open, InitStore, IndexFiles
  <2> QED BY <1>1, <2>1, ThrownIsGood
<1> HIDE DEF c, thrown
<1>3. CASE Open(p)
  <2>1. c.pc = "open" BY <1>3 DEF Open, c
  <2>2. Good([c EXCEPT !.store = TRUE, !.pc = "init"]) BY <1>1, <2>1, OpenedIsGood
  <2>3. \/ Becomes(p, [c EXCEPT !.store = TRUE, !.pc = "init"])
        \/ Becomes(p, thrown)
    BY <1>3 DEF Open, c, thrown
  <2> QED BY <1>2, <2>2, <2>3, BecomesKeeps
<1>4. CASE InitStore(p)
  <2>1. c.pc = "init" BY <1>4 DEF InitStore, c
  <2>2. Good([c EXCEPT !.pc = "files"]) BY <1>1, <2>1, InitialisedIsGood
  <2>3. Becomes(p, [c EXCEPT !.pc = "files"]) \/ Becomes(p, thrown)
    BY <1>4 DEF InitStore, c, thrown
  <2> QED BY <1>2, <2>2, <2>3, BecomesKeeps
<1>5. CASE IndexFiles(p)
  <2> DEFINE d == [c EXCEPT !.indexed = TRUE,
                            !.pc = IF c.caller = "prompt" THEN "pin" ELSE "ready"]
  <2>1. c.pc = "files" BY <1>5 DEF IndexFiles, c
  <2>2. Good(d) BY <1>1, <2>1, IndexedIsGood
  <2>3. Becomes(p, d) \/ Becomes(p, thrown) BY <1>5 DEF IndexFiles, c, thrown
  <2> QED BY <1>2, <2>2, <2>3, BecomesKeeps
<1> QED BY <1>3, <1>4, <1>5 DEF Index

LEMMA StartKeeps ==
    ASSUME IInv, NEW p \in Procs, Start(p)
    PROVE  IInv'
<1>1. PICK kind \in Kinds :
         Becomes(p, IF kind.shot THEN Prompting(Fresh(kind))
                    ELSE IF kind.graph THEN Indexing(Fresh(kind), "start")
                    ELSE Fresh(kind))
  BY DEF Start
<1>2. kind.shot \/ ~kind.graph => Good(Fresh(kind)) /\ Fresh(kind).pc = "ready"
  BY FreshIsGood
<1>3. kind.shot => Good(Prompting(Fresh(kind))) BY <1>2, PromptingIsGood
<1>4. Good(Indexing(Fresh(kind), "start")) BY FirstIndexIsGood
<1> QED BY <1>1, <1>2, <1>3, <1>4, BecomesKeeps

LEMMA LineKeeps ==
    ASSUME IInv, NEW p \in Procs, Line(p)
    PROVE  IInv'
<1>1. s[p].pc = "ready" BY DEF Line, Prompt, Reindex, Query, Clear, Exit, Typed
<1>2. Good(s[p]) BY <1>1, Running
<1>3. CASE Prompt(p) BY <1>1, <1>2, <1>3, PromptingIsGood, BecomesKeeps DEF Prompt
<1>4. CASE Reindex(p)
  <2> DEFINE d == [s[p] EXCEPT !.lines = @ + 1]
  <2>1. Good(d) BY <1>1, <1>2, TypedIsGood
  <2>2. d.pc = "ready" BY <1>1, <1>2 DEF Good, Sessions
  <2>3. Becomes(p, Indexing(d, "command")) BY <1>4 DEF Reindex
  <2> HIDE DEF d
  <2>4. Good(Indexing(d, "command")) BY <2>1, <2>2, IndexingIsGood
  <2> QED BY <2>3, <2>4, BecomesKeeps
<1>5. CASE Query(p) BY <1>5, BecomesKeeps DEF Query
<1>6. CASE Exit(p) BY <1>6, BecomesKeeps DEF Exit
<1>7. CASE Clear(p) BY <1>1, <1>2, <1>7, ClearedIsGood, BecomesKeeps DEF Clear
<1> QED BY <1>3, <1>4, <1>5, <1>6, <1>7 DEF Line

LEMMA EnsureKeeps ==
    ASSUME IInv, NEW p \in Procs, Ensure(p)
    PROVE  IInv'
<1> DEFINE c == s[p]
<1>1. Good(c) BY Running DEF Ensure, EnsureAgent, Pin, Build
<1> HIDE DEF c
<1>2. CASE EnsureAgent(p)
  <2>1. c.pc = "prompt" BY <1>2 DEF EnsureAgent, c
  <2>2. Becomes(p, IF c.agent # NoAgent THEN [c EXCEPT !.pc = "turn"]
                   ELSE IF NeedsIndex(c) THEN Indexing(c, "prompt")
                   ELSE [c EXCEPT !.pc = "pin"])
    BY <1>2 DEF EnsureAgent, c
  <2>3. c.agent # NoAgent => Good([c EXCEPT !.pc = "turn"]) BY <1>1, <2>1, TurningIsGood
  <2>4. c.agent = NoAgent /\ NeedsIndex(c) => Good(Indexing(c, "prompt"))
    BY <1>1, <2>1, IndexingIsGood
  <2>5. c.agent = NoAgent /\ ~NeedsIndex(c) => Good([c EXCEPT !.pc = "pin"])
    BY <1>1, <2>1, PinningIsGood
  <2> QED BY <2>2, <2>3, <2>4, <2>5, BecomesKeeps
<1>3. CASE Pin(p)
  <2> DEFINE d == [c EXCEPT !.pc = "build",
                            !.pinned = IF c.pinned = NoPin
                                       THEN [prompt |-> c.lines, map |-> c.store] ELSE @]
  <2>1. c.pc = "pin" /\ (Becomes(p, d) \/ Becomes(p, Thrown(c))) BY <1>3 DEF Pin, c
  <2>2. Good(d) BY <1>1, <2>1, PinnedIsGood
  <2>3. Thrown(c) = Off \/ Good(Thrown(c)) BY <1>1, <2>1, ThrownIsGood
  <2> QED BY <2>1, <2>2, <2>3, BecomesKeeps
<1>4. CASE Build(p)
  <2> DEFINE d == [c EXCEPT !.pc = "turn", !.agent = [graph |-> c.store, pin |-> c.pinned]]
  <2>1. c.pc = "build" /\ Becomes(p, IF c.kind.model THEN d ELSE Thrown(c))
    BY <1>4 DEF Build, c
  <2>2. c.kind.model => Good(d) BY <1>1, <2>1, BuiltIsGood
  <2>3. ~c.kind.model => Thrown(c) = Off \/ Good(Thrown(c)) BY <1>1, <2>1, ThrownIsGood
  <2> QED BY <2>1, <2>2, <2>3, BecomesKeeps
<1> QED BY <1>2, <1>3, <1>4 DEF Ensure

\* A bash call changes nothing of the session but what is pending.
LEMMA AuditedKeeps ==
    ASSUME IInv, NEW p \in Procs, Good(s[p]), NEW call \in Nat, NEW command \in Commands,
           NEW verdict, NEW others \in SUBSET Waiting,
           Audited(p, call, command, verdict, others)
    PROVE  IInv'
<1> DEFINE cleared == [call |-> call, command |-> command, at |-> "cleared"]
           more == others \cup (IF Passes(verdict) THEN {cleared} ELSE {})
<1>1. more \in SUBSET Waiting BY DEF Waiting
<1>2. \/ Becomes(p, [s[p] EXCEPT !.pending = more])
      \/ Becomes(p, [s[p] EXCEPT !.pending = others])
  BY DEF Audited
<1> HIDE DEF more
<1>3. Good([s[p] EXCEPT !.pending = more]) /\ Good([s[p] EXCEPT !.pending = others])
  BY <1>1, CallingIsGood
<1> QED BY <1>2, <1>3, BecomesKeeps

CallsOK == calls \in Nat

LEMMA TurnKeeps ==
    ASSUME IInv, CallsOK, NEW p \in Procs, Turn(p)
    PROVE  IInv'
<1> DEFINE c == s[p]
<1>1. c.pc = "turn" BY DEF Turn, BashCall, Answer, Run, Redact, EndTurn
<1>2. Good(c) BY <1>1, Running
<1>3. c.pending \in SUBSET Waiting BY <1>2 DEF Good, Sessions
<1>4. Thrown(c) = Off \/ Good(Thrown(c)) BY <1>1, <1>2, ThrownIsGood
<1>5. ASSUME NEW command \in Commands \cup {NoCommand}, BashCall(p, command) PROVE IInv'
  <2> DEFINE verdict == decide(c.kind, command)
             asking == [call |-> calls + 1, command |-> command, at |-> "confirm"]
  <2>1. CASE verdict = "unnamed"
    <3>1. s' = s BY <1>5, <2>1 DEF BashCall
    <3> QED BY <3>1 DEF IInv
  <2>2. CASE verdict # "unnamed"
    <3>1. command \in Commands BY <2>2 DEF decide
    <3>2. calls + 1 \in Nat BY DEF CallsOK
    <3>3. CASE verdict = "ask"
      <4>1. Becomes(p, [c EXCEPT !.pending = @ \cup {asking}]) BY <1>5, <3>3 DEF BashCall
      <4>2. c.pending \cup {asking} \in SUBSET Waiting BY <1>3, <3>1, <3>2 DEF Waiting
      <4>3. Good([c EXCEPT !.pending = c.pending \cup {asking}])
        BY <1>2, <4>2, CallingIsGood
      <4> QED BY <4>1, <4>3, BecomesKeeps
    <3>4. CASE verdict # "ask"
      <4>1. Audited(p, calls + 1, command, verdict, c.pending)
        BY <1>5, <2>2, <3>4 DEF BashCall
      <4> HIDE DEF verdict
      <4> QED BY <4>1, <1>2, <1>3, <3>1, <3>2, AuditedKeeps
    <3> QED BY <3>3, <3>4
  <2> QED BY <2>1, <2>2
<1>6. CASE Answer(p)
  <2>1. PICK x \in c.pending, yes \in {c.kind.tty, FALSE} :
           Audited(p, x.call, x.command, IF yes THEN "confirmed" ELSE "denied", c.pending \ {x})
    BY <1>6 DEF Answer
  <2>2. x.call \in Nat /\ x.command \in Commands BY <1>3 DEF Waiting
  <2>3. c.pending \ {x} \in SUBSET Waiting BY <1>3
  <2> QED BY <1>2, <2>1, <2>2, <2>3, AuditedKeeps
<1>7. CASE Run(p)
  <2>1. PICK x \in c.pending : Becomes(p, [c EXCEPT !.pending = @ \ {x}]) BY <1>7 DEF Run
  <2>2. c.pending \ {x} \in SUBSET Waiting BY <1>3
  <2>3. Good([c EXCEPT !.pending = c.pending \ {x}]) BY <1>2, <2>2, CallingIsGood
  <2> QED BY <2>1, <2>3, BecomesKeeps
<1>8. CASE Redact(p)
  <2>1. s' = s \/ Becomes(p, Thrown(c)) BY <1>8 DEF Redact
  <2>2. CASE s' = s BY <2>2 DEF IInv
  <2> QED BY <1>4, <2>1, <2>2, BecomesKeeps
<1>9. CASE EndTurn(p)
  <2>1. \/ Becomes(p, Off) \/ Becomes(p, [c EXCEPT !.pc = "ready"]) \/ Becomes(p, Thrown(c))
    BY <1>9 DEF EndTurn
  <2>2. Good([c EXCEPT !.pc = "ready"]) BY <1>1, <1>2, EndedIsGood
  <2> QED BY <1>4, <2>1, <2>2, BecomesKeeps
<1> QED BY <1>5, <1>6, <1>7, <1>8, <1>9 DEF Turn

LEMMA Inductive == IInv /\ CallsOK /\ [Next]_vars => IInv' /\ CallsOK'
<1> SUFFICES ASSUME IInv, CallsOK, [Next]_vars PROVE IInv' /\ CallsOK' OBVIOUS
<1>1. CallsOK'
  <2>1. calls' = calls \/ calls' = calls + 1
    BY DEF Next, vars, bounds, Start, Index, Open, InitStore, IndexFiles, Line, Prompt, Reindex,
           Query, Exit, Clear, Typed, Ensure, EnsureAgent, Pin, Build, Turn, BashCall, Answer,
           Run, Redact, EndTurn, Kill
  <2> QED BY <2>1, SMTT(30) DEF CallsOK
<1>2. ASSUME UNCHANGED vars PROVE IInv'
  <2>1. s' = s BY <1>2 DEF vars
  <2> QED BY <2>1 DEF IInv
<1>3. ASSUME Next PROVE IInv'
  <2>1. PICK p \in Procs :
           Start(p) \/ Index(p) \/ Line(p) \/ Ensure(p) \/ Turn(p) \/ Kill(p)
    BY <1>3 DEF Next
  <2>2. CASE Start(p) BY <2>2, StartKeeps
  <2>3. CASE Index(p) BY <2>3, IndexKeeps
  <2>4. CASE Line(p) BY <2>4, LineKeeps
  <2>5. CASE Ensure(p) BY <2>5, EnsureKeeps
  <2>6. CASE Turn(p) BY <2>6, TurnKeeps
  <2>7. CASE Kill(p) BY <2>7, BecomesKeeps DEF Kill
  <2> QED BY <2>1, <2>2, <2>3, <2>4, <2>5, <2>6, <2>7
<1> QED BY <1>1, <1>2, <1>3

\* session.ts:123-279: an agent has the graph exactly when its map was pinned, only
\* after an index of its own session finished, and the map is of the first
\* prompt of its conversation.
THEOREM AgentsAreBuiltInOrder == Spec => []BuiltInOrder
<1>1. Init => IInv /\ CallsOK BY DEF Init, IInv, CallsOK
<1>2. IInv => BuiltInOrder
  <2> SUFFICES ASSUME IInv, NEW p \in Procs, s[p].pc # "off", s[p].agent # NoAgent
               PROVE  /\ s[p].agent.graph = s[p].agent.pin.map
                      /\ s[p].kind.graph => s[p].agent.graph
                      /\ s[p].agent.graph => s[p].indexed
                      /\ s[p].agent.pin.prompt = Min(s[p].asked)
    BY DEF BuiltInOrder
  <2>1. Good(s[p]) BY Running
  <2>2. s[p].agent.pin = s[p].pinned /\ s[p].pinned # NoPin BY <2>1 DEF Good, AgentOK
  <2>3. /\ s[p].asked \in SUBSET Nat /\ s[p].pinned.prompt \in s[p].asked
        /\ \A x \in s[p].asked : s[p].pinned.prompt =< x
    BY <2>1, <2>2 DEF Good, PinOK, Sessions
  <2>4. \A m \in s[p].asked :
           (\A x \in s[p].asked : m =< x) => m = s[p].pinned.prompt
    BY <2>3
  <2>5. Min(s[p].asked) = s[p].pinned.prompt BY <2>3, <2>4 DEF Min
  <2> QED BY <2>1, <2>2, <2>5 DEF Good, AgentOK
<1> QED BY <1>1, <1>2, Inductive, PTL DEF Spec

-----------------------------------------------------------------------------
(* The audit file: what one append does to what a reader gets.             *)

AuditFiles == [lines : Seq(AuditEntry \cup {Garbled}), tail : AuditEntry \cup {Garbled, NoTail}]

\* The entries of the complete lines, which nothing takes away any more.
Kept(f) == {f.lines[i] : i \in 1..Len(f.lines)} \ {Garbled}

Reads(f) == (Kept(f) \cup {f.tail}) \ {Garbled, NoTail}

OpenTail(f) == IF f.tail = NoTail THEN 0 ELSE 1

LEMMA ReadsIsReadBack == ASSUME NEW f \in AuditFiles PROVE ReadBack(f) = Reads(f)
<1>1. /\ f.lines \in Seq(AuditEntry \cup {Garbled}) /\ Len(f.lines) \in Nat
      /\ f.tail \in AuditEntry \cup {Garbled, NoTail}
      /\ \A i \in 1..Len(f.lines) : f.lines[i] # NoTail
  BY LinesDiffer DEF AuditFiles
<1>2. CASE f.tail = NoTail
  <2>1. AllLines(f) = f.lines /\ DOMAIN AllLines(f) = 1..Len(f.lines)
    BY <1>1, <1>2 DEF AllLines
  <2> QED BY <1>1, <1>2, <2>1 DEF ReadBack, IntactAt, Reads, Kept
<1>3. CASE f.tail # NoTail
  <2>1. AllLines(f) = Append(f.lines, f.tail) BY <1>3 DEF AllLines
  <2>2. /\ DOMAIN AllLines(f) = 1..(Len(f.lines) + 1)
        /\ \A i \in 1..Len(f.lines) : AllLines(f)[i] = f.lines[i]
        /\ AllLines(f)[Len(f.lines) + 1] = f.tail
    BY <1>1, <1>3, <2>1
  <2>3. ASSUME NEW x \in ReadBack(f) PROVE x \in Reads(f)
    <3>1. PICK i \in 1..(Len(f.lines) + 1) : x = AllLines(f)[i] /\ x # Garbled
      BY <2>2 DEF ReadBack, IntactAt
    <3>2. CASE i = Len(f.lines) + 1 BY <1>3, <2>2, <3>1, <3>2 DEF Reads
    <3>3. CASE i \in 1..Len(f.lines) BY <1>1, <2>2, <3>1, <3>3 DEF Reads, Kept
    <3> QED BY <1>1, <3>2, <3>3
  <2>4. ASSUME NEW x \in Reads(f) PROVE x \in ReadBack(f)
    <3>1. PICK i \in 1..(Len(f.lines) + 1) : AllLines(f)[i] = x
      <4>1. CASE x = f.tail
        <5>1. Len(f.lines) + 1 \in 1..(Len(f.lines) + 1) BY <1>1
        <5> QED BY <2>2, <4>1, <5>1
      <4>2. CASE x # f.tail
        <5>1. PICK i \in 1..Len(f.lines) : x = f.lines[i] BY <4>2 DEF Reads, Kept
        <5>2. i \in 1..(Len(f.lines) + 1) BY <1>1
        <5> QED BY <2>2, <5>1, <5>2
      <4> QED BY <4>1, <4>2
    <3>2. x # Garbled BY DEF Reads
    <3> QED BY <2>2, <3>1, <3>2 DEF ReadBack, IntactAt
  <2> QED BY <2>3, <2>4
<1> QED BY <1>2, <1>3

\* A whole append is kept, or closes the open tail and is lost with it.
LEMMA AppendKeeps ==
    ASSUME NEW f \in AuditFiles, NEW r \in AuditEntry
    PROVE  LET g == AppendLine(f, r) IN
           /\ g \in AuditFiles /\ OpenTail(g) = 0
           /\ Kept(f) \subseteq Kept(g) /\ Reads(g) \subseteq Reads(f) \cup {r}
           /\ f.tail = NoTail => r \in Kept(g)
<1> DEFINE g == AppendLine(f, r)
           n == Len(f.lines) + 1
<1>1. /\ f.lines \in Seq(AuditEntry \cup {Garbled}) /\ Len(f.lines) \in Nat
      /\ n \in 1..n /\ 1..n = 1..Len(f.lines) \cup {n}
  BY DEF AuditFiles
<1>2. Glue(f.tail, r) \in AuditEntry \cup {Garbled} BY DEF Glue
<1>3. /\ g = [lines |-> Append(f.lines, Glue(f.tail, r)), tail |-> NoTail]
      /\ g.lines = Append(f.lines, Glue(f.tail, r)) /\ g.tail = NoTail
  BY DEF AppendLine
<1>4. /\ Len(g.lines) = n /\ g.lines[n] = Glue(f.tail, r)
      /\ \A i \in 1..Len(f.lines) : g.lines[i] = f.lines[i]
      /\ g.lines \in Seq(AuditEntry \cup {Garbled})
  BY <1>1, <1>2, <1>3
<1>5. g \in AuditFiles BY <1>3, <1>4 DEF AuditFiles
<1> HIDE DEF g, n
<1>6. Kept(g) = Kept(f) \cup ({Glue(f.tail, r)} \ {Garbled})
  <2>1. {g.lines[i] : i \in 1..Len(g.lines)} =
           {f.lines[i] : i \in 1..Len(f.lines)} \cup {Glue(f.tail, r)}
    BY <1>1, <1>4
  <2> QED BY <2>1 DEF Kept
<1>7. Kept(f) \subseteq Kept(g) BY <1>6
<1>8. Reads(g) \subseteq Reads(f) \cup {r}
  <2>1. NoTail \notin Kept(f) BY <1>1, LinesDiffer DEF Kept
  <2> QED BY <1>3, <1>6, <2>1 DEF Reads, Glue, Kept
<1>9. f.tail = NoTail => r \in Kept(g) BY <1>6, LinesDiffer DEF Glue
<1>10. OpenTail(g) = 0 BY <1>3 DEF OpenTail
<1> QED BY <1>5, <1>7, <1>8, <1>9, <1>10 DEF g

\* One that is cut short changes no complete line.
LEMMA CutKeeps ==
    ASSUME NEW f \in AuditFiles, NEW r \in AuditEntry, NEW g \in CutAppends(f, r)
    PROVE  g \in AuditFiles /\ Kept(g) = Kept(f) /\ Reads(g) \subseteq Reads(f) \cup {r}
<1>1. f = [lines |-> f.lines, tail |-> f.tail] BY DEF AuditFiles
<1>2. \/ g = f
      \/ g = [lines |-> f.lines, tail |-> Garbled]
      \/ g = [lines |-> f.lines, tail |-> r]
  BY <1>1 DEF CutAppends, Glue
<1>3. g \in AuditFiles /\ g.lines = f.lines /\ g.tail \in {f.tail, Garbled, r}
  BY <1>2 DEF AuditFiles
<1> QED BY <1>3 DEF Kept, Reads

-----------------------------------------------------------------------------
(* What ran was cleared: the invariant.                                    *)

Waits(p) == IF s[p] = Off THEN {} ELSE s[p].pending

Permitted(kind, command) ==
    /\ command \in Commands \ DenyList
    /\ \/ command \in AllowList
       \/ kind.permissions = "yolo"
       \/ kind.permissions = "confirm" /\ kind.tty

MayAsk(kind, command) == command \in Commands \ DenyList /\ kind.permissions = "confirm"

\* A call is one pending call of one process, or ran.
CallsOnce ==
    /\ \A r \in ran : r.call \in 1..calls
    /\ \A p \in Procs : \A x \in Waits(p) :
          /\ x.call \in 1..calls
          /\ \A r \in ran : r.call # x.call
          /\ \A q \in Procs : \A y \in Waits(q) : x.call = y.call => p = q /\ x = y

AllPermitted ==
    /\ \A r \in ran : Permitted(r.kind, r.command)
    /\ \A p \in Procs : \A x \in Waits(p) :
          IF x.at = "cleared" THEN Permitted(s[p].kind, x.command)
          ELSE MayAsk(s[p].kind, x.command)

\* The calls whose entry was appended before they were let through.
Acked == {n \in 1..calls : \/ \E r \in ran : r.call = n
                           \/ \E p \in Procs : \E x \in Waits(p) : x.at = "cleared" /\ x.call = n}

\* No entry tells of a call still asked about, and none refuses one let through.
EntriesTell ==
    \A e \in Reads(audit) :
        /\ e.call =< calls
        /\ e.call \in Acked => Passes(e.verdict)
        /\ \A p \in Procs : \A x \in Waits(p) : x.at = "confirm" => x.call # e.call

\* The calls let through that no complete line tells of.
Unkept == Acked \ {e.call : e \in {e \in Kept(audit) : Passes(e.verdict)}}

\* An open tail costs the next entry its line, and nothing else loses one.
LossBound == Cardinality(Unkept) + OpenTail(audit) =< cuts

AuditTypes == calls \in Nat /\ cuts \in Nat /\ audit \in AuditFiles

AuditInv == AuditTypes /\ CallsOnce /\ AllPermitted /\ EntriesTell /\ LossBound

-----------------------------------------------------------------------------
LEMMA UnkeptFinite ==
    ASSUME calls \in Nat
    PROVE  IsFiniteSet(Acked) /\ IsFiniteSet(Unkept) /\ Cardinality(Unkept) \in Nat
<1>1. IsFiniteSet(1..calls) BY FS_Interval
<1>2. IsFiniteSet(Acked) BY <1>1, FS_Subset DEF Acked
<1>3. IsFiniteSet(Unkept) BY <1>2, FS_Subset DEF Unkept
<1> QED BY <1>2, <1>3, FS_CardinalityType

LEMMA AuditTells == AuditInv => WhatRanWasCleared
<1> SUFFICES ASSUME AuditInv PROVE WhatRanWasCleared OBVIOUS
<1> DEFINE ranCalls == {r.call : r \in ran}
<1>1. ReadBack(audit) = Reads(audit) BY ReadsIsReadBack DEF AuditInv, AuditTypes
<1>2. ranCalls \subseteq Acked BY DEF AuditInv, CallsOnce, Acked
<1>3. ranCalls \cap Entries({"blocked", "denied"}) = {}
  BY <1>1, <1>2 DEF AuditInv, EntriesTell, Entries, Passes
<1>4. {e.call : e \in {e \in Kept(audit) : Passes(e.verdict)}} \subseteq
         Entries({"allowed", "confirmed"})
  <2>1. Kept(audit) \subseteq Reads(audit)
    BY LinesDiffer DEF AuditInv, AuditTypes, AuditFiles, Kept, Reads
  <2> QED BY <1>1, <2>1 DEF Entries, Passes
<1>5. ranCalls \ Entries({"allowed", "confirmed"}) \subseteq Unkept BY <1>2, <1>4 DEF Unkept
<1>6. Cardinality(ranCalls \ Entries({"allowed", "confirmed"})) =< Cardinality(Unkept)
  BY <1>5, UnkeptFinite, FS_Subset DEF AuditInv, AuditTypes
<1>7. Cardinality(Unkept) =< cuts
  BY UnkeptFinite DEF AuditInv, AuditTypes, LossBound, OpenTail
<1>8. Cardinality(ranCalls \ Entries({"allowed", "confirmed"})) \in Nat
  BY <1>5, UnkeptFinite, FS_Subset, FS_CardinalityType DEF AuditInv, AuditTypes
<1>9. Cardinality(ranCalls \ Entries({"allowed", "confirmed"})) =< cuts
  BY <1>6, <1>7, <1>8, UnkeptFinite DEF AuditInv, AuditTypes
<1>10. \A r \in ran : Permitted(r.kind, r.command) BY DEF AuditInv, AllPermitted
<1> QED BY <1>3, <1>9, <1>10 DEF WhatRanWasCleared, Permitted

\* What a process becomes is what it waits for; no other process moves.
LEMMA WaitsAfter ==
    ASSUME IInv, NEW p \in Procs, NEW d, Becomes(p, d)
    PROVE  /\ s'[p] = d
           /\ Waits(p)' = IF d = Off THEN {} ELSE d.pending
           /\ \A q \in Procs : q # p => s'[q] = s[q] /\ Waits(q)' = Waits(q)
BY DEF IInv, Becomes, Waits

\* A step that appends nothing, runs nothing and asks nothing: it may forget what a
\* process waited for.
Quietly ==
    /\ \A p \in Procs : /\ Waits(p)' \subseteq Waits(p)
                        /\ Waits(p)' # {} => s'[p].kind = s[p].kind
    /\ calls' \in {calls, calls + 1} /\ ran' = ran

LEMMA ForgettingKeeps ==
    ASSUME AuditInv, Quietly
    PROVE  /\ CallsOnce' /\ AllPermitted' /\ calls' \in Nat
           /\ Acked' \subseteq Acked
<1>1. calls \in Nat /\ calls' \in Nat /\ calls =< calls' BY DEF AuditInv, AuditTypes, Quietly
<1>2. CallsOnce' BY <1>1 DEF AuditInv, CallsOnce, Quietly
<1>3. AllPermitted' BY DEF AuditInv, AllPermitted, Quietly
<1>4. Acked' \subseteq Acked
  <2> SUFFICES ASSUME NEW n \in Acked' PROVE n \in Acked OBVIOUS
  <2>1. \/ \E r \in ran : r.call = n
        \/ \E p \in Procs : \E x \in Waits(p) : x.at = "cleared" /\ x.call = n
    BY DEF Acked, Quietly
  <2>2. n \in 1..calls BY <2>1 DEF AuditInv, CallsOnce
  <2> QED BY <2>1, <2>2 DEF Acked
<1> QED BY <1>1, <1>2, <1>3, <1>4

LEMMA QuietKeeps ==
    ASSUME AuditInv, Quietly, UNCHANGED <<audit, cuts>>
    PROVE  AuditInv'
<1>1. /\ CallsOnce' /\ AllPermitted' /\ calls' \in Nat /\ Acked' \subseteq Acked
      /\ calls \in Nat /\ cuts \in Nat /\ calls =< calls'
  BY ForgettingKeeps DEF AuditInv, AuditTypes, Quietly
<1>2. AuditTypes' BY <1>1 DEF AuditInv, AuditTypes
<1>3. EntriesTell'
  <2> SUFFICES ASSUME NEW e \in Reads(audit)
               PROVE  /\ e.call =< calls'
                      /\ e.call \in Acked' => Passes(e.verdict)
                      /\ \A p \in Procs : \A x \in Waits(p)' : x.at = "confirm" => x.call # e.call
    BY DEF EntriesTell
  <2>1. e \in AuditEntry BY DEF AuditInv, AuditTypes, AuditFiles, Reads, Kept
  <2>2. e.call \in Nat BY <2>1 DEF AuditEntry
  <2> QED BY <1>1, <2>2 DEF AuditInv, EntriesTell, Quietly
<1>4. LossBound'
  <2>1. Unkept' \subseteq Unkept BY <1>1 DEF Unkept
  <2>2. /\ Cardinality(Unkept') \in Nat /\ Cardinality(Unkept) \in Nat
        /\ Cardinality(Unkept') =< Cardinality(Unkept)
    BY <1>1, <2>1, UnkeptFinite, FS_Subset, FS_CardinalityType
  <2> QED BY <1>1, <2>2 DEF AuditInv, LossBound, OpenTail
<1> QED BY <1>1, <1>2, <1>3, <1>4 DEF AuditInv

\* An append of r, whole or cut short.
Appended(r) ==
    \/ audit' = AppendLine(audit, r) /\ cuts' = cuts
    \/ audit' \in CutAppends(audit, r) /\ cuts' = cuts + 1

LEMMA AppendedFile ==
    ASSUME AuditTypes, NEW r \in AuditEntry, Appended(r)
    PROVE  /\ audit' \in AuditFiles /\ cuts' \in Nat
           /\ Kept(audit) \subseteq Kept(audit') /\ Reads(audit') \subseteq Reads(audit) \cup {r}
           /\ Reads(audit') \subseteq AuditEntry
           /\ OpenTail(audit) \in {0, 1} /\ OpenTail(audit') \in {0, 1}
           /\ \/ cuts' = cuts + 1
              \/ cuts' = cuts /\ OpenTail(audit') = 0 /\ (OpenTail(audit) = 0 => r \in Kept(audit'))
<1>1. /\ audit' \in AuditFiles /\ Kept(audit) \subseteq Kept(audit')
      /\ Reads(audit') \subseteq Reads(audit) \cup {r}
  BY AppendKeeps, CutKeeps DEF AuditTypes, Appended
<1>2. Reads(audit') \subseteq AuditEntry BY <1>1 DEF Reads, Kept, AuditFiles
<1>3. CASE audit' = AppendLine(audit, r) /\ cuts' = cuts
  <2>1. OpenTail(audit') = 0 /\ (OpenTail(audit) = 0 => r \in Kept(audit'))
    BY <1>3, AppendKeeps DEF AuditTypes, OpenTail
  <2> QED BY <1>1, <1>2, <1>3, <2>1 DEF AuditTypes, OpenTail
<1>4. CASE cuts' = cuts + 1
  BY <1>1, <1>2, <1>4 DEF AuditTypes, OpenTail
<1> QED BY <1>3, <1>4 DEF Appended

\* The secret scanner's entry is of no call.
LEMMA RedactionKeeps ==
    ASSUME AuditInv, Quietly, Appended(Entry(0, "redacted"))
    PROVE  AuditInv'
<1> DEFINE r == Entry(0, "redacted")
<1>1. r \in AuditEntry /\ r.call = 0 BY DEF Entry, AuditEntry
<1>2. /\ CallsOnce' /\ AllPermitted' /\ calls' \in Nat /\ Acked' \subseteq Acked
      /\ calls \in Nat /\ cuts \in Nat /\ calls =< calls'
  BY ForgettingKeeps DEF AuditInv, AuditTypes, Quietly
<1>3. /\ audit' \in AuditFiles /\ cuts' \in Nat
      /\ Kept(audit) \subseteq Kept(audit') /\ Reads(audit') \subseteq Reads(audit) \cup {r}
      /\ Reads(audit') \subseteq AuditEntry
      /\ OpenTail(audit) \in {0, 1} /\ OpenTail(audit') \in {0, 1}
      /\ \/ cuts' = cuts + 1
         \/ cuts' = cuts /\ OpenTail(audit') = 0
  BY <1>1, AppendedFile DEF AuditInv
<1> HIDE DEF r
<1>4. AuditTypes' BY <1>2, <1>3 DEF AuditTypes
<1>5. EntriesTell'
  <2> SUFFICES ASSUME NEW e \in Reads(audit')
               PROVE  /\ e.call =< calls'
                      /\ e.call \in Acked' => Passes(e.verdict)
                      /\ \A p \in Procs : \A x \in Waits(p)' : x.at = "confirm" => x.call # e.call
    BY DEF EntriesTell
  <2>1. e.call \in Nat BY <1>3 DEF AuditEntry
  <2>2. CASE e \in Reads(audit)
    BY <1>2, <2>1, <2>2 DEF AuditInv, EntriesTell, Quietly
  <2>3. CASE e = r
    BY <1>1, <1>2, <2>3 DEF Acked, CallsOnce
  <2> QED BY <1>3, <2>2, <2>3
<1>6. LossBound'
  <2>1. Unkept' \subseteq Unkept BY <1>2, <1>3 DEF Unkept
  <2>2. /\ Cardinality(Unkept') \in Nat /\ Cardinality(Unkept) \in Nat
        /\ Cardinality(Unkept') =< Cardinality(Unkept)
    BY <1>2, <2>1, UnkeptFinite, FS_Subset, FS_CardinalityType
  <2>3. Cardinality(Unkept) + OpenTail(audit) =< cuts BY DEF AuditInv, LossBound
  <2>4. Cardinality(Unkept') + OpenTail(audit') =< cuts' BY <1>2, <1>3, <2>2, <2>3
  <2> QED BY <2>4 DEF LossBound
<1> QED BY <1>2, <1>4, <1>5, <1>6 DEF AuditInv

\* A verdict on call n, which no entry and no other pending call has: the entry is
\* appended first, and only if all of it was does the call go on.
LEMMA VerdictKeeps ==
    ASSUME AuditInv, NEW p \in Procs, NEW n \in Nat, n > 0, n =< calls', calls' \in {calls, calls + 1},
           ran' = ran, NEW command, NEW verdict,
           verdict \in {"allowed", "blocked", "confirmed", "denied"},
           \A r \in ran : r.call # n,
           \A e \in Reads(audit) : e.call # n,
           \A q \in Procs : q # p =>
               /\ Waits(q)' = Waits(q) /\ s'[q] = s[q]
               /\ \A x \in Waits(q) : x.call # n,
           NEW others, others \subseteq Waits(p), \A x \in others : x.call # n,
           NEW cleared, cleared = [call |-> n, command |-> command, at |-> "cleared"],
           Waits(p)' # {} => s'[p].kind = s[p].kind,
           Passes(verdict) => Permitted(s[p].kind, command),
           Appended(Entry(n, verdict)),
           \/ Waits(p)' = others /\ cuts' = cuts + 1
           \/ Waits(p)' = others \cup (IF Passes(verdict) THEN {cleared} ELSE {})
              /\ audit' = AppendLine(audit, Entry(n, verdict)) /\ cuts' = cuts
    PROVE  AuditInv'
<1> DEFINE r == Entry(n, verdict)
<1>1. /\ r \in AuditEntry /\ r.call = n /\ r.verdict = verdict
      /\ cleared.call = n /\ cleared.command = command /\ cleared.at = "cleared"
  BY DEF Entry, AuditEntry
<1>2. calls \in Nat /\ cuts \in Nat /\ calls' \in Nat /\ calls =< calls' /\ n \in 1..calls'
  BY DEF AuditInv, AuditTypes
<1>3. /\ audit' \in AuditFiles /\ cuts' \in Nat
      /\ Kept(audit) \subseteq Kept(audit') /\ Reads(audit') \subseteq Reads(audit) \cup {r}
      /\ Reads(audit') \subseteq AuditEntry
      /\ OpenTail(audit) \in {0, 1} /\ OpenTail(audit') \in {0, 1}
      /\ \/ cuts' = cuts + 1
         \/ cuts' = cuts /\ OpenTail(audit') = 0 /\ (OpenTail(audit) = 0 => r \in Kept(audit'))
  BY <1>1, AppendedFile DEF AuditInv
<1> HIDE DEF r
<1>4. /\ Waits(p)' \subseteq others \cup {cleared}
      /\ cleared \in Waits(p)' \/ Waits(p)' = others
  OBVIOUS
<1>5. AuditTypes' BY <1>2, <1>3 DEF AuditTypes
<1>6. CallsOnce'
  <2>0. ASSUME NEW x \in Waits(p)', x # cleared
        PROVE  x \in Waits(p) /\ x.call # n
    <3>1. x \in others BY <1>4, <2>0
    <3> QED BY <3>1
  <2>1. ASSUME NEW q \in Procs, NEW x \in Waits(q)'
        PROVE  (x = cleared /\ q = p) \/ (x \in Waits(q) /\ x.call # n)
    BY <2>0, <2>1
  <2>2. \A q \in Procs : \A x \in Waits(q) :
           /\ x.call \in 1..calls'
           /\ \A t \in ran : t.call # x.call
           /\ \A q2 \in Procs : \A y \in Waits(q2) : x.call = y.call => q = q2 /\ x = y
    BY <1>2 DEF AuditInv, CallsOnce
  <2>3. \A t \in ran : t.call \in 1..calls' BY <1>2 DEF AuditInv, CallsOnce
  <2> QED BY <1>1, <1>2, <2>1, <2>2, <2>3 DEF CallsOnce
<1>7. cleared \in Waits(p)' => Passes(verdict) \/ cleared \in others
  OBVIOUS
<1>8. AllPermitted'
  <2>1. \A q \in Procs : q # p => \A x \in Waits(q)' :
           IF x.at = "cleared" THEN Permitted(s'[q].kind, x.command)
           ELSE MayAsk(s'[q].kind, x.command)
    BY DEF AuditInv, AllPermitted
  <2>2. ASSUME NEW x \in Waits(p)'
        PROVE  IF x.at = "cleared" THEN Permitted(s'[p].kind, x.command)
               ELSE MayAsk(s'[p].kind, x.command)
    <3>1. s'[p].kind = s[p].kind BY <2>2
    <3>2. CASE x \in others BY <3>1, <3>2 DEF AuditInv, AllPermitted
    <3>3. CASE x = cleared BY <1>1, <1>7, <2>2, <3>1, <3>2, <3>3
    <3> QED BY <1>4, <3>2, <3>3
  <2>3. \A t \in ran : Permitted(t.kind, t.command) BY DEF AuditInv, AllPermitted
  <2> QED BY <2>1, <2>2, <2>3 DEF AllPermitted, Permitted, MayAsk
<1>9. n \in Acked' => cleared \in Waits(p)' /\ Passes(verdict)
  <2> SUFFICES ASSUME n \in Acked' PROVE cleared \in Waits(p)' /\ Passes(verdict) OBVIOUS
  <2>1. PICK q \in Procs : \E x \in Waits(q)' : x.call = n BY DEF Acked
  <2>2. q = p /\ cleared \in Waits(p)' BY <1>4, <2>1
  <2> QED BY <1>1, <1>7, <2>2
<1>10. Acked' \subseteq Acked \cup {n}
  <2> SUFFICES ASSUME NEW m \in Acked', m # n PROVE m \in Acked OBVIOUS
  <2>1. \/ \E t \in ran : t.call = m
        \/ \E q \in Procs : \E x \in Waits(q)' : x.at = "cleared" /\ x.call = m
    BY DEF Acked
  <2>2. \/ \E t \in ran : t.call = m
        \/ \E q \in Procs : \E x \in Waits(q) : x.at = "cleared" /\ x.call = m
    BY <1>1, <1>4, <2>1
  <2>3. m \in 1..calls BY <2>2 DEF AuditInv, CallsOnce
  <2> QED BY <2>2, <2>3 DEF Acked
<1>11. EntriesTell'
  <2> SUFFICES ASSUME NEW e \in Reads(audit')
               PROVE  /\ e.call =< calls'
                      /\ e.call \in Acked' => Passes(e.verdict)
                      /\ \A q \in Procs : \A x \in Waits(q)' : x.at = "confirm" => x.call # e.call
    BY DEF EntriesTell
  <2>1. e.call \in Nat BY <1>3 DEF AuditEntry
  <2>2. CASE e \in Reads(audit)
    <3>1. e.call # n /\ e.call =< calls /\ (e.call \in Acked => Passes(e.verdict))
      BY <2>2 DEF AuditInv, EntriesTell
    <3>2. \A q \in Procs : \A x \in Waits(q)' : x.at = "confirm" => x.call # e.call
      BY <1>1, <1>4, <2>2 DEF AuditInv, EntriesTell
    <3> QED BY <1>2, <1>10, <2>1, <3>1, <3>2
  <2>3. CASE e = r
    <3>1. \A q \in Procs : \A x \in Waits(q)' : x.at = "confirm" => x.call # n
      BY <1>1, <1>4
    <3> QED BY <1>1, <1>2, <1>9, <2>3, <3>1 DEF r
  <2> QED BY <1>3, <2>2, <2>3
<1>12. LossBound'
  <2>0. Unkept' \subseteq Unkept \cup {n} BY <1>3, <1>10 DEF Unkept
  <2>1. /\ IsFiniteSet(Unkept) /\ Cardinality(Unkept) \in Nat
        /\ IsFiniteSet(Unkept') /\ Cardinality(Unkept') \in Nat
        /\ Cardinality(Unkept') =< Cardinality(Unkept) + 1
    <3>1. IsFiniteSet(Unkept) /\ Cardinality(Unkept) \in Nat BY <1>2, UnkeptFinite
    <3>2. /\ IsFiniteSet(Unkept \cup {n})
          /\ Cardinality(Unkept \cup {n}) =
                IF n \in Unkept THEN Cardinality(Unkept) ELSE Cardinality(Unkept) + 1
      BY <3>1, FS_AddElement, Zenon
    <3>3. IsFiniteSet(Unkept') /\ Cardinality(Unkept') =< Cardinality(Unkept \cup {n})
      BY <2>0, <3>2, FS_Subset
    <3>4. Cardinality(Unkept') \in Nat BY <3>3, FS_CardinalityType
    <3> QED BY <3>1, <3>2, <3>3, <3>4
  <2>2. Cardinality(Unkept) + OpenTail(audit) =< cuts BY DEF AuditInv, LossBound
  <2>3. CASE cuts' = cuts + 1
    <3>1. n \notin Acked' BY <1>4, <1>9, <2>3 
    <3>2. Unkept' \subseteq Unkept BY <1>3, <1>10, <3>1 DEF Unkept
    <3>3. Cardinality(Unkept') =< Cardinality(Unkept) BY <2>1, <3>2, FS_Subset
    <3>4. Cardinality(Unkept') + OpenTail(audit') =< cuts'
      BY <1>2, <1>3, <2>1, <2>2, <2>3, <3>3
    <3> QED BY <3>4 DEF LossBound
  <2>4. CASE cuts' = cuts
    <3>1. OpenTail(audit') = 0 /\ (OpenTail(audit) = 0 => r \in Kept(audit')) BY <1>2, <1>3, <2>4
    <3>2. CASE OpenTail(audit) = 0
      <4>1. n \in Acked' => n \in {e.call : e \in {e \in Kept(audit') : Passes(e.verdict)}}
        BY <1>1, <1>9, <3>1, <3>2 DEF r
      <4>2. Unkept' \subseteq Unkept BY <1>3, <1>10, <4>1 DEF Unkept
      <4>3. Cardinality(Unkept') =< Cardinality(Unkept) BY <2>1, <4>2, FS_Subset
      <4>4. Cardinality(Unkept') + OpenTail(audit') =< cuts'
        BY <1>2, <2>1, <2>2, <2>4, <3>1, <3>2, <4>3
      <4> QED BY <4>4 DEF LossBound
    <3>3. CASE OpenTail(audit) = 1
      <4>4. Cardinality(Unkept') + OpenTail(audit') =< cuts'
        BY <1>2, <2>1, <2>2, <2>4, <3>1, <3>3
      <4> QED BY <4>4 DEF LossBound
    <3> QED BY <1>3, <3>2, <3>3
  <2> QED BY <1>3, <2>3, <2>4
<1> QED BY <1>5, <1>6, <1>8, <1>11, <1>12 DEF AuditInv

-----------------------------------------------------------------------------
(* What ran was cleared: the actions.                                      *)

\* The session keeps its kind and what is pending, or ends.
Carries(c, d) == d = Off \/ (d.kind = c.kind /\ d.pending = c.pending)

LEMMA CarryingIsQuiet ==
    ASSUME IInv, NEW p \in Procs, NEW d, Becomes(p, d), calls' = calls, ran' = ran,
           \/ s[p] # Off /\ Carries(s[p], d)
           \/ d.pending = {}
    PROVE  Quietly
<1>1. /\ s'[p] = d
      /\ Waits(p)' = IF d = Off THEN {} ELSE d.pending
      /\ \A q \in Procs : q # p => s'[q] = s[q] /\ Waits(q)' = Waits(q)
  BY WaitsAfter
<1>2. Waits(p)' \subseteq Waits(p) /\ (Waits(p)' # {} => s'[p].kind = s[p].kind)
  BY <1>1 DEF Carries, Waits
<1>3. \A q \in Procs : /\ Waits(q)' \subseteq Waits(q)
                       /\ Waits(q)' # {} => s'[q].kind = s[q].kind
  <2> SUFFICES ASSUME NEW q \in Procs
               PROVE  /\ Waits(q)' \subseteq Waits(q)
                      /\ Waits(q)' # {} => s'[q].kind = s[q].kind
    OBVIOUS
  <2>1. CASE q = p BY <1>2, <2>1
  <2>2. CASE q # p BY <1>1, <2>2
  <2> QED BY <2>1, <2>2
<1> QED BY <1>3 DEF Quietly

LEMMA ThrownCarries == ASSUME NEW c \in Sessions PROVE Carries(c, Thrown(c))
BY DEF Thrown, Carries, Sessions

LEMMA StartIsQuiet ==
    ASSUME IInv, NEW p \in Procs, Start(p)
    PROVE  Quietly
<1>1. PICK kind \in Kinds :
         Becomes(p, IF kind.shot THEN Prompting(Fresh(kind))
                    ELSE IF kind.graph THEN Indexing(Fresh(kind), "start")
                    ELSE Fresh(kind))
  BY DEF Start
<1>2. /\ Fresh(kind).pending = {}
      /\ Prompting(Fresh(kind)).pending = {}
      /\ Indexing(Fresh(kind), "start").pending = {}
  BY DEF Fresh, Prompting, Indexing
<1>3. calls' = calls /\ ran' = ran BY DEF Start
<1> QED BY <1>1, <1>2, <1>3, CarryingIsQuiet

LEMMA IndexIsQuiet ==
    ASSUME IInv, NEW p \in Procs, Index(p)
    PROVE  Quietly
<1> DEFINE c == s[p]
<1>1. c # Off /\ c \in Sessions
  BY Running, OffIsNoSession DEF Index, Open, InitStore, IndexFiles, Good, Off
<1>2. /\ Carries(c, [c EXCEPT !.store = TRUE, !.pc = "init"])
      /\ Carries(c, [c EXCEPT !.pc = "files"])
      /\ Carries(c, [c EXCEPT !.indexed = TRUE,
                              !.pc = IF c.caller = "prompt" THEN "pin" ELSE "ready"])
      /\ Carries(c, Thrown(c))
  BY <1>1, ThrownCarries DEF Carries, Sessions
<1>3. calls' = calls /\ ran' = ran BY DEF Index, Open, InitStore, IndexFiles
<1>4. \/ Becomes(p, [c EXCEPT !.store = TRUE, !.pc = "init"])
      \/ Becomes(p, [c EXCEPT !.pc = "files"])
      \/ Becomes(p, [c EXCEPT !.indexed = TRUE,
                              !.pc = IF c.caller = "prompt" THEN "pin" ELSE "ready"])
      \/ Becomes(p, Thrown(c))
  BY DEF Index, Open, InitStore, IndexFiles
<1> QED BY <1>1, <1>2, <1>3, <1>4, CarryingIsQuiet

LEMMA LineIsQuiet ==
    ASSUME IInv, NEW p \in Procs, Line(p)
    PROVE  Quietly
<1> DEFINE c == s[p]
           typedLine == [c EXCEPT !.lines = @ + 1]
           cleared == [clear(c) EXCEPT !.lines = @ + 1, !.asked = {}]
<1>1. c.pc = "ready" BY DEF Line, Prompt, Reindex, Query, Clear, Exit, Typed
<1>2. c # Off /\ c \in Sessions BY <1>1, Running, OffIsNoSession DEF Good, Off
<1>3. /\ Carries(c, Prompting(c))
      /\ Carries(c, Indexing(typedLine, "command"))
      /\ Carries(c, cleared)
      /\ Carries(c, Off)
  BY <1>2 DEF Carries, Prompting, Indexing, clear, Sessions
<1>4. calls' = calls /\ ran' = ran
  BY DEF Line, Prompt, Reindex, Query, Clear, Exit, Typed, bounds
<1>5. \/ Becomes(p, Prompting(c)) \/ Becomes(p, Indexing(typedLine, "command"))
      \/ Becomes(p, cleared) \/ Becomes(p, Off)
  BY DEF Line, Prompt, Reindex, Query, Clear, Exit
<1> QED BY <1>2, <1>3, <1>4, <1>5, CarryingIsQuiet

LEMMA EnsureIsQuiet ==
    ASSUME IInv, NEW p \in Procs, Ensure(p)
    PROVE  Quietly
<1> DEFINE c == s[p]
           pin == [c EXCEPT !.pc = "build",
                            !.pinned = IF c.pinned = NoPin
                                       THEN [prompt |-> c.lines, map |-> c.store] ELSE @]
           agent == [c EXCEPT !.pc = "turn", !.agent = [graph |-> c.store, pin |-> c.pinned]]
<1>1. c # Off /\ c \in Sessions
  BY Running, OffIsNoSession DEF Ensure, EnsureAgent, Pin, Build, Good, Off
<1>2. /\ Carries(c, [c EXCEPT !.pc = "turn"])
      /\ Carries(c, Indexing(c, "prompt"))
      /\ Carries(c, [c EXCEPT !.pc = "pin"])
      /\ Carries(c, pin) /\ Carries(c, agent) /\ Carries(c, Thrown(c))
  BY <1>1, ThrownCarries DEF Carries, Indexing, Sessions
<1>3. calls' = calls /\ ran' = ran BY DEF Ensure, EnsureAgent, Pin, Build, bounds
<1>4. \/ Becomes(p, [c EXCEPT !.pc = "turn"]) \/ Becomes(p, Indexing(c, "prompt"))
      \/ Becomes(p, [c EXCEPT !.pc = "pin"]) \/ Becomes(p, pin) \/ Becomes(p, agent)
      \/ Becomes(p, Thrown(c))
  BY DEF Ensure, EnsureAgent, Pin, Build
<1> QED BY <1>1, <1>2, <1>3, <1>4, CarryingIsQuiet

LEMMA LeavingIsQuiet ==
    ASSUME IInv, NEW p \in Procs, Kill(p) \/ EndTurn(p)
    PROVE  Quietly
<1> DEFINE c == s[p]
<1>1. c # Off /\ c \in Sessions
  BY Running, OffIsNoSession DEF Kill, EndTurn, Good, Off
<1>2. Carries(c, [c EXCEPT !.pc = "ready"]) /\ Carries(c, Off) /\ Carries(c, Thrown(c))
  BY <1>1, ThrownCarries DEF Carries, Sessions
<1>3. calls' = calls /\ ran' = ran BY DEF Kill, EndTurn
<1>4. Becomes(p, Off) \/ Becomes(p, [c EXCEPT !.pc = "ready"]) \/ Becomes(p, Thrown(c))
  BY DEF Kill, EndTurn
<1> QED BY <1>1, <1>2, <1>3, <1>4, CarryingIsQuiet

LEMMA RedactKeeps ==
    ASSUME IInv, AuditInv, NEW p \in Procs, Redact(p)
    PROVE  AuditInv'
<1> DEFINE c == s[p]
<1>1. c # Off /\ c \in Sessions BY Running, OffIsNoSession DEF Redact, Good, Off
<1>2. calls' = calls /\ ran' = ran BY DEF Redact
<1>3. Quietly
  <2>1. CASE s' = s BY <1>2, <2>1 DEF Quietly, Waits
  <2>2. CASE Becomes(p, Thrown(c)) BY <1>1, <1>2, <2>2, ThrownCarries, CarryingIsQuiet
  <2> QED BY <2>1, <2>2 DEF Redact
<1>4. Appended(Entry(0, "redacted")) BY DEF Redact, Appended
<1> QED BY <1>3, <1>4, RedactionKeeps

\* The session of a turn, and what becomes of it when only the pending calls change.
LEMMA PendingAfter ==
    ASSUME IInv, NEW p \in Procs, s[p].pc = "turn", NEW w \in SUBSET Waiting,
           Becomes(p, [s[p] EXCEPT !.pending = w])
    PROVE  /\ Waits(p) = s[p].pending /\ Waits(p)' = w /\ s'[p].kind = s[p].kind
           /\ \A q \in Procs : q # p => s'[q] = s[q] /\ Waits(q)' = Waits(q)
<1> DEFINE d == [s[p] EXCEPT !.pending = w]
<1>1. Good(s[p]) /\ s[p] \in Sessions /\ s[p] # Off
  BY Running, OffIsNoSession DEF Good
<1>2. Good(d) BY <1>1, CallingIsGood
<1>3. d # Off /\ d.pending = w /\ d.kind = s[p].kind
  BY <1>1, <1>2, OffIsNoSession DEF Good, Sessions
<1> HIDE DEF d
<1>4. /\ s'[p] = d
      /\ Waits(p)' = IF d = Off THEN {} ELSE d.pending
      /\ \A q \in Procs : q # p => s'[q] = s[q] /\ Waits(q)' = Waits(q)
  BY WaitsAfter DEF d
<1> QED BY <1>1, <1>3, <1>4 DEF Waits

\* A call the user is asked about has no entry yet.
LEMMA AskingKeeps ==
    ASSUME AuditInv, NEW p \in Procs, calls' = calls + 1, UNCHANGED <<audit, cuts, ran>>,
           NEW x, x.call = calls + 1, x.at = "confirm", MayAsk(s[p].kind, x.command),
           Waits(p)' = Waits(p) \cup {x}, s'[p].kind = s[p].kind,
           \A q \in Procs : q # p => s'[q] = s[q] /\ Waits(q)' = Waits(q)
    PROVE  AuditInv'
<1>1. calls \in Nat /\ cuts \in Nat BY DEF AuditInv, AuditTypes
<1>2. AuditTypes' BY <1>1 DEF AuditInv, AuditTypes
<1>3. ASSUME NEW q \in Procs, NEW y \in Waits(q)'
      PROVE  (y = x /\ q = p) \/ y \in Waits(q)
  <2>1. \A z \in Waits(p)' : z = x \/ z \in Waits(p) OBVIOUS
  <2> QED BY <1>3, <2>1
<1>4. /\ \A r \in ran : r.call \in 1..calls
      /\ \A q \in Procs : \A y \in Waits(q) :
            /\ y.call \in 1..calls
            /\ \A r \in ran : r.call # y.call
            /\ \A q2 \in Procs : \A z \in Waits(q2) : y.call = z.call => q = q2 /\ y = z
  BY DEF AuditInv, CallsOnce
<1>5. CallsOnce'
  <2>1. \A q \in Procs : \A y \in Waits(q)' :
           /\ y.call \in 1..(calls + 1)
           /\ \A r \in ran : r.call # y.call
    BY <1>1, <1>3, <1>4
  <2>2. \A q, q2 \in Procs : \A y \in Waits(q)', z \in Waits(q2)' :
           y.call = z.call => q = q2 /\ y = z
    <3> SUFFICES ASSUME NEW q \in Procs, NEW q2 \in Procs, NEW y \in Waits(q)', NEW z \in Waits(q2)',
                        y.call = z.call
                 PROVE  q = q2 /\ y = z
      OBVIOUS
    <3>1. (y = x /\ q = p) \/ y \in Waits(q) BY <1>3
    <3>2. (z = x /\ q2 = p) \/ z \in Waits(q2) BY <1>3
    <3>3. y \in Waits(q) => y.call # x.call BY <1>1, <1>4
    <3>4. z \in Waits(q2) => z.call # x.call BY <1>1, <1>4
    <3> QED BY <1>4, <3>1, <3>2, <3>3, <3>4
  <2>3. \A r \in ran : r.call \in 1..(calls + 1) BY <1>1, <1>4
  <2> QED BY <2>1, <2>2, <2>3 DEF CallsOnce
<1>6. AllPermitted'
  <2>1. ASSUME NEW q \in Procs, NEW y \in Waits(q)'
        PROVE  IF y.at = "cleared" THEN Permitted(s'[q].kind, y.command)
               ELSE MayAsk(s'[q].kind, y.command)
    <3>1. s'[q].kind = s[q].kind OBVIOUS
    <3>2. CASE y = x /\ q = p BY <3>1, <3>2
    <3>3. CASE y \in Waits(q) BY <3>1, <3>3 DEF AuditInv, AllPermitted
    <3> QED BY <1>3, <2>1, <3>2, <3>3
  <2>2. \A r \in ran : Permitted(r.kind, r.command) BY DEF AuditInv, AllPermitted
  <2> QED BY <2>1, <2>2 DEF AllPermitted, Permitted, MayAsk
<1>7. Acked' \subseteq Acked
  <2> SUFFICES ASSUME NEW n \in Acked' PROVE n \in Acked OBVIOUS
  <2>1. \/ \E r \in ran : r.call = n
        \/ \E q \in Procs : \E y \in Waits(q) : y.at = "cleared" /\ y.call = n
    BY <1>3 DEF Acked
  <2>2. n \in 1..calls BY <1>4, <2>1
  <2> QED BY <2>1, <2>2 DEF Acked
<1>8. EntriesTell'
  <2> SUFFICES ASSUME NEW e \in Reads(audit)
               PROVE  /\ e.call =< calls + 1
                      /\ e.call \in Acked' => Passes(e.verdict)
                      /\ \A q \in Procs : \A y \in Waits(q)' : y.at = "confirm" => y.call # e.call
    BY DEF EntriesTell
  <2>1. e \in AuditEntry BY DEF AuditInv, AuditTypes, AuditFiles, Reads, Kept
  <2>2. e.call \in Nat /\ e.call =< calls BY <2>1 DEF AuditEntry, AuditInv, EntriesTell
  <2>3. \A q \in Procs : \A y \in Waits(q) : y.at = "confirm" => y.call # e.call
    BY DEF AuditInv, EntriesTell
  <2>4. e.call \in Acked => Passes(e.verdict) BY DEF AuditInv, EntriesTell
  <2> QED BY <1>1, <1>3, <1>7, <2>2, <2>3, <2>4
<1>9. LossBound'
  <2>1. Unkept' \subseteq Unkept BY <1>7 DEF Unkept
  <2>2. /\ Cardinality(Unkept') \in Nat /\ Cardinality(Unkept) \in Nat
        /\ Cardinality(Unkept') =< Cardinality(Unkept)
    BY <1>1, <2>1, UnkeptFinite, FS_Subset, FS_CardinalityType
  <2> QED BY <1>1, <2>2 DEF AuditInv, LossBound, OpenTail
<1> QED BY <1>2, <1>5, <1>6, <1>8, <1>9 DEF AuditInv

\* A cleared call runs: it is let through as before.
LEMMA RunKeeps ==
    ASSUME IInv, AuditInv, NEW p \in Procs, Run(p)
    PROVE  AuditInv'
<1> DEFINE c == s[p]
<1>1. c.pc = "turn" /\ c.pending \in SUBSET Waiting
  BY Running DEF Run, Good, Sessions
<1>2. PICK x \in c.pending :
         /\ x.at = "cleared"
         /\ Becomes(p, [c EXCEPT !.pending = @ \ {x}])
         /\ ran' = ran \cup {[call |-> x.call, command |-> x.command, kind |-> c.kind]}
  BY DEF Run
<1>3. c.pending \ {x} \in SUBSET Waiting BY <1>1
<1>4. /\ Waits(p) = c.pending /\ Waits(p)' = c.pending \ {x} /\ s'[p].kind = c.kind
      /\ \A q \in Procs : q # p => s'[q] = s[q] /\ Waits(q)' = Waits(q)
  BY <1>1, <1>2, <1>3, PendingAfter
<1>5. calls' = calls /\ audit' = audit /\ cuts' = cuts BY DEF Run, bounds
<1>7. \A q \in Procs : Waits(q)' \subseteq Waits(q) BY <1>4
<1>8. x \in Waits(p) /\ x \notin Waits(p)' BY <1>4
<1>9. \A r \in ran' : r \in ran \/ (r.call = x.call /\ r.command = x.command /\ r.kind = c.kind)
  BY <1>2
<1> HIDE DEF c
<1>10. /\ \A r \in ran : r.call \in 1..calls
       /\ \A q \in Procs : \A y \in Waits(q) :
             /\ y.call \in 1..calls
             /\ \A r \in ran : r.call # y.call
             /\ \A q2 \in Procs : \A z \in Waits(q2) : y.call = z.call => q = q2 /\ y = z
  BY DEF AuditInv, CallsOnce
<1>11. CallsOnce'
  <2>1. \A r \in ran' : r.call \in 1..calls BY <1>8, <1>9, <1>10
  <2>2. ASSUME NEW q \in Procs, NEW y \in Waits(q)', NEW r \in ran' PROVE r.call # y.call
    <3>1. y \in Waits(q) BY <1>7, <2>2
    <3>2. CASE r \in ran BY <1>10, <3>1, <3>2
    <3>3. CASE r.call = x.call
      <4>1. y.call = x.call => q = p /\ y = x BY <1>8, <1>10, <3>1
      <4>2. ~(q = p /\ y = x) BY <1>8, <2>2
      <4> QED BY <3>3, <4>1, <4>2
    <3> QED BY <1>9, <3>2, <3>3
  <2>3. \A q \in Procs : \A y \in Waits(q)' :
           /\ y.call \in 1..calls
           /\ \A q2 \in Procs : \A z \in Waits(q2)' : y.call = z.call => q = q2 /\ y = z
    BY <1>7, <1>10
  <2> QED BY <1>5, <2>1, <2>2, <2>3 DEF CallsOnce
<1>12. AllPermitted'
  <2>1. \A r \in ran' : Permitted(r.kind, r.command)
    <3>1. Permitted(c.kind, x.command) BY <1>2, <1>8 DEF AuditInv, AllPermitted, c
    <3> QED BY <1>9, <3>1 DEF AuditInv, AllPermitted
  <2>2. \A q \in Procs : \A y \in Waits(q)' :
           IF y.at = "cleared" THEN Permitted(s'[q].kind, y.command)
           ELSE MayAsk(s'[q].kind, y.command)
    <3>1. \A q \in Procs : s'[q].kind = s[q].kind BY <1>4 DEF c
    <3> QED BY <1>7, <3>1 DEF AuditInv, AllPermitted
  <2> QED BY <2>1, <2>2 DEF AllPermitted, Permitted, MayAsk
<1>13. Acked' \subseteq Acked
  <2> SUFFICES ASSUME NEW n \in Acked' PROVE n \in Acked OBVIOUS
  <2>1. \/ \E r \in ran' : r.call = n
        \/ \E q \in Procs : \E y \in Waits(q)' : y.at = "cleared" /\ y.call = n
    BY DEF Acked
  <2>2. \/ \E r \in ran : r.call = n
        \/ \E q \in Procs : \E y \in Waits(q) : y.at = "cleared" /\ y.call = n
    BY <1>2, <1>7, <1>8, <1>9, <2>1
  <2>3. n \in 1..calls BY <1>10, <2>2
  <2> QED BY <2>2, <2>3 DEF Acked
<1>14. EntriesTell'
  BY <1>5, <1>7, <1>13 DEF AuditInv, EntriesTell
<1>15. LossBound'
  <2>0. calls \in Nat /\ cuts \in Nat BY DEF AuditInv, AuditTypes
  <2>1. Unkept' \subseteq Unkept BY <1>5, <1>13 DEF Unkept
  <2>2. /\ Cardinality(Unkept') \in Nat /\ Cardinality(Unkept) \in Nat
        /\ Cardinality(Unkept') =< Cardinality(Unkept)
    BY <2>0, <2>1, UnkeptFinite, FS_Subset, FS_CardinalityType
  <2> QED BY <1>5, <2>0, <2>2 DEF AuditInv, LossBound, OpenTail
<1>16. AuditTypes' BY <1>5 DEF AuditInv, AuditTypes
<1> QED BY <1>11, <1>12, <1>14, <1>15, <1>16 DEF AuditInv

\* The guard's answer alone: on the allow list or in yolo mode a call passes, in
\* confirm mode the user is asked, and a denied command gets neither.
LEMMA DecideTells ==
    ASSUME NEW kind, NEW command \in Commands
    PROVE  LET v == decide(kind, command) IN
           /\ v \in {"allowed", "blocked", "ask"}
           /\ v = "allowed" => Permitted(kind, command)
           /\ v = "ask" => MayAsk(kind, command)
BY ListsAssumption DEF decide, Permitted, MayAsk

LEMMA BashCallKeeps ==
    ASSUME IInv, AuditInv, NEW p \in Procs, NEW command \in Commands \cup {NoCommand},
           BashCall(p, command)
    PROVE  AuditInv'
<1> DEFINE c == s[p]
           verdict == decide(c.kind, command)
           n == calls + 1
           asking == [call |-> n, command |-> command, at |-> "confirm"]
           cleared == [call |-> n, command |-> command, at |-> "cleared"]
<1>1. /\ c.pc = "turn" /\ calls' = n /\ ran' = ran
      /\ calls \in Nat /\ cuts \in Nat /\ n \in Nat /\ n > 0 /\ n > calls
  BY DEF BashCall, AuditInv, AuditTypes
<1>2. c.pending \in SUBSET Waiting /\ c \in Sessions /\ Waits(p) = c.pending
  BY <1>1, Running, OffIsNoSession DEF Good, Sessions, Waits
<1>3. CASE verdict = "unnamed"
  <2>1. s' = s /\ audit' = audit /\ cuts' = cuts BY <1>3 DEF BashCall
  <2>2. Quietly BY <1>1, <2>1 DEF Quietly, Waits
  <2> QED BY <2>1, <2>2, QuietKeeps
<1>4. ASSUME verdict # "unnamed"
      PROVE  /\ command \in Commands /\ verdict \in {"allowed", "blocked", "ask"}
             /\ verdict = "allowed" => Permitted(c.kind, command)
             /\ verdict = "ask" => MayAsk(c.kind, command)
  <2>1. command \in Commands BY <1>4 DEF decide
  <2> QED BY <2>1, DecideTells
<1>5. CASE verdict = "ask"
  <2>1. /\ Becomes(p, [c EXCEPT !.pending = c.pending \cup {asking}])
        /\ audit' = audit /\ cuts' = cuts
    BY <1>5 DEF BashCall
  <2>2. command \in Commands /\ MayAsk(c.kind, command) BY <1>4, <1>5
  <2>3. c.pending \cup {asking} \in SUBSET Waiting BY <1>1, <1>2, <2>2 DEF Waiting
  <2>4. /\ Waits(p)' = c.pending \cup {asking} /\ s'[p].kind = c.kind
        /\ \A q \in Procs : q # p => s'[q] = s[q] /\ Waits(q)' = Waits(q)
    BY <1>1, <2>1, <2>3, PendingAfter
  <2>5. asking.call = calls + 1 /\ asking.at = "confirm" /\ asking.command = command OBVIOUS
  <2> HIDE DEF c, asking, n, verdict
  <2>6. MayAsk(s[p].kind, asking.command) BY <2>2, <2>5 DEF c
  <2>7. /\ Waits(p)' = Waits(p) \cup {asking} /\ s'[p].kind = s[p].kind /\ calls' = calls + 1
        /\ UNCHANGED <<audit, cuts, ran>>
    BY <1>1, <1>2, <2>1, <2>4 DEF c, n
  <2> QED BY <2>4, <2>5, <2>6, <2>7, AskingKeeps
<1>6. CASE verdict # "unnamed" /\ verdict # "ask"
  <2>1. Audited(p, n, command, verdict, c.pending) BY <1>6 DEF BashCall
  <2>2. /\ command \in Commands /\ verdict \in {"allowed", "blocked"}
        /\ Passes(verdict) => Permitted(c.kind, command)
    BY <1>4, <1>6 DEF Passes
  <2> HIDE DEF verdict
  <2> DEFINE more == c.pending \cup (IF Passes(verdict) THEN {cleared} ELSE {})
  <2>3. more \in SUBSET Waiting /\ c.pending \in SUBSET Waiting BY <1>1, <1>2, <2>2 DEF Waiting
  <2>4. \/ /\ audit' = AppendLine(audit, Entry(n, verdict)) /\ cuts' = cuts
           /\ Becomes(p, [c EXCEPT !.pending = more])
        \/ /\ audit' \in CutAppends(audit, Entry(n, verdict)) /\ cuts' = cuts + 1
           /\ Becomes(p, [c EXCEPT !.pending = c.pending])
    BY <2>1 DEF Audited
  <2> HIDE DEF c, more, n, cleared
  <2>5. ASSUME NEW w \in SUBSET Waiting, Becomes(p, [c EXCEPT !.pending = w])
        PROVE  /\ Waits(p)' = w /\ s'[p].kind = c.kind
               /\ \A q \in Procs : q # p => s'[q] = s[q] /\ Waits(q)' = Waits(q)
    BY <1>1, <2>5, PendingAfter DEF c
  <2>6. /\ s'[p].kind = c.kind
        /\ \A q \in Procs : q # p => s'[q] = s[q] /\ Waits(q)' = Waits(q)
    BY <2>3, <2>4, <2>5
  <2>7. /\ Appended(Entry(n, verdict))
        /\ \/ Waits(p)' = c.pending /\ cuts' = cuts + 1
           \/ /\ Waits(p)' = c.pending \cup (IF Passes(verdict) THEN {cleared} ELSE {})
              /\ audit' = AppendLine(audit, Entry(n, verdict)) /\ cuts' = cuts
    BY <2>3, <2>4, <2>5 DEF Appended, more
  <2>8. /\ \A r \in ran : r.call # n
        /\ \A q \in Procs : \A x \in Waits(q) : x.call # n
    BY <1>1 DEF AuditInv, CallsOnce
  <2>9. \A e \in Reads(audit) : e.call # n
    <3> SUFFICES ASSUME NEW e \in Reads(audit) PROVE e.call # n OBVIOUS
    <3>1. e \in AuditEntry BY DEF AuditInv, AuditTypes, AuditFiles, Reads, Kept
    <3>2. e.call \in Nat /\ e.call =< calls BY <3>1 DEF AuditEntry, AuditInv, EntriesTell
    <3> QED BY <1>1, <3>2
  <2>10. calls' \in {calls, calls + 1} /\ n =< calls' BY <1>1 DEF n
  <2>11. verdict \in {"allowed", "blocked", "confirmed", "denied"} BY <2>2
  <2>12. cleared = [call |-> n, command |-> command, at |-> "cleared"] BY DEF cleared
  <2>13. /\ c.pending \subseteq Waits(p) /\ \A x \in c.pending : x.call # n
         /\ Waits(p)' # {} => s'[p].kind = s[p].kind
         /\ Passes(verdict) => Permitted(s[p].kind, command)
    BY <1>2, <2>2, <2>6, <2>8 DEF c
  <2>14. \A q \in Procs : q # p =>
            /\ Waits(q)' = Waits(q) /\ s'[q] = s[q]
            /\ \A x \in Waits(q) : x.call # n
    BY <2>6, <2>8
  <2> QED BY <1>1, <2>7, <2>8, <2>9, <2>10, <2>11, <2>12, <2>13, <2>14, VerdictKeeps
<1> QED BY <1>3, <1>5, <1>6

\* The answer comes after any number of steps of the others, and the call it is
\* about still has no entry.
LEMMA AnswerKeeps ==
    ASSUME IInv, AuditInv, NEW p \in Procs, Answer(p)
    PROVE  AuditInv'
<1> DEFINE c == s[p]
<1>1. c.pc = "turn" /\ calls' = calls /\ ran' = ran /\ calls \in Nat /\ cuts \in Nat
  BY DEF Answer, AuditInv, AuditTypes
<1>2. c.pending \in SUBSET Waiting /\ Waits(p) = c.pending
  BY <1>1, Running, OffIsNoSession DEF Good, Sessions, Waits
<1>3. PICK x \in c.pending, yes \in {c.kind.tty, FALSE} :
         /\ x.at = "confirm"
         /\ Audited(p, x.call, x.command, IF yes THEN "confirmed" ELSE "denied", c.pending \ {x})
  BY DEF Answer
<1> DEFINE n == x.call
           command == x.command
           verdict == IF yes THEN "confirmed" ELSE "denied"
           others == c.pending \ {x}
           cleared == [call |-> n, command |-> command, at |-> "cleared"]
           more == others \cup (IF Passes(verdict) THEN {cleared} ELSE {})
<1>4. /\ n \in Nat /\ command \in Commands /\ verdict \in {"allowed", "blocked", "confirmed", "denied"}
      /\ Passes(verdict) => c.kind.tty
  BY <1>2 DEF Waiting, Passes
<1>5. more \in SUBSET Waiting /\ others \in SUBSET Waiting BY <1>2, <1>4 DEF Waiting
<1>6. \/ /\ audit' = AppendLine(audit, Entry(n, verdict)) /\ cuts' = cuts
         /\ Becomes(p, [c EXCEPT !.pending = more])
      \/ /\ audit' \in CutAppends(audit, Entry(n, verdict)) /\ cuts' = cuts + 1
         /\ Becomes(p, [c EXCEPT !.pending = others])
  BY <1>3 DEF Audited
<1>7. MayAsk(c.kind, command) BY <1>2, <1>3 DEF AuditInv, AllPermitted
<1>8. Passes(verdict) => Permitted(c.kind, command) BY <1>4, <1>7 DEF MayAsk, Permitted
<1>9. n \in 1..calls /\ \A r \in ran : r.call # n
  BY <1>2 DEF AuditInv, CallsOnce
<1>10. \A q \in Procs : \A y \in Waits(q) : y.call = n => q = p /\ y = x
  BY <1>2 DEF AuditInv, CallsOnce
<1>11. \A e \in Reads(audit) : e.call # n
  BY <1>2, <1>3 DEF AuditInv, EntriesTell
<1>12. others \subseteq Waits(p) /\ \A y \in others : y.call # n BY <1>2, <1>10
<1> HIDE DEF c, n, command, verdict, others, cleared, more
<1>13. ASSUME NEW w \in SUBSET Waiting, Becomes(p, [c EXCEPT !.pending = w])
       PROVE  /\ Waits(p)' = w /\ s'[p].kind = c.kind
              /\ \A q \in Procs : q # p => s'[q] = s[q] /\ Waits(q)' = Waits(q)
  BY <1>1, <1>13, PendingAfter DEF c
<1>14. /\ s'[p].kind = c.kind
       /\ \A q \in Procs : q # p => s'[q] = s[q] /\ Waits(q)' = Waits(q)
  BY <1>5, <1>6, <1>13
<1>15. /\ Appended(Entry(n, verdict))
       /\ \/ Waits(p)' = others /\ cuts' = cuts + 1
          \/ /\ Waits(p)' = others \cup (IF Passes(verdict) THEN {cleared} ELSE {})
             /\ audit' = AppendLine(audit, Entry(n, verdict)) /\ cuts' = cuts
  BY <1>5, <1>6, <1>13 DEF Appended, more
<1>16. n > 0 /\ n =< calls' /\ calls' \in {calls, calls + 1} BY <1>1, <1>4, <1>9
<1>17. cleared = [call |-> n, command |-> command, at |-> "cleared"] BY DEF cleared
<1>18. /\ Waits(p)' # {} => s'[p].kind = s[p].kind
       /\ Passes(verdict) => Permitted(s[p].kind, command)
  BY <1>8, <1>14 DEF c
<1>19. \A q \in Procs : q # p =>
          /\ Waits(q)' = Waits(q) /\ s'[q] = s[q]
          /\ \A y \in Waits(q) : y.call # n
  BY <1>10, <1>14
<1> QED BY <1>1, <1>4, <1>9, <1>11, <1>12, <1>15, <1>16, <1>17, <1>18, <1>19, VerdictKeeps, SMTT(30)

LEMMA AuditNext == IInv /\ CallsOK /\ AuditInv /\ [Next]_vars => AuditInv'
<1> SUFFICES ASSUME IInv, AuditInv, [Next]_vars PROVE AuditInv' OBVIOUS
<1>1. ASSUME UNCHANGED vars PROVE AuditInv'
  <2>1. s' = s /\ audit' = audit /\ cuts' = cuts /\ ran' = ran /\ calls' = calls
    BY <1>1 DEF vars, bounds
  <2>2. Quietly BY <2>1 DEF Quietly, Waits
  <2> QED BY <2>1, <2>2, QuietKeeps
<1>2. ASSUME NEW p \in Procs,
             Start(p) \/ Index(p) \/ Line(p) \/ Ensure(p) \/ Kill(p) \/ EndTurn(p)
      PROVE  AuditInv'
  <2>1. Quietly
    BY <1>2, StartIsQuiet, IndexIsQuiet, LineIsQuiet, EnsureIsQuiet, LeavingIsQuiet
  <2>2. UNCHANGED <<audit, cuts>>
    BY <1>2 DEF Start, Index, Open, InitStore, IndexFiles, Line, Prompt, Reindex, Query, Clear,
           Exit, Typed, Ensure, EnsureAgent, Pin, Build, Kill, EndTurn
  <2> QED BY <2>1, <2>2, QuietKeeps
<1>3. ASSUME NEW p \in Procs, Turn(p) PROVE AuditInv'
  BY <1>2, <1>3, BashCallKeeps, AnswerKeeps, RunKeeps, RedactKeeps DEF Turn
<1> QED BY <1>1, <1>2, <1>3 DEF Next

LEMMA AuditInit == Init => AuditInv
<1> SUFFICES ASSUME Init PROVE AuditInv OBVIOUS
<1>1. /\ calls = 0 /\ cuts = 0 /\ ran = {} /\ audit = EmptyFile
      /\ \A p \in Procs : Waits(p) = {}
  BY DEF Init, Waits
<1>2. audit \in AuditFiles /\ Kept(audit) = {} /\ Reads(audit) = {} /\ OpenTail(audit) = 0
  BY <1>1 DEF EmptyFile, AuditFiles, Kept, Reads, OpenTail
<1>3. Acked = {} BY <1>1 DEF Acked
<1>4. Unkept = {} BY <1>3 DEF Unkept
<1>5. Cardinality(Unkept) = 0 BY <1>4, FS_EmptySet
<1>6. AuditTypes /\ CallsOnce /\ AllPermitted BY <1>1, <1>2 DEF AuditTypes, CallsOnce, AllPermitted
<1>7. EntriesTell /\ LossBound BY <1>1, <1>2, <1>5 DEF EntriesTell, LossBound
<1> QED BY <1>6, <1>7 DEF AuditInv

\* permissions.ts:80-136: whatever is called side by side, asked, answered, killed or
\* cut short, no denied command runs, nothing runs unpermitted, what the audit
\* refuses never ran, and at most one entry per append cut short is missing of
\* what ran.
THEOREM WhatRunsIsCleared == Spec => []WhatRanWasCleared
<1>1. Init => IInv /\ CallsOK /\ AuditInv BY AuditInit DEF Init, IInv, CallsOK
<1>2. IInv /\ CallsOK /\ AuditInv /\ [Next]_vars => (IInv /\ CallsOK /\ AuditInv)'
  BY Inductive, AuditNext
<1> QED BY <1>1, <1>2, AuditTells, PTL DEF Spec
=============================================================================
