---------------------------- MODULE Conversation ----------------------------
(***************************************************************************)
(* The processes of one directory (packages/cli/src/bin/nodrel.ts): each   *)
(* starts a Session (packages/cli/src/session.ts) that opens and indexes   *)
(* the graph, builds its agent at the first prompt of a conversation, and  *)
(* lets the agent's bash calls through the permission guard                *)
(* (packages/core/src/permissions.ts, compose.ts).  They share the audit   *)
(* file, and the graph's database, of which only that a call may throw     *)
(* matters here.                                                           *)
(* What a turn does to the journal and to the telemetry is SessionTurns,   *)
(* what indexing does to the graph is GraphIndex.                          *)
(***************************************************************************)
EXTENDS LineFile, Integers, FiniteSetsExt

CONSTANTS
    Procs,
    Kinds,           \* ways to start; model is whether the catalogue has it
    Commands,        \* bash commands the agent may call
    AllowList, DenyList,
    NoCommand,       \* a bash call without a command
    MaxStarts,       \* bound: processes started
    MaxLines,        \* bound: lines typed
    MaxCalls,        \* bound: bash calls
    MaxRedactions,   \* bound: requests with something to redact
    MaxFaults        \* bound: calls that throw, and kills

ASSUME KindsAssumption ==
    Kinds \subseteq [shot : BOOLEAN, graph : BOOLEAN, model : BOOLEAN, tty : BOOLEAN,
                     permissions : {"allowlist", "confirm", "yolo"}]
ASSUME ListsAssumption == AllowList \cup DenyList \subseteq Commands /\ NoCommand \notin Commands

\* An entry's time stamp tells the calls apart; 0 is a redaction's.
AuditEntry ==
    [call : Nat, verdict : {"allowed", "blocked", "confirmed", "denied", "redacted"}]

ASSUME LinesDiffer ==
    Garbled \notin AuditEntry /\ NoTail \notin AuditEntry /\ Garbled # NoTail

VARIABLES
    s,               \* the session of each process
    audit,           \* .agent/audit.jsonl
    starts, typed, calls, redactions, faults

\* history: the bash calls that ran, and how often an append to the audit was cut.
VARIABLES ran, cuts

bounds == <<starts, typed, calls, redactions, faults>>
vars == <<s, audit, bounds, ran, cuts>>

NoPin == [prompt |-> 0, map |-> FALSE]
NoAgent == [graph |-> FALSE, pin |-> NoPin]

\* A new Session.  From indexed on it is history: whether an index of this session
\* finished, and the prompts since /clear, those aside that threw before the
\* context was pinned.
Fresh(kind) ==
    [kind |-> kind, pc |-> "ready", caller |-> "start", store |-> FALSE, agent |-> NoAgent,
     pinned |-> NoPin, pending |-> {}, lines |-> 0,
     indexed |-> FALSE, asked |-> {}]

Off == [pc |-> "off"]

Init ==
    /\ s = [p \in Procs |-> Off]
    /\ audit = EmptyFile
    /\ starts = 0 /\ typed = 0 /\ calls = 0 /\ redactions = 0 /\ faults = 0
    /\ ran = {} /\ cuts = 0

Becomes(p, c) == s' = [s EXCEPT ![p] = c]

Fault == faults < MaxFaults /\ faults' = faults + 1

\* Mutant: the REPL catches what its first index throws, too.
ThrownCatchesStart(c) ==
    IF ~c.kind.shot
    THEN [c EXCEPT !.pc = "ready",
                   !.asked = IF c.pinned = NoPin THEN @ \ {c.lines} ELSE @]
    ELSE Off

\* The REPL catches what a prompt throws; anything else ends the process, code 1.
Thrown(c) ==
    IF c.caller = "prompt" /\ ~c.kind.shot
    THEN [c EXCEPT !.pc = "ready",
                   !.asked = IF c.pinned = NoPin THEN @ \ {c.lines} ELSE @]
    ELSE Off

-----------------------------------------------------------------------------
(* main and index.                                                         *)

\* index() opens the store only if there is none.
Indexing(c, by) == [c EXCEPT !.caller = by, !.pc = IF c.store THEN "files" ELSE "open"]

Prompting(c) ==
    [c EXCEPT !.lines = @ + 1, !.caller = "prompt", !.pc = "prompt",
              !.asked = @ \cup {c.lines + 1}]

Start(p) ==
    /\ s[p].pc = "off" /\ starts < MaxStarts
    /\ starts' = starts + 1
    /\ \E kind \in Kinds :
          Becomes(p, IF kind.shot THEN Prompting(Fresh(kind))
                     ELSE IF kind.graph THEN Indexing(Fresh(kind), "start")
                     ELSE Fresh(kind))
    /\ UNCHANGED <<audit, typed, calls, redactions, faults, ran, cuts>>

\* The constructor of the store: the field is assigned when it returns.
Open(p) ==
    LET c == s[p] IN
    /\ c.pc = "open"
    /\ \/ Becomes(p, [c EXCEPT !.store = TRUE, !.pc = "init"]) /\ UNCHANGED faults
       \/ Fault /\ Becomes(p, Thrown(c))
    /\ UNCHANGED <<audit, starts, typed, calls, redactions, ran, cuts>>

\* init(), which a store that failed here does not run again.
InitStore(p) ==
    LET c == s[p] IN
    /\ c.pc = "init"
    /\ \/ Becomes(p, [c EXCEPT !.pc = "files"]) /\ UNCHANGED faults
       \/ Fault /\ Becomes(p, Thrown(c))
    /\ UNCHANGED <<audit, starts, typed, calls, redactions, ran, cuts>>

\* indexFiles, resolveCrossFileCalls and stats, and the return to the caller.
IndexFiles(p) ==
    LET c == s[p] IN
    /\ c.pc = "files"
    /\ \/ /\ Becomes(p, [c EXCEPT !.indexed = TRUE,
                                  !.pc = IF c.caller = "prompt" THEN "pin" ELSE "ready"])
          /\ UNCHANGED faults
       \/ Fault /\ Becomes(p, Thrown(c))
    /\ UNCHANGED <<audit, starts, typed, calls, redactions, ran, cuts>>

-----------------------------------------------------------------------------
(* The lines of the REPL, and ensureAgent.                                 *)

Typed(p) ==
    /\ s[p].pc = "ready" /\ typed < MaxLines
    /\ typed' = typed + 1
    /\ UNCHANGED <<audit, starts, calls, redactions, ran, cuts>>

Prompt(p) == Typed(p) /\ UNCHANGED faults /\ Becomes(p, Prompting(s[p]))

Reindex(p) ==
    /\ Typed(p) /\ UNCHANGED faults
    /\ Becomes(p, Indexing([s[p] EXCEPT !.lines = @ + 1], "command"))

\* `/graph' and `/map' change nothing, but a statement that throws ends the process.
Query(p) == Typed(p) /\ s[p].store /\ Fault /\ Becomes(p, Off)

Exit(p) ==
    /\ s[p].pc = "ready"
    /\ Becomes(p, Off)
    /\ UNCHANGED <<audit, bounds, ran, cuts>>

\* Mutant: the pinned context survives.
clearAgent(c) == [c EXCEPT !.agent = NoAgent]

clear(c) == [c EXCEPT !.agent = NoAgent, !.pinned = NoPin]

Clear(p) ==
    /\ Typed(p) /\ UNCHANGED faults
    /\ Becomes(p, [clear(s[p]) EXCEPT !.lines = @ + 1, !.asked = {}])

NeedsIndex(c) == c.kind.graph /\ ~c.store

EnsureAgent(p) ==
    LET c == s[p] IN
    /\ c.pc = "prompt"
    /\ Becomes(p, IF c.agent # NoAgent THEN [c EXCEPT !.pc = "turn"]
                  ELSE IF NeedsIndex(c) THEN Indexing(c, "prompt")
                  ELSE [c EXCEPT !.pc = "pin"])
    /\ UNCHANGED <<audit, bounds, ran, cuts>>

\* The task map is one statement over nodes; the rules never throw.
Pin(p) ==
    LET c == s[p]
        pinning == c.pinned = NoPin
    IN
    /\ c.pc = "pin"
    /\ \/ /\ Becomes(p, [c EXCEPT !.pc = "build",
                                  !.pinned = IF pinning THEN [prompt |-> c.lines, map |-> c.store]
                                             ELSE @])
          /\ UNCHANGED faults
       \/ pinning /\ c.store /\ Fault /\ Becomes(p, Thrown(c))
    /\ UNCHANGED <<audit, starts, typed, calls, redactions, ran, cuts>>

\* createAgent: a model the catalogue has not throws.
Build(p) ==
    LET c == s[p] IN
    /\ c.pc = "build"
    /\ Becomes(p, IF c.kind.model
                  THEN [c EXCEPT !.pc = "turn", !.agent = [graph |-> c.store, pin |-> c.pinned]]
                  ELSE Thrown(c))
    /\ UNCHANGED <<audit, bounds, ran, cuts>>

-----------------------------------------------------------------------------
(* A turn: the bash calls of one message run side by side.                 *)

\* Mutant: yolo is asked before the deny list.
decideYoloFirst(kind, command) ==
    IF command = NoCommand THEN "unnamed"
    ELSE IF kind.permissions = "yolo" \/ command \in AllowList THEN "allowed"
    ELSE IF command \in DenyList THEN "blocked"
    ELSE IF kind.permissions = "confirm" THEN "ask"
    ELSE "blocked"

\* check of the guard, up to the question to the user.
decide(kind, command) ==
    IF command = NoCommand THEN "unnamed"
    ELSE IF command \in DenyList THEN "blocked"
    ELSE IF kind.permissions = "yolo" \/ command \in AllowList THEN "allowed"
    ELSE IF kind.permissions = "confirm" THEN "ask"
    ELSE "blocked"

Entry(call, verdict) == [call |-> call, verdict |-> verdict]

Passes(verdict) == verdict \in {"allowed", "confirmed"}

\* The entry is appended before the verdict returns; if that throws, the call does
\* not run.
Audited(p, call, command, verdict, others) ==
    LET cleared == [call |-> call, command |-> command, at |-> "cleared"]
    IN  \/ /\ audit' = AppendLine(audit, Entry(call, verdict))
           /\ Becomes(p, [s[p] EXCEPT !.pending =
                             others \cup (IF Passes(verdict) THEN {cleared} ELSE {})])
           /\ UNCHANGED <<faults, cuts>>
        \/ /\ Fault
           /\ audit' \in CutAppends(audit, Entry(call, verdict))
           /\ cuts' = cuts + 1
           /\ Becomes(p, [s[p] EXCEPT !.pending = others])

BashCall(p, command) ==
    LET c == s[p]
        verdict == decide(c.kind, command)
    IN
    /\ c.pc = "turn" /\ calls < MaxCalls
    /\ calls' = calls + 1
    /\ CASE verdict = "unnamed" -> UNCHANGED <<s, audit, faults, cuts>>
         [] verdict = "ask" ->
               /\ Becomes(p, [c EXCEPT !.pending = @ \cup
                                {[call |-> calls + 1, command |-> command, at |-> "confirm"]}])
               /\ UNCHANGED <<audit, faults, cuts>>
         [] OTHER -> Audited(p, calls + 1, command, verdict, c.pending)
    /\ UNCHANGED <<starts, typed, redactions, ran>>

\* The answer at a terminal; without one it is no.
Answer(p) ==
    LET c == s[p] IN
    /\ c.pc = "turn"
    /\ \E x \in c.pending, yes \in {c.kind.tty, FALSE} :
          /\ x.at = "confirm"
          /\ Audited(p, x.call, x.command, IF yes THEN "confirmed" ELSE "denied", c.pending \ {x})
    /\ UNCHANGED <<starts, typed, calls, redactions, ran>>

Run(p) ==
    LET c == s[p] IN
    /\ c.pc = "turn"
    /\ \E x \in c.pending :
          /\ x.at = "cleared"
          /\ Becomes(p, [c EXCEPT !.pending = @ \ {x}])
          /\ ran' = ran \cup {[call |-> x.call, command |-> x.command, kind |-> c.kind]}
    /\ UNCHANGED <<audit, bounds, cuts>>

\* The secret scanner, last of the history stages, reports to the same file before
\* a request; no call is under way then.
Redact(p) ==
    LET c == s[p]
        entry == Entry(0, "redacted")
    IN
    /\ c.pc = "turn" /\ c.pending = {} /\ redactions < MaxRedactions
    /\ redactions' = redactions + 1
    /\ \/ audit' = AppendLine(audit, entry) /\ UNCHANGED <<s, faults, cuts>>
       \/ /\ Fault
          /\ audit' \in CutAppends(audit, entry)
          /\ cuts' = cuts + 1
          /\ Becomes(p, Thrown(c))
    /\ UNCHANGED <<starts, typed, calls, ran>>

EndTurn(p) ==
    LET c == s[p] IN
    /\ c.pc = "turn" /\ c.pending = {}
    /\ \/ Becomes(p, IF c.kind.shot THEN Off ELSE [c EXCEPT !.pc = "ready"]) /\ UNCHANGED faults
       \/ Fault /\ Becomes(p, Thrown(c))
    /\ UNCHANGED <<audit, starts, typed, calls, redactions, ran, cuts>>

Kill(p) ==
    /\ s[p].pc # "off"
    /\ Fault
    /\ Becomes(p, Off)
    /\ UNCHANGED <<audit, starts, typed, calls, redactions, ran, cuts>>

-----------------------------------------------------------------------------
Index(p) == Open(p) \/ InitStore(p) \/ IndexFiles(p)
Line(p) == Prompt(p) \/ Reindex(p) \/ Query(p) \/ Clear(p) \/ Exit(p)
Ensure(p) == EnsureAgent(p) \/ Pin(p) \/ Build(p)
Turn(p) ==
    \/ \E command \in Commands \cup {NoCommand} : BashCall(p, command)
    \/ Answer(p) \/ Run(p) \/ Redact(p) \/ EndTurn(p)

Next == \E p \in Procs : Start(p) \/ Index(p) \/ Line(p) \/ Ensure(p) \/ Turn(p) \/ Kill(p)

Spec == Init /\ [][Next]_vars

-----------------------------------------------------------------------------
(* Properties.                                                             *)

\* session.ts:123-174, 225-248, 370-377; nodrel.ts:150-207: whatever throws on the
\* way and whatever is typed, an agent has `graph_query' exactly when its map was
\* pinned too; it has both if the graph is on, and only if an index of its own
\* session has finished, although the store that index() tests is assigned before
\* it can throw; and its pinned context is that of the conversation's first prompt.
BuiltInOrder ==
    \A p \in Procs : LET c == s[p] IN
        (c.pc # "off" /\ c.agent # NoAgent) =>
            /\ c.agent.graph = c.agent.pin.map
            /\ c.kind.graph => c.agent.graph
            /\ c.agent.graph => c.indexed
            /\ c.agent.pin.prompt = Min(c.asked)

Entries(verdicts) == {e.call : e \in {e \in ReadBack(audit) : e.verdict \in verdicts}}

\* permissions.ts:80-136: no denied command runs in any mode; one that is not on
\* the allow list runs in yolo mode or on a user's yes; what has a refusal in the
\* audit never ran; and what ran has its entry there, but for one entry at most
\* for every append of some process that was cut short.
WhatRanWasCleared ==
    /\ \A r \in ran :
          /\ r.command \in Commands \ DenyList
          /\ \/ r.command \in AllowList
             \/ r.kind.permissions = "yolo"
             \/ r.kind.permissions = "confirm" /\ r.kind.tty
    /\ {r.call : r \in ran} \cap Entries({"blocked", "denied"}) = {}
    /\ Cardinality({r.call : r \in ran} \ Entries({"allowed", "confirmed"})) =< cuts
=============================================================================
