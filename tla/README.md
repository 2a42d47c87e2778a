# A verification project for nodrel

nodrel is a terminal coding agent: a session feeds a transcript to a model
through hooks that mask, route, guard and account for it, over a code graph
kept in SQLite. This directory holds TLA+ modules of its stateful parts, the
TLC configurations that check them, and proofs checked by TLAPS. Paths below
are relative to `packages/` unless they say otherwise.

## 1. Inventory

| Part | State it keeps | Operations | How it interacts | What makes it correct |
|---|---|---|---|---|
| history: content cache (`history/src/cache.ts`) | memo map; files under `.agent/cache` | put, get | the compactor puts, `/expand` gets; several processes share the directory | an id always names the whole content, and what was answered stays readable |
| history: batched compactor (`history/src/compaction.ts`, `extension.ts`) | frozen replacements by index, frozenThrough, batch count | process (compactBatch), expand | called by the agent loop before each request, calls the cache | masked outputs are reversible, failures and recent turns survive, the prefix the provider caches is stable |
| history: prefix guard (`history/src/prefix.ts`) | first digest | check | called before requests | a drifting prefix is reported |
| cli: journal (`cli/src/journal.ts`) | seq, the JSONL file | append, read, resume | the session appends each message | no intact record is lost to a crash, seq is monotonic |
| cli: session (`cli/src/session.ts`, `commands.ts`, `bin/nodrel.ts`) | agent, lastAssistantIndex, journaled, pinnedContext, store | prompt, clear, index, expand, taskMap, close | owns journal, router, sink, retrieval tracker, agent; the REPL's commands call it | every message is journaled once, every assistant step is accounted once, an agent is built on an indexed graph and on its own conversation's map |
| cli: task runner (`cli/src/run-task.ts`) | attempt, chain position, step count | runTask, runTaskOnce | agent, sink, timeout timer | a run ends with one result; provider failures move on, budget and timeout end it |
| graph: indexer and store (`graph/src/indexer.ts`, `sqlite-store.ts`) | nodes, edges, file records | indexFiles, resolveCrossFileCalls, putNodes, putEdges, removeFile, queries | the session and MCP index and query | an unchanged file's symbols are in the graph, edges point at what the source calls |
| graph: MCP server (`graph/src/mcp.ts`) | none | handleMcpRequest | store queries | one reply per request, none per notification |
| context: query, task map, tool (`context/src/query.ts`, `tool.ts`, `task-map.ts`) | none | graphQuery, fitToBudget, buildTaskMap | store queries, several for one answer | results fit the token budget, nothing is dropped in silence, the answer is true of the graph |
| context: retrieval tracker (`context/src/retrieval-miss.ts`) | covered paths, counters | recordQuery, recordRead | session events | a miss is a read of what an earlier answer showed |
| router (`router/src/router.ts`, `classifier.ts`) | pin, escalated, failures, greens, tokens per layer | setPin, route, recordResult, recordUsage | the session routes prompts and records usage | two failures escalate, two greens de-escalate, the share counts every token |
| ai: provider client (`ai/src/openrouter.ts`) | none across calls | complete (attempts over a fallback chain) | network, timers, onStep | it retries what may be retried, reports each step once, ends |
| telemetry (`telemetry/src/sink.ts`, `aggregate.ts`, `timing.ts`, `validate.ts`) | JSONL file, turn timer | record, readEvents, aggregate, TurnTimer | session and task runner | no event is lost, totals equal the events |
| core: hooks (`core/src/compose.ts`, `extensions.ts`) | none | composeHooks | the agent loop calls the composed hooks | guards run in order, the first block wins |
| core: permissions and secrets (`core/src/permissions.ts`, `secrets.ts`) | audit log | guard, scanner | beforeToolCall and afterToolCall | deny beats everything, every decision is audited |
| core: prompt, tools, runtime | none | assembly | Pi agent | - (pure construction) |
| ai: tokenizer, models; cli: cost, import-config; local; eval; scripts | none | pure functions, reports, a stub, an offline harness | - | - |

Hard behaviours: synchronous file writes cut by `kill -9` or a full disk;
several processes over one cache directory, one telemetry file and one graph;
awaits between reading a file and writing its symbols; a batch cut short by an
exception; retries, fallbacks and wall-clock timers in the provider client and
the task runner; counters of the session that are advanced only when every call
before them succeeded.

## 2. Plan

Done, in the order in which it was built:

1. History: `CacheContract`, `ContentCache` (implements it), `Compactor` (built
   on it, implements `PromptView`).
2. `Router` with `EscalationPolicy`, and `Journal` over `LineFile`.
3. `SessionTurns`, which composes `LineFile` and `Router`.
4. `GraphIndex`: sessions as processes over one store.
5. `ProviderChain` and `TaskRunner`: retries, fallbacks, timers, liveness.
6. `Telemetry`, which `SessionTurns` composes with the journal and the router:
   several sessions over one telemetry file, `readEvents`, `/cost`.
7. `TurnTimer`, and `TimedTask`, which puts it under `TaskRunner`.
8. `GraphQueries` (what a statement and a query answer), `BudgetedQuery` (one
   statement at a time, while others write) and `Retrieval` (with the tracker).
9. `Conversation`: the processes of a directory, the lazy construction of store
   and agent, the REPL's commands, the permission guard and its audit file.
10. Proofs of every safety property and of the refinements: first the stores, the
    router, the batches, the graph and the construction of agents; then
    resolutions, the audit, the provider client, the turns of a session, the
    turn timer, the sums of a batch, and last the queries and the tracker.

Left, most important first:

11. `Retrieval` over the graphs that `GraphIndex` itself passes through,
    in place of a set of graphs and transactions given as constants; with
    `CallInv`, what a query may then report in the middle of a rewriting.
12. A file deleted from the working tree, in `Edit` of `GraphIndex`: nothing
    removes its nodes.
13. What the attempts before the last one leave in `TaskRunner`: the tree they
    changed, the tokens they spent.

## 3. The modules

Every module starts with what it models; the definitions bear the names of the
code where it has one. Definitions marked `Mutant` are not part of any model:
each is a plausible bug that makes one property fail, and they are kept next to
what they would replace. Variables commented `history` are ghosts that no guard
reads.

### History

`CacheContract` is the cache a caller may rely on: a memo, a directory of
whole contents, `Put`, `PutFails`, `Get`, `Reopen`, each one step.

`ContentCache` is `history/src/cache.ts` over a file system. `put` is four
steps per process (`BeginPut` sets the memo, then `OpenTemp`, `FinishTemp`,
`RenameTemp`), any of which may throw (`SystemCallFails`) or be the last before a
`KillProcess`; `get` is `GetReadsEntry`, `/clear` is `NewInstance`. Contents are model
values and their hash (blake2b512) is the value itself: two contents never share an id.
`ImplementsContract` says that for the process `Observed` this is
`CacheContract`, with the content being stored left out of the memo until `put`
has settled.

`Compactor` is `history/src/compaction.ts` and the transform stage of
`extension.ts`, over the contract. `AppendOnly`, `BeginBatch`, one loop
iteration per step (`SkipUneconomic`, `SkipTooSmall`, `Freeze`, `PutThrows`) and
`EndBatch` are `process` and `compactBatch`; the agent loop around them is
`UserPrompts`, `ToolFinishes`, `ModelReplies`, `RequestFails`, and
`StartSession` is `/clear` or a restart at any point, a kill within a batch
included. A message is its role, content, token count, form (text, image,
already a placeholder) and whether it reads as a failure: the tokenizer and the
failure patterns are data. The break-even is computed over the integers, with
the code's 0.8 and 0.2 multiplied out. A placeholder names the size and the hash of
the output it stands for and is tokenized like any text, so `PlaceholderTokens` is
a cost for each content: the largest output need not be the one whose masking
saves most. The ghost `kept` is what was frozen when the batch began, so that
`NoExtraRewrites` can say when a mandatory batch may mask an output: only if
masking the larger ones left the request above the limit. (That a single rewrite
could not have been left out does not follow and is not claimed: of two rewrites
the smaller output may save more than the larger.) `PromptView` is what the
provider may see: a request extends the last one or belongs to a counted batch
that only masks.

### Router

`Router` is `router/src/router.ts` with `classifier.ts`: `SetPin`, `Route`,
`RecordResult`, `RecordUsage`. A prompt is the pattern groups it matches and its
impact. `EscalationPolicy` states the same routing over the whole history of
verification results instead of two counters and a flag.

### Journal and session

`LineFile` is an append-only file of lines whose writes may stop anywhere;
`Journal` is `cli/src/journal.ts` on it (`append`, `AppendThrows`, `Kill`,
`resume`; `read` is `AllLines`, `IntactAt` and `TornAt`).

`SessionTurns` is `prompt` and `clear` of `cli/src/session.ts` with the REPL's catch:
`BeginPrompt` routes (an action of `Router`), `AgentReturns` or `AgentThrows`,
`JournalNext` or `JournalThrows` once per message, `Account`, `RecordStep` or
`RecordThrows`. Each reply costs one token, so tokens count requests. How the
agent comes to be is `Conversation`, what its queries do is `Retrieval`.

`Telemetry` is `telemetry/src` and the sums of `cli/src/cost.ts`: `record` lets a
valid event through to a `LineFile`, `readEvents` gives the lines that parse and
counts the rest, `aggregate` sums steps by layer. `OtherRecords` of `SessionTurns`
is another session at the same file; it can be cut short and glue its line to
ours. Every event is taken to lie in the reported week.

`Conversation` is what runs around a turn: `Start` of a process (the REPL, or one
shot), `Index` (`Open`, `InitStore`, `IndexFiles`), the lines of the REPL
(`Prompt`, `Reindex`, `Query`, `Clear`, `Exit`), `ensureAgent` (`EnsureAgent`,
`Pin`, `Build`), and in the turn the bash calls (`BashCall`, `Answer`, `Run`), the
scanner's report (`Redact`) and `EndTurn`. The
state of a process is one record: its place, who called, the store, the agent,
the pinned context, the calls under way. Processes share the audit file, a
`LineFile`; of the database only that a call may throw matters. `Thrown` is
the catch of the REPL: only a prompt is caught, a command that throws ends the
process. Of Pi two things are assumed: the calls of one message run side by
side, and a hook that throws makes Pi skip that call and go on.

### Graph

`GraphIndex` is `Session.index`, `indexFiles` and `resolveCrossFileCalls` over
`sqlite-store.ts`. Each indexer goes `next`, `check`, `remove`, `nodes`,
`edges`, `record` for every file and then `callers`, once for each unambiguous name
and once for the edges found; each step from `check` on is one SQLite
transaction or query, and `Edit` (the working tree), other
indexers and `Stop` (a kill, or a statement that throws) fall in between. A
content is the names it declares and the calls it makes. Left out: the other
kinds of edges (written and removed with the calls), positions and signatures,
two declarations of one name in one file, queries, and the loss of
committed transactions in a power failure (`synchronous = NORMAL`). The ghosts
`disturbed`, `shared`, `overtaken` and `settled` say which files and which
resolutions another indexer or a kill has touched.

### Context

`GraphQueries` holds pure operators: the set that one SQL statement selects from a
graph (`findNodes`, `traverse` by levels) and the order of its rows (`Rows`, by
`RowOrder`), what each operation of `query.ts` makes of
the rows, and `buildTaskMap`. A node's name, path, rank and the tokens of its line
are a constant `Symbol`; an edge may lead to a bare name.

`BudgetedQuery` is one request: `Ask` or `Refuse`, `Resolve` and one
`VisitTarget` for each target (or one `LookUp`), `fitToBudget` one result at a
time (`Measure`, `AddCost`, `SetBudget`, `FitLine`, `Finish`), `Deliver`; `ShowMap` is
`/map`. In the program a request runs in one piece, but other processes write to
the database, so `Write`, a transaction of one of them, may fall between two
statements. The ghost `during` is the set of graphs since the request was made.

`Retrieval` adds `retrieval-miss.ts` as the session drives it: `Report` of an
agent's query, `Read` of a file, the end of a turn. That the event of a read
carries its `args` (`session.ts:259`) is taken as the code takes it. `/clear` is no
step: it leaves the tracker alone.

### Provider and tasks

`ProviderChain` is one call of `OpenRouterClient.complete`: `Send`, `Headers`,
`RequestLost` (the timer or the network), `ReadDetail`, `ReadFailure`,
`OnStepThrows`, `Answer`, and the catch of the loop as `Settle` with `Refuse`,
`Pause` and `GiveUp`. A reply is its status class and what its body says.

`TaskRunner` is `runTask` and `runTaskOnce`, with the process exit of
`bin/run-task.ts`. An agent that a timeout leaves behind stays in `running`
until it settles or the process exits.

`TurnTimer` is `telemetry/src/timing.ts`, a pure machine over events and times;
`TimedTask` runs it under `TaskRunner` beside a ghost `spent` that says where the
milliseconds went: the provider's round trip, at least one tool running, or
neither. The first turn begins with the prompt's `message_end` (`PromptTold`);
every turn is a round trip, its message (`TReply`), and the tools it calls, the
result of each being a message with a `message_end` of its own (`ResultTold`),
after its end or after all ends. The clock does not run backwards. The time to
the first token is left out: no other figure is computed from it.

## 4. The runs

| Run | Bounds | What it shows |
|---|---|---|
| `content_cache` | 2 contents, 2 processes, 2 failing calls, 1 kill, symmetric | no torn entry, each failure loses at most one content, each process sees the atomic cache |
| `compaction` | 6 messages of 8 kinds, pressure 9, hard limit 19, 1 throw, 1 restart | mandatory batches fit without needless rewrites; masking stays reversible in its session, protected messages survive, replacements never change, each throw loses at most one output; the provider's view is append-only but for counted batches and one late rewrite for each throw |
| `router` | 6 results, every pin, impacts 12 and 13 | counters and flag route as the whole history says |
| `journal` | 5 appends, 3 cuts, any resumes | order, no silent loss, one record per cut |
| `session` | 3 prompts, 2 throws, 1 `/clear`, 1 step of another session, kills anywhere | what is journalled and counted with and without throws, and what `/cost` says of a shared file |
| `graph` | 2 files, 2 contents, 2 indexers, 3 runs, 1 edit, 1 kill, symmetric | what a record says of the graph, no stale call, resolutions restore every call |
| `provider` | 3 models, 2 tries, all replies | the order of requests, what ends a call early, what is paid and unreported, termination |
| `task` | 2 models, 2 passes, up to 2 replies, 2 tools, 3 ms, any models out of the catalogue | what a result says, one agent at a time, what the breakdown holds of the time, termination |
| `query` | 2 writes, 2 answers, 1 read, 1 end of a turn; every operation, budgets around each boundary; the 4 graphs of one file being rewritten | the budget, nothing dropped, answers true of the graphs of their time, misses true, the map's budget |
| `conversation` | 2 processes of 4 kinds, 2 starts, 3 lines, 2 bash calls, 1 redaction, 2 faults, symmetric | agents are built in order on their own map; what ran was permitted and is in the audit |
| `compaction_readable` | 6 messages, 1 throw, 1 restart | violation: finding 1 |
| `graph_guess` | 3 files, 1 indexer | violation: finding 2 |

Why the bounds are enough for the interesting cases. Two processes are the
least that race for one entry, and a third does what the second does; the second
failure lets a retry meet the memo of the first. Six messages hold two large outputs,
the window that moves over them and a batch after a batch; the limits are
chosen so that both modes of a batch occur. Six results hold a streak, a
de-escalation and a streak again. Three cuts leave an open tail, glue a line to it and cut again. Three prompts
hold a failed turn, the one that heals it and one after it. Two contents, one
the callee of the other, with one edit and three runs hold an index, a change
and a re-index that overlap. Three models of two tries have a first, a middle
and a last. Two writes within a query take a file from its old rows to none and
to new ones; the second answer lets a read follow the query it does not belong
to. One read leaves open to TLC whether several misses keep the order of
their reads, a conjunct of `MissesAreTrue` that the theorem `Misses` covers. Two files
where a task map lists one make it count the other, and one of its budgets is just
enough for the fixed lines with the note, another without. Depth 0 is what the code makes 1, and depth 4 is beyond the 3 that `impact` has at
least. Two starts put two processes side by side or one after the other, three
lines hold a prompt, `/clear` and a prompt, and two faults a throw on the way to
an agent and a torn audit entry.

The types of a model are not a property of a run: where a module has a `TypeOK`,
it is part of the inductive invariant that the proofs establish, and in `query`
it is the conjunct `ResultsAreNodes` of `NothingIsDropped`.

**Deadlock** is checked where the system has a last state or none (`content_cache`,
`router`, `journal`, `provider`, `task`: their `Done` or `Stopped` stutters). The
other models (`compaction`, `session`, `graph`, `query`, `conversation`) stop at their
bounds and say `CHECK_DEADLOCK FALSE`.

**Fairness.** Only `ProviderChain` and `TaskRunner` assume any, and only their
liveness needs it. In both, the event loop takes the steps that are ready and
timers fire. The provider client is trusted with one thing more: a body that
has begun ends or breaks. The client's own timer is cleared when the headers
arrive (`openrouter.ts:268-270`), so nothing in the code bounds the body; without
the assumption `EveryCallEnds` is false. Nothing is assumed of headers, which
may never come, nor of agents, which may hang for ever. No other component has
a liveness property: they act when called.

## 5. What is proved

For every value of the constants, by TLAPS, from the assumptions named in the
modules: bounds are natural numbers, special values differ from ordinary ones, a
limit, a cost or a budget is a number, and the sets that the code makes finite
(nodes, words of a phrase) are finite. TLC evaluates them in every run. Each
safety property that a run checks is a theorem, and so are both refinements of
components (`ImplementsContract`, `ImplementsPromptView`) and that of the router
(`ImplementsPolicy`). A theorem comes from an inductive invariant: it holds at
first, one lemma or step per action says that it is kept, and it implies the
property. Eight modules hold the proofs.

**`StoreProofs`**, the two stores.
- Journal: `Order`, `NoSilentLoss`, `BoundedLoss`. `LinesGood` orders the intact lines
  below the writer's counter; `LossBound` and `TearBound` count lost records
  against torn lines, and those with an open tail against cuts.
- Content cache: `WholeEntries`, `ContractRefinement`, `BoundedDoubt`. `StoreInv` ties the
  state of a process's temporary file to where it is in `put`; then every
  answered content that is not on disk is accounted to a failure.

**`CompactorProofs`**.
- `Reversibility`, `Protection`, `Stability`, `BoundedLoss`, and
  `PromptViewRefinement`, throws included (a batch that a throw cuts short leaves a
  rewrite owed, which shows at most once). `IInv` is `StateTypeOK`,
  `FrozenIsReversible`, `TodoOK` (candidates are compactable, old enough and not
  frozen), `FrozenOK` (replacements stand for messages that are and remain
  compactable) and `SentOK` (what was sent is the transcript under some of the
  replacements). It is needed because `ProtectedSurvive` speaks of a transcript
  that has grown since the batch: the window moves forward only.
- `MandatoryBatchesFit`, `EveryRewriteCounts`. `BatchInv` says of a batch under way that
  `remaining`, which the code updates by differences, is the sum of the
  transcript under its replacements (`Counted`), that a mandatory one skips
  nothing that would help (`NothingOverlooked`), that what it masked is larger than
  what is left (`LargestFirst`) and that the larger ones were never enough
  (`NoExtraRewrites`, by `LastIsSmallest` and `SmallerIsLeftOut`: a further rewrite is
  the smallest so far and changes no view without the smaller ones). Nothing is
  assumed of what a placeholder costs.

**`SessionProofs`**, what a session asks.
- Router: `FlagIsHistory`, `PolicyRefinement`. `RouterInv` adds what the
  two counters say of the last results (`FailuresTellLast`, `GreensTellLast`).
- Provider client: `ChainOrder`, `Aborting`, `Accounting`. `Walked` gives model and try of
  the running attempt by division of the number of requests sent, `OursIsLast`
  says that nothing follows a malformed request, and `Accounted` counts what is
  paid and unreported against the attempts given up.
- Turns: `KillIsBounded`, `NextTurnCatchesUp`, `ShrinkingIsTold`, `CountedAtMostOnce`,
  `AllSpendingCounted`. `JournalClean` says that without a throw the file holds every
  message in its place; `JournalHeals` that, with throws, a message journalled and
  not in the file was glued to a tail that a throw left; `TelemetryTears` the same
  of step events; `CountedOnce` and `CountedAll` follow each token from the
  transcript through the router's counters and the pending event to the file,
  layer by layer.

**`GraphIndexProofs`**.
- `SkippingIsSafe`, `ReindexReplaces`. `GraphInv` is `TypeOK`, `OneWriter` (two indexers
  inside one file mark it), `InProgress` (what the file's rows are at each step of
  its one writer) and `RecordTellsGraph`. `CallInv` adds that every edge leaves a
  node that exists, so that `removeFile` finds it, and that pending additions
  are calls of recorded contents.
- `ResolutionIsComplete`. `ResolvesFromNow`: an indexer that nobody overtook resolves
  from the unambiguous names and the callers as they are at each of its steps.

**`QueryProofs`**, for any graphs, transactions, requests and costs.
- `FoundInv`: a query holds nodes, each once. That `ORDER BY` makes a list of a set,
  each element once, is proved from a definition by rank.
- `BudgetBound`, `EachResultOnce`, `MapBound`. `FitInv` gives the running sum for each prefix
  of the results and says that what the loop has shown and left out is what it
  has looked at, in order. When everything fits nothing is passed over and
  there is no note, and otherwise room for the note was kept; the first case is
  why the sums of the prefixes are in the invariant.
- `Truth`. The recursive statement goes level by level; its levels are the ends of
  the walks of one edge, of two and so on (`LevelsAreWalkEnds`), so it answers by
  walks. `WalkInv` says of a query that walks from several targets, each in a
  statement of its own, that what it has found some graph of its time leads to,
  and that of a target it has done it has found all that every graph of its
  time leads to.
- `Misses`, of `RSpec`. `TrackInv`: the tracker holds the agent's answers in their
  order, numbered, and the misses are those of the reads; so the first entry
  that covers a path is the first answer that showed it. `TrackedQueriesAreQueries`
  carries the theorems about `Spec` over to `RSpec`.

**`ConversationProofs`**.
- `AgentsAreBuiltInOrder`. Sessions share only a file that the property does not
  read, so the invariant is one predicate of one session: `StoreOK` (a store has
  been indexed or is being indexed now, and no prompt of the REPL ever indexes,
  because the REPL does so before it reads a line and does not live on if that
  throws), `PromptOK` (which prompt is in flight), `PinOK` (what is pinned is the
  first prompt's, and no store is opened between the pinning and the agent that
  is built on it: a pin is kept without an agent only when the model is not in
  the catalogue, and then no agent is ever built) and `AgentOK`.
- `WhatRunsIsCleared`. Here the processes meet, in the audit file. `AuditInv` numbers the
  calls (`CallsOnce`: a number is that of one pending call or of one that ran),
  says what each pending call may be (`AllPermitted`), what the entries tell of
  it (`EntriesTell`), and counts calls without an entry against cuts (`LossBound`).

**`TaskRunnerProofs`**.
- `Weather`, `OneAgent`, `OkIsAnswered`. `IInv` gives the place of the two loops by the
  number of failures.
- `BreakdownBounded`. `TimerInv` says in each phase of the agent where the milliseconds
  are that have passed: the turns that ended, with the open one up to the last
  event (`InTurn`), contain all the time in which the provider or a tool ran and
  no more than all time; when every result is a message, so they do with the open
  turn up to its last `message_end` (`MessageClock`), which is what `turn_end`
  books. `ToolClock` does the same for the tools. `TimedRunsAreRuns` carries the
  theorems about `TaskRunner` over.

**`SumLemmas`** is about the sums of the models, which are folds of the community
modules: the fold exists, its order does not matter, and one more element adds
its value. The proofs are by the least counterexample, because the induction
theorems of the library take an operator, which no installed prover can
instantiate.

Only model-checked: liveness (`EveryCallEnds`, `EveryTaskEnds`), which needs
`ENABLED`. No theorem rests on a property that is only checked.

## 6. Findings

Each is a run that must fail.

1. `compaction_readable` (`history/src/cache.ts:72`). The memo is filled before
   the write can throw. After one failed put the next one returns at once, the
   output is masked, and nothing is ever written: after `/clear` or a restart
   `/expand` finds nothing. `OnlyFaultsLoseOutputs` bounds it: one output for each
   throw.
2. `graph_guess` (`graph/src/indexer.ts:390`). A name that was unique when it was
   resolved and is declared again keeps its edge, although ambiguous names are
   to be left unresolved.

Disagreements between code and text that were met while modelling and have no
run:

- `history/src/compaction.ts:178` says messages below `frozenThrough` must not
  change; a mandatory batch masks the largest output first, and a later batch
  may mask an earlier one. The cached prefix is then rewritten, once per
  counted batch (`ImplementsPromptView`).
- `compaction.ts:329`: a batch cut short by a put that throws is replayed but
  never counted. `compaction.ts:299`: exactly at the hard limit a batch is
  mandatory and yet rewrites nothing, for the reason "nothing compactable".
- `cli/src/session.ts:304`: when `append` throws in the middle of a turn, the
  next turn appends the messages before it again, against one line per message
  (`journal.ts:7`). `session.ts:325`: the usage of a turn that threw is counted
  with the next turn, on that turn's layer.
- `cli/src/journal.ts:37`: a cut write leaves a line without its newline; the
  next append continues it, returns normally, and its record cannot be read.
  `EachCutLosesOne` bounds it. The same happens to the telemetry and audit files
  when another process appends (`ShrinkingIsSurfaced`, `WhatRanWasCleared`).
- `journal.ts:66-70`: `resume` goes by the last line that parses, so the number
  of a lost record is used again.
- `telemetry/src/events.ts:44` speaks of one event per request; the session records one
  per turn.
- `SPEC.md` 4.5 lets verification results drive escalation; no caller of
  `recordResult` exists in the session. The limit on escalation tokens is
  computed (`router.ts:143`) and nothing acts on it.
- `commands.ts:163`: `/compact` reports and does not compact.
- `graph/src/types.ts:85-91`: "unchanged hash" files may be skipped; a file whose
  rewriting was cut under `--force`, or before a revert, has its old record over
  partial rows and is skipped. Files that two sessions rewrite together can hold
  the nodes of both contents. Symbols of deleted files stay after `/reindex`.
- `cli/src/session.ts:123-129`: `index` assigns the store before it can throw and
  tests only the field. That no agent works on an unfinished index rests on
  `bin/nodrel.ts`, where the first index is outside the REPL's catch
  (`BuiltInOrder`; a REPL that caught it, the mutant `ThrownCatchesStart`, violates
  it). A command that throws ends the process.
  Under `--no-graph`, `/reindex` opens a store and the agent after the next
  `/clear` has `graph_query`.
- `session.ts:158-163` cuts the imported rules at 1200 characters for 400 tokens.
- `context/src/query.ts:68-72` speaks of truncating the tail; the loop goes on past
  a line that does not fit (`99-106`), so a shorter, less relevant one may be
  shown in its place. The ids of what was left out are returned but are in no
  text the model reads, against "truncated to ids you can expand"
  (`core/src/tools.ts:86`).
  `expand` and the answers that find nothing do not look at the budget.
- `context/src/task-map.ts:85-97`: the note counts the files beyond `maxFiles`, not
  those that half the budget cut off. The note and the second header are added
  without asking: with a budget that has no room for the two headers and the note,
  or half of which has none for the last two, a map may cost more than its
  budget. `MapFits` says no more than the code does.
- `context/src/retrieval-miss.ts:79` calls the miss rate a share of queries; two
  reads after one query make it 2. Coverage outlives `/clear`, so a read in a new
  conversation may be a miss of an answer the model no longer has; `MissesAreTrue`
  takes the session as a whole, as the code does, and has no `/clear`. A path with a
  space or a bracket is never recognised in an answer, and a read by absolute
  path never matches.
- `graph/src/mcp.ts:73` says notifications get no response; only
  `notifications/initialized` gets none.
- `core/src/permissions.ts:93-95`: a bash call without a command is blocked and not
  audited. `cli/src/bin/nodrel.ts:43` gives allowlist as the default; at a
  terminal it is confirm (`74-76`). `nodrel.ts:111-112` says `--print` cannot ask; at
  a terminal it does.
- `ai/src/openrouter.ts:154` calls the timeout a cap per attempt; it does not
  cover the body. `SPEC.md:343` says "retry the same model twice"; it is asked
  twice, that is retried once.
- `cli/src/run-task.ts:27` calls `timeoutMs` a cap for the whole task; it is one
  for each model of each pass. `run-task.ts:117` says errors are captured into
  the result; a model id that is not in the catalogue throws out of `runTask`.
  `run-task.ts:75`: when the chain is exhausted, the model of the result is in
  `fallbacksFrom` too. What earlier attempts cost is in no result.
- `telemetry/src/timing.ts:6-7` says a turn is split into time to first token,
  turns and tools, and `:20` that `providerMs` is "turn start → `message_end`: the
  whole provider round trip". Prompt and tool results end with a `message_end`
  too and each overwrites the one before (`76-78`), so `providerMs` runs to the
  last tool result and contains the tools; `harnessMs` (`122`) takes them off a
  second time. The reading in `docs/ROADMAP.md:86-87` (provider 8,744 of 8,745 ms,
  tools 22 ms, harness 0) shows it. `BreakdownIsBounded` states what the figures
  do say.

## 7. What is not modelled

`PROJECT.json` lists every component with the reason. Pure functions (prompt
text, token counting, cost tables, the text of imported rules), rendering,
argument parsing, the conformance suite, the benchmark scripts, the Python
harness and the local stub have no state that a check would reach. The prefix
guard is exported and nothing constructs it. The MCP server keeps no state: it
answers each line from the store, by the same `graphQuery`. `composeHooks` takes
several guards and planners; the session gives it one guard and no planner, and
only that is modelled. The question of the guard reads the same standard input
as the REPL's prompt; how node shares it between two readers is not modelled,
and the answer is any.

The session also records a retrieval miss in the sink (`session.ts:266-274`). Such a
line is no step: both reports of the telemetry file leave it out, and so does
the file of `SessionTurns`.

What a crash does below the file system (a write that was acknowledged and lost
with the power) is out of all models, as is the order in which two processes'
appends within one `write` call interleave: an append is whole or cut.
