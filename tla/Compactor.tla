------------------------------ MODULE Compactor ------------------------------
(***************************************************************************)
(* The history manager of one conversation: BatchedCompactor               *)
(* (packages/history/src/compaction.ts) behind the transform stage of      *)
(* extension.ts, over the ContentCache contract.  The agent loop appends   *)
(* to the transcript and hands it to `process` before every request; the   *)
(* decision is what goes to the provider.  One loop iteration of           *)
(* compactBatch is one step, so that a put that throws, or a kill, can     *)
(* fall between any two rewrites.                                          *)
(*                                                                         *)
(* A message is its role, the content it carries (the value that names the *)
(* text), its token count, whether it is text at all ("image": textOf is   *)
(* undefined, so it counts 0 tokens) or already reads like a placeholder,  *)
(* and whether it is marked, or reads, as a failure.                       *)
(***************************************************************************)
EXTENDS CacheContract, Integers, Sequences, FiniteSets, Functions

CONSTANTS
    Messages,            \* the messages the agent loop may append
    PlaceholderTokens,   \* content -> countTokens(compactedPlaceholder(...))
    BreakEvenTokens,     \* PLACEHOLDER_TOKENS, the estimate in the break-even
    PressureLimit,       \* windowTokens * pressureThreshold
    HardLimit,           \* windowTokens * hardLimit
    ExpectedRequests,    \* requests a batch is assumed to survive
    KeepRecentTurns,     \* turns at the end that are never compacted
    MaxMessages,         \* bound: length of the transcript
    MaxFaults,           \* bound: puts that throw
    MaxSessions          \* bound: /clear commands and restarts

Roles == {"user", "assistant", "toolResult"}
Forms == {"text", "image", "placeholder"}

Message == [role : Roles, content : Contents, tokens : Nat,
            form : Forms, failure : BOOLEAN]

ASSUME MessagesAssumption == Messages \subseteq Message
ASSUME LimitsAssumption ==
    /\ PlaceholderTokens \in [Contents -> Nat]
    /\ BreakEvenTokens \in Nat
    /\ PressureLimit \in Nat
    /\ HardLimit \in Nat
    /\ ExpectedRequests \in Nat
    /\ KeepRecentTurns \in Nat
    /\ MaxMessages \in Nat
    /\ MaxFaults \in Nat
    /\ MaxSessions \in Nat

VARIABLES
    transcript,      \* messages of the agent, original bytes
    frozen,          \* index -> replacement, replayed verbatim
    frozenThrough,   \* largest frozen index (exclusive bound in the code)
    batches,         \* compactionCount
    pc,              \* "ready", "batch" (inside compactBatch) or "sent"
    mandatory,       \* mode of the running batch
    todo,            \* candidates the running batch has not looked at
    remaining,       \* tokens the running batch still counts
    compactedAny,    \* the running batch has rewritten something
    kept,            \* history: what was frozen when the batch began
    decision,        \* last CompactionDecision: what the provider received
    promised,        \* history: contents whose placeholder was ever sent
    faults,          \* puts that threw so far
    sessions         \* conversations started so far

sessionVars == <<transcript, frozen, frozenThrough, batches>>
batchVars == <<mandatory, todo, remaining, compactedAny, kept>>
vars == <<cacheVars, sessionVars, pc, batchVars, decision, promised, faults,
          sessions>>

-----------------------------------------------------------------------------
(* Helpers.                                                                *)

\* applyFrozen: the transcript with the frozen replacements in place.
ApplyFrozen(tr, fz) ==
    [i \in 1..Len(tr) |-> IF i \in DOMAIN fz THEN fz[i] ELSE tr[i]]

\* totalTokens of the messages numbered from..to.
TokensOf(msgs, from, to) ==
    SumFunctionOnSet([i \in 1..Len(msgs) |-> msgs[i].tokens], from..to)

TotalTokens(msgs) == TokensOf(msgs, 1, Len(msgs))

\* The replacement keeps the message and swaps its content for the placeholder,
\* whose text names the size and the hash of the content, so that it costs what
\* that text costs.
Placeholder(m) ==
    [m EXCEPT !.form = "placeholder", !.tokens = PlaceholderTokens[m.content]]

\* Index i is inside the last KeepRecentTurns turns of the transcript.
Recent(tr, i) ==
    Cardinality({j \in i..Len(tr) : tr[j].role = "assistant"}) =< KeepRecentTurns

\* Mutant: failure signals are not looked for.
CompactableFailuresToo(m) == m.role = "toolResult" /\ m.form = "text"

\* A tool output in text form that carries no failure.
Compactable(m) == m.role = "toolResult" /\ m.form = "text" /\ ~m.failure

CandidateIndexes(tr, fz) ==
    {i \in 1..Len(tr) : ~Recent(tr, i) /\ i \notin DOMAIN fz /\ Compactable(tr[i])}

Candidates(tr, fz) ==
    {[index |-> i, tokens |-> tr[i].tokens,
      suffix |-> TokensOf(ApplyFrozen(tr, fz), i + 1, Len(tr))] :
        i \in CandidateIndexes(tr, fz)}

\* tokens >= breakEvenTokens(suffix, expectedRequests), over the integers:
\* the cache costs 0.2 of fresh tokens, so 0.8 / 0.2 = 4.
PaysOff(c) ==
    /\ ExpectedRequests > 0
    /\ (c.tokens - BreakEvenTokens) * ExpectedRequests >= 4 * c.suffix

\* Mutant: the candidates of a mandatory batch are not sorted.
BeforeOldestFirst(c, d) == c.index < d.index

\* Visiting order: oldest first, or largest first (a stable sort) if mandatory.
Before(c, d) ==
    IF mandatory
    THEN c.tokens > d.tokens \/ (c.tokens = d.tokens /\ c.index < d.index)
    ELSE c.index < d.index

Fits == mandatory /\ remaining =< HardLimit

\* c is the candidate of the next loop iteration.
NextUp(c) ==
    /\ pc = "batch"
    /\ c \in todo
    /\ ~Fits
    /\ \A d \in todo : d # c => Before(c, d)

ContentOf(c) == transcript[c.index].content

\* countTokens(placeholder) of candidate c.
TokensAfter(c) == PlaceholderTokens[ContentOf(c)]

NoDecision ==
    [messages |-> <<>>, mode |-> "append-only", compacted |-> FALSE, reason |-> "none"]

Reasons == {"none", "below pressure", "batch", "nothing compactable",
            "nothing pays off"}
Modes == {"append-only", "opportunistic", "mandatory"}

-----------------------------------------------------------------------------
StateTypeOK ==
    /\ CacheTypeOK
    /\ transcript \in Seq(Messages)
    /\ DOMAIN frozen \subseteq 1..Len(transcript)
    /\ \A i \in DOMAIN frozen : frozen[i] \in Message
    /\ frozenThrough \in Nat
    /\ batches \in Nat
    /\ pc \in {"ready", "batch", "sent"}
    /\ mandatory \in BOOLEAN
    /\ \A c \in todo : c.index \in 1..Len(transcript)
    /\ compactedAny \in BOOLEAN
    /\ kept \subseteq Nat
    /\ decision \in [messages : Seq(Message), mode : Modes,
                     compacted : BOOLEAN, reason : Reasons]
    /\ promised \subseteq Contents
    /\ faults \in 0..MaxFaults
    /\ sessions \in 0..MaxSessions

\* The token sums kept by a batch.
SumsOK ==
    /\ remaining \in Int
    /\ todo \subseteq [index : Nat, tokens : Nat, suffix : Nat]

TypeOK == StateTypeOK /\ SumsOK

Init ==
    /\ memo = {} /\ disk = {}
    /\ transcript = <<>>
    /\ frozen = <<>>
    /\ frozenThrough = 0
    /\ batches = 0
    /\ pc = "ready"
    /\ mandatory = FALSE
    /\ todo = {}
    /\ remaining = 0
    /\ compactedAny = FALSE
    /\ kept = {}
    /\ decision = NoDecision
    /\ promised = {}
    /\ faults = 0
    /\ sessions = 0

-----------------------------------------------------------------------------
(* The agent loop around the compactor.                                    *)

Append1(m) ==
    /\ Len(transcript) < MaxMessages
    /\ transcript' = Append(transcript, m)
    /\ UNCHANGED <<cacheVars, frozen, frozenThrough, batches, batchVars, decision,
                   promised, faults, sessions>>

\* A prompt of the user.
UserPrompts ==
    /\ pc = "ready"
    /\ \E m \in Messages : m.role = "user" /\ Append1(m)
    /\ UNCHANGED pc

\* A tool of the last assistant message finishes.
ToolFinishes ==
    /\ pc = "ready"
    /\ transcript # <<>>
    /\ transcript[Len(transcript)].role # "user"
    /\ \E m \in Messages : m.role = "toolResult" /\ Append1(m)
    /\ UNCHANGED pc

\* The provider answers the request.
ModelReplies ==
    /\ pc = "sent"
    /\ pc' = "ready"
    /\ \E m \in Messages : m.role = "assistant" /\ Append1(m)

\* The request fails; nothing is appended, the next one starts over.
RequestFails ==
    /\ pc = "sent"
    /\ pc' = "ready"
    /\ UNCHANGED <<cacheVars, sessionVars, batchVars, decision, promised,
                   faults, sessions>>

\* /clear, or a restart, at any point: a new compactor and a new ContentCache
\* over the same directory.
StartSession ==
    /\ sessions < MaxSessions
    /\ sessions' = sessions + 1
    /\ Reopen
    /\ transcript' = <<>>
    /\ frozen' = <<>>
    /\ frozenThrough' = 0
    /\ batches' = 0
    /\ pc' = "ready"
    /\ mandatory' = FALSE
    /\ todo' = {}
    /\ remaining' = 0
    /\ compactedAny' = FALSE
    /\ kept' = {}
    /\ decision' = NoDecision
    /\ UNCHANGED <<promised, faults>>

\* /expand of an id seen in some placeholder.
Expand ==
    /\ pc # "batch"
    /\ \E c \in promised : Get(c)
    /\ UNCHANGED <<sessionVars, pc, batchVars, decision, promised, faults, sessions>>

-----------------------------------------------------------------------------
(* process and compactBatch.                                               *)

AwaitsRequest ==
    /\ pc = "ready"
    /\ transcript # <<>>
    /\ transcript[Len(transcript)].role # "assistant"

Used == TotalTokens(ApplyFrozen(transcript, frozen))

Decide(mode, compacted, reason) ==
    /\ decision' = [messages |-> ApplyFrozen(transcript, frozen), mode |-> mode,
                    compacted |-> compacted, reason |-> reason]
    /\ promised' = promised \cup {frozen[i].content : i \in DOMAIN frozen}
    /\ pc' = "sent"

\* Mutant: below the threshold the transcript is sent as it is.
AppendOnlyUnmasked ==
    /\ AwaitsRequest
    /\ Used < PressureLimit
    /\ decision' = [messages |-> transcript, mode |-> "append-only",
                    compacted |-> FALSE, reason |-> "below pressure"]
    /\ pc' = "sent"
    /\ UNCHANGED <<cacheVars, sessionVars, batchVars, promised, faults, sessions>>

\* Below the pressure threshold: replay what is frozen, touch nothing else.
AppendOnly ==
    /\ AwaitsRequest
    /\ Used < PressureLimit
    /\ Decide("append-only", FALSE, "below pressure")
    /\ UNCHANGED <<cacheVars, sessionVars, batchVars, faults, sessions>>

\* At or above it: fix the mode and the candidates.
BeginBatch ==
    /\ AwaitsRequest
    /\ Used >= PressureLimit
    /\ pc' = "batch"
    /\ mandatory' = (Used >= HardLimit)
    /\ todo' = Candidates(transcript, frozen)
    /\ remaining' = Used
    /\ compactedAny' = FALSE
    /\ kept' = DOMAIN frozen
    /\ UNCHANGED <<cacheVars, sessionVars, decision, promised, faults, sessions>>

Examined(c) == todo' = todo \ {c}

\* Opportunistic: the rewrite would not pay for the cache it costs.
SkipUneconomic(c) ==
    /\ NextUp(c)
    /\ ~mandatory
    /\ ~PaysOff(c)
    /\ Examined(c)
    /\ UNCHANGED <<cacheVars, sessionVars, pc, mandatory, remaining, compactedAny,
                   kept, decision, promised, faults, sessions>>

WorthPutting(c) == NextUp(c) /\ (mandatory \/ PaysOff(c))

\* The content is cached, but the placeholder would be no smaller.
SkipTooSmall(c) ==
    /\ WorthPutting(c)
    /\ Put(ContentOf(c))
    /\ TokensAfter(c) >= c.tokens
    /\ Examined(c)
    /\ UNCHANGED <<sessionVars, pc, mandatory, remaining, compactedAny, kept,
                   decision, promised, faults, sessions>>

\* Mutant: each batch starts a new map of replacements.
FreezeForgetsOthers(c) ==
    /\ WorthPutting(c)
    /\ Put(ContentOf(c))
    /\ TokensAfter(c) < c.tokens
    /\ Examined(c)
    /\ frozen' = [i \in {c.index} |-> Placeholder(transcript[i])]
    /\ frozenThrough' = IF c.index > frozenThrough THEN c.index ELSE frozenThrough
    /\ remaining' = remaining - (c.tokens - TokensAfter(c))
    /\ compactedAny' = TRUE
    /\ UNCHANGED <<transcript, batches, pc, mandatory, kept, decision, promised,
                   faults, sessions>>

\* Mutant: the placeholder is counted as free.
FreezeFreesAll(c) ==
    /\ WorthPutting(c)
    /\ Put(ContentOf(c))
    /\ TokensAfter(c) < c.tokens
    /\ Examined(c)
    /\ frozen' = [i \in DOMAIN frozen \cup {c.index} |->
                    IF i = c.index THEN Placeholder(transcript[i]) ELSE frozen[i]]
    /\ frozenThrough' = IF c.index > frozenThrough THEN c.index ELSE frozenThrough
    /\ remaining' = remaining - c.tokens
    /\ compactedAny' = TRUE
    /\ UNCHANGED <<transcript, batches, pc, mandatory, kept, decision, promised,
                   faults, sessions>>

\* The content is cached and the replacement frozen.
Freeze(c) ==
    /\ WorthPutting(c)
    /\ Put(ContentOf(c))
    /\ TokensAfter(c) < c.tokens
    /\ Examined(c)
    /\ frozen' = [i \in DOMAIN frozen \cup {c.index} |->
                    IF i = c.index THEN Placeholder(transcript[i]) ELSE frozen[i]]
    /\ frozenThrough' = IF c.index > frozenThrough THEN c.index ELSE frozenThrough
    /\ remaining' = remaining - (c.tokens - TokensAfter(c))
    /\ compactedAny' = TRUE
    /\ UNCHANGED <<transcript, batches, pc, mandatory, kept, decision, promised,
                   faults, sessions>>

\* put throws out of process: what the batch froze so far stays frozen, the
\* batch is not counted and no request is sent.
PutThrows(c) ==
    /\ WorthPutting(c)
    /\ faults < MaxFaults
    /\ faults' = faults + 1
    /\ PutFails(ContentOf(c))
    /\ pc' = "ready"
    /\ UNCHANGED <<sessionVars, batchVars, decision, promised, sessions>>

\* The loop ends: candidates exhausted, or the transcript fits again.
EndBatch ==
    /\ pc = "batch"
    /\ todo = {} \/ Fits
    /\ batches' = IF compactedAny THEN batches + 1 ELSE batches
    /\ Decide(IF mandatory THEN "mandatory" ELSE "opportunistic", compactedAny,
              IF compactedAny THEN "batch"
              ELSE IF mandatory THEN "nothing compactable" ELSE "nothing pays off")
    /\ UNCHANGED <<cacheVars, transcript, frozen, frozenThrough, batchVars,
                   faults, sessions>>

BatchStep(c) == SkipUneconomic(c) \/ SkipTooSmall(c) \/ Freeze(c) \/ PutThrows(c)

Next ==
    \/ UserPrompts
    \/ ToolFinishes
    \/ ModelReplies
    \/ RequestFails
    \/ StartSession
    \/ Expand
    \/ AppendOnly
    \/ BeginBatch
    \/ \E c \in todo : BatchStep(c)
    \/ EndBatch

Spec == Init /\ [][Next]_vars

-----------------------------------------------------------------------------
(* Properties.                                                             *)

\* Whatever is masked can be expanded within the session, byte for byte: the
\* replacement stands for the message at its own index and the memo holds that
\* message's content, also after a batch that was cut short (compaction.ts:306-321).
FrozenIsReversible ==
    \A i \in DOMAIN frozen :
        /\ i =< Len(transcript)
        /\ frozen[i] = Placeholder(transcript[i])
        /\ frozen[i].content \in memo

\* A request differs from the transcript only at text outputs of tools that
\* carry no failure and lie outside the recent turns, now and for as long as
\* the replacement is replayed (SPEC 4.4 rule 5, compaction.ts:250-284).
ProtectedSurvive ==
    \A i \in 1..Len(decision.messages) :
        LET m == transcript[i]
        IN  decision.messages[i] # m =>
                /\ m.role = "toolResult" /\ m.form = "text" /\ ~m.failure
                /\ Cardinality({j \in i..Len(transcript) : transcript[j].role = "assistant"})
                        > KeepRecentTurns

\* A mandatory batch ends with a transcript that fits, or with nothing left
\* that a placeholder could make smaller (compaction.ts:294-327).
MandatoryFits ==
    pc = "sent" /\ decision.mode = "mandatory" =>
        \/ TotalTokens(decision.messages) =< HardLimit
        \/ \A i \in CandidateIndexes(transcript, frozen) :
              transcript[i].tokens =< PlaceholderTokens[transcript[i].content]

\* Output j is a bigger win than output i, or as big and older.
Larger(tr, j, i) ==
    \/ tr[j].tokens > tr[i].tokens
    \/ tr[j].tokens = tr[i].tokens /\ j < i

\* The request, had the batch masked no more than the outputs larger than i.
OnlyLarger(tr, fz, old, i) ==
    ApplyFrozen(tr, Restrict(fz, {j \in DOMAIN fz : j \in old \/ Larger(tr, j, i)}))

\* The one cache invalidation of a mandatory batch is spent on the largest
\* outputs, and "every extra rewrite past that point is pure loss"
\* (compaction.ts:286-299): whatever output it masked, masking only the larger
\* ones would have left the request above the limit.
NoExtraRewrites ==
    pc = "batch" /\ mandatory =>
        \A i \in DOMAIN frozen \ kept :
            TotalTokens(OnlyLarger(transcript, frozen, kept, i)) > HardLimit

\* Once compacted, a region is never recomputed: within a session a frozen
\* replacement is replayed unchanged by every later step (compaction.ts:24-28).
FrozenNeverChanges ==
    [][sessions' = sessions =>
        \A i \in DOMAIN frozen : i \in DOMAIN frozen' /\ frozen'[i] = frozen[i]]_vars

\* A batch that was cut short left rewrites no request has shown yet, and no
\* running batch will be counted for them.
Owed ==
    /\ ~(pc = "batch" /\ compactedAny)
    /\ \E i \in 1..Len(decision.messages) :
            ApplyFrozen(transcript, frozen)[i] # decision.messages[i]

\* The provider sees an append-only conversation but for counted batches, and
\* at most one uncounted rewrite for every put that threw (compaction.ts:20-28).
View == INSTANCE PromptView
            WITH view <- decision.messages, rewrites <- batches, cuts <- faults,
                 owed <- Owed, Masked <- Placeholder

ImplementsPromptView == View!ViewSpec

\* An output whose placeholder was sent stays readable from disk, over /clear
\* and restarts; each put that throws loses at most one (cache.ts:71-83).
OnlyFaultsLoseOutputs == Cardinality(promised \ disk) =< faults

\* "Masking and compression are only acceptable because they are reversible"
\* (cache.ts:8): every placeholder ever sent can be expanded.
PromisedIsReadable == promised \subseteq memo \cup disk
=============================================================================
