------------------------------- MODULE Router -------------------------------
(***************************************************************************)
(* The layer router (packages/router/src/router.ts) and its classifier     *)
(* (classifier.ts).  A prompt is what the classifier can tell of it: the   *)
(* pattern groups it matches and the number of files it may touch.  The    *)
(* session passes no onSwitch (cli/src/session.ts:95): all that deciding   *)
(* leaves behind is the new layer.                                         *)
(***************************************************************************)
EXTENDS Naturals, Sequences, FiniteSets

CONSTANTS
    LocalAvailable,  \* the localAvailable option
    Impacts,         \* values of impactedFiles tried
    Amounts,         \* token totals of one recordUsage
    MaxVerdicts,     \* bound: verification results recorded
    MaxTokens        \* bound: tokens recorded in all

ASSUME LocalAssumption == LocalAvailable \in BOOLEAN
ASSUME ImpactsAssumption == Impacts \subseteq Nat
ASSUME AmountsAssumption == Amounts \subseteq Nat
ASSUME RouterBounds == MaxVerdicts \in Nat /\ MaxTokens \in Nat

FAILURES_TO_ESCALATE == 2
GREENS_TO_DE_ESCALATE == 2
IMPACT_ESCALATION_THRESHOLD == 12

Layers == {"local", "flash", "escalation", "byok"}

Prompts == [matches : SUBSET {"complex", "trivial", "local"}, impacted : Impacts]

VARIABLES
    pin, consecutiveFailures, consecutiveGreens, escalated, current,
    tokensByLayer,
    verdicts         \* history: the results given to recordResult

vars == <<pin, consecutiveFailures, consecutiveGreens, escalated, current,
          tokensByLayer, verdicts>>

TypeOK ==
    /\ pin \in Layers \cup {"auto"}
    /\ consecutiveFailures \in Nat
    /\ consecutiveGreens \in Nat
    /\ escalated \in BOOLEAN
    /\ current \in Layers
    /\ tokensByLayer \in [Layers -> Nat]
    /\ verdicts \in Seq({"pass", "fail"})

Init ==
    /\ pin = "auto"
    /\ consecutiveFailures = 0
    /\ consecutiveGreens = 0
    /\ escalated = FALSE
    /\ current = "flash"
    /\ tokensByLayer = [l \in Layers |-> 0]
    /\ verdicts = <<>>

-----------------------------------------------------------------------------
\* Impact outranks wording, and wording for strong work outranks the rest.
Classify(prompt) ==
    IF prompt.impacted > IMPACT_ESCALATION_THRESHOLD \/ "complex" \in prompt.matches
        THEN "escalation"
        ELSE IF prompt.matches # {} /\ LocalAvailable THEN "local" ELSE "flash"

\* Mutant: a pin gives way to an escalation.
ChoiceEscalationFirst(prompt) ==
    IF escalated THEN "escalation"
    ELSE IF pin # "auto" THEN pin ELSE Classify(prompt)

Choice(prompt) ==
    IF pin # "auto" THEN pin
    ELSE IF escalated THEN "escalation" ELSE Classify(prompt)

SetPin(p) ==
    /\ pin' = p
    /\ UNCHANGED <<consecutiveFailures, consecutiveGreens, escalated, current,
                   tokensByLayer, verdicts>>

Route(prompt) ==
    /\ current' = Choice(prompt)
    /\ UNCHANGED <<pin, consecutiveFailures, consecutiveGreens, escalated,
                   tokensByLayer, verdicts>>

Passed ==
    /\ consecutiveFailures' = 0
    /\ IF escalated /\ consecutiveGreens + 1 >= GREENS_TO_DE_ESCALATE
          THEN /\ escalated' = FALSE
               /\ consecutiveGreens' = 0
          ELSE /\ consecutiveGreens' = consecutiveGreens + 1
               /\ UNCHANGED escalated

\* Mutant: a failure leaves the streak of greens alone.
FailedKeepsGreens ==
    /\ consecutiveFailures' = consecutiveFailures + 1
    /\ escalated' = (escalated \/ consecutiveFailures + 1 >= FAILURES_TO_ESCALATE)
    /\ UNCHANGED consecutiveGreens

Failed ==
    /\ consecutiveGreens' = 0
    /\ consecutiveFailures' = consecutiveFailures + 1
    /\ escalated' = (escalated \/ consecutiveFailures + 1 >= FAILURES_TO_ESCALATE)

RecordResult(v) ==
    /\ Len(verdicts) < MaxVerdicts
    /\ verdicts' = Append(verdicts, v)
    /\ \/ v = "pass" /\ Passed
       \/ v = "fail" /\ Failed
    /\ UNCHANGED <<pin, current, tokensByLayer>>

TokensUsed == tokensByLayer["local"] + tokensByLayer["flash"]
                + tokensByLayer["escalation"] + tokensByLayer["byok"]

\* The caller passes the layer that route returned (cli/src/session.ts:325).
RecordUsage(n) ==
    /\ TokensUsed + n =< MaxTokens
    /\ tokensByLayer' = [tokensByLayer EXCEPT ![current] = @ + n]
    /\ UNCHANGED <<pin, consecutiveFailures, consecutiveGreens, escalated,
                   current, verdicts>>

Next ==
    \/ \E p \in Layers \cup {"auto"} : SetPin(p)
    \/ \E prompt \in Prompts : Route(prompt)
    \/ \E v \in {"pass", "fail"} : RecordResult(v)
    \/ \E n \in Amounts : RecordUsage(n)

Spec == Init /\ [][Next]_vars

-----------------------------------------------------------------------------
(* Properties.                                                             *)

Policy == INSTANCE EscalationPolicy WITH Strong <- "escalation", layer <- current

\* The two counters and the flag decide what the whole history of results
\* says (router.ts:106-120, SPEC.md:341-342), whatever the order of results,
\* pins and steps: pins and greens before a streak change nothing in it.
ImplementsPolicy == Policy!PolicySpec

\* The flag is the history's answer at every moment, not only when a step is
\* routed: /cost shows it between steps (router.ts:148-164).
FlagTellsHistory == escalated <=> Policy!Escalated(verdicts)
=============================================================================
