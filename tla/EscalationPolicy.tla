-------------------------- MODULE EscalationPolicy --------------------------
(***************************************************************************)
(* What routing promises (packages/router/src/router.ts:5-11), stated over *)
(* the whole history of verification results instead of counters: a step   *)
(* runs on the escalation layer while the last streak of two failures has  *)
(* not been answered by two greens in a row, unless the user has pinned a  *)
(* layer.                                                                  *)
(***************************************************************************)
EXTENDS Naturals, Sequences

CONSTANTS
    Layers,          \* the model layers
    Strong           \* the escalation layer

VARIABLES
    verdicts,        \* every verification result so far, in order
    pin,             \* the user's choice, or "auto"
    layer            \* the layer of the last step

policyVars == <<verdicts, pin, layer>>

Streak(h, i, v) == h[i] = v /\ h[i - 1] = v

\* Two failures in a row at i, and since then never two greens in a row.
Escalated(h) ==
    \E i \in 2..Len(h) :
        /\ Streak(h, i, "fail")
        /\ \A j \in (i + 1)..Len(h) : ~Streak(h, j, "pass")

PolicyInit ==
    /\ verdicts = <<>>
    /\ pin = "auto"
    /\ layer = "flash"

Verify ==
    /\ \E v \in {"pass", "fail"} : verdicts' = Append(verdicts, v)
    /\ UNCHANGED <<pin, layer>>

Pin ==
    /\ pin' \in Layers \cup {"auto"}
    /\ UNCHANGED <<verdicts, layer>>

\* The pin, then the failure streak, then whatever the prompt suggests.
Step ==
    /\ layer' \in Layers
    /\ pin # "auto" => layer' = pin
    /\ pin = "auto" /\ Escalated(verdicts) => layer' = Strong
    /\ UNCHANGED <<verdicts, pin>>

PolicySpec == PolicyInit /\ [][Verify \/ Pin \/ Step]_policyVars
=============================================================================
