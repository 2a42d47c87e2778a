---------------------------- MODULE ProviderChain ----------------------------
(***************************************************************************)
(* One call of OpenRouterClient.complete (packages/ai/src/openrouter.ts):  *)
(* every model of the chain is asked up to Attempts times, with a pause    *)
(* between, until one answers, all have failed, or the fault is ours.      *)
(*                                                                         *)
(* A reply is what the client tells apart in it: the status class of the   *)
(* response, then what its body holds.  "busy" is 408, 429 or 5xx,         *)
(* "retired" a 400 that names the model, "ours" any other status; "blank"  *)
(* is a 200 whose error has no code, "broken" a body that cannot be read,  *)
(* "lost" a request that never answered.                                   *)
(***************************************************************************)
EXTENDS Naturals, Sequences, FiniteSets

CONSTANTS
    Models,          \* length of the chain
    Attempts,        \* attemptsPerModel
    OnStepMayThrow   \* whether the telemetry callback may throw

ASSUME ChainAssumption == Models \in Nat /\ Attempts \in Nat \ {0}
ASSUME OnStepAssumption == OnStepMayThrow \in BOOLEAN

VARIABLES
    stage,           \* the await complete is at, or "send", or "done"
    model,           \* the model of the running attempt, from 1
    attempt,         \* its number for that model, from 0
    status,          \* class of the response being read
    failures,        \* models given up (failures and fallbacksFrom)
    outcome,         \* "none", or how complete settled
    sent,            \* history: the model of every request
    replies,         \* history: how every attempt ended
    paid,            \* history: completions the provider generated
    reported         \* history: completions onStep was told of

place == <<model, attempt>>
trace == <<sent, replies, paid, reported>>
callVars == <<stage, place, status, failures, outcome, trace>>

Statuses == {"ok", "busy", "retired", "ours"}
Endings == {"lost", "busy", "retired", "ours", "blank", "broken", "unheard", "answer"}

CallInit ==
    /\ stage = IF Models = 0 THEN "done" ELSE "send"
    /\ outcome = IF Models = 0 THEN "exhausted" ELSE "none"
    /\ model = 1
    /\ attempt = 0
    /\ status = "ok"
    /\ failures = <<>>
    /\ sent = <<>>
    /\ replies = <<>>
    /\ paid = 0
    /\ reported = 0

-----------------------------------------------------------------------------
\* Mutant: a retired model is taken for a malformed request.
RetryableStatusOnly(ending) == ending \notin {"ours", "retired"}

\* What another model, or another try, could plausibly fix.
Retryable(ending) == ending # "ours"

LastAttempt == attempt = Attempts - 1

Refuse ==
    /\ stage' = "done"
    /\ outcome' = "refused"
    /\ UNCHANGED <<place, failures>>

Pause ==
    /\ stage' = "backoff"
    /\ UNCHANGED <<place, failures, outcome>>

\* Mutant: the number of the attempt is kept for the next model.
GiveUpKeepsAttempt ==
    /\ failures' = Append(failures, model)
    /\ \/ /\ model = Models
          /\ stage' = "done" /\ outcome' = "exhausted"
          /\ UNCHANGED place
       \/ /\ model < Models
          /\ stage' = "send" /\ model' = model + 1
          /\ UNCHANGED <<attempt, outcome>>

\* The model is given up for the next one of the chain, if there is one.
GiveUp ==
    /\ failures' = Append(failures, model)
    /\ \/ /\ model = Models
          /\ stage' = "done" /\ outcome' = "exhausted"
          /\ UNCHANGED place
       \/ /\ model < Models
          /\ stage' = "send" /\ model' = model + 1 /\ attempt' = 0
          /\ UNCHANGED outcome

\* The catch of complete.
Settle(ending) ==
    /\ replies' = Append(replies, ending)
    /\ \/ ~Retryable(ending) /\ Refuse
       \/ Retryable(ending) /\ ~LastAttempt /\ Pause
       \/ Retryable(ending) /\ LastAttempt /\ GiveUp

\* The timer is set and the request leaves.
Send ==
    /\ stage = "send"
    /\ stage' = "headers"
    /\ sent' = Append(sent, model)
    /\ UNCHANGED <<place, status, failures, outcome, replies, paid, reported>>

\* The headers arrive: the timer is cleared.
Headers ==
    /\ stage = "headers"
    /\ status' \in Statuses
    /\ stage' = IF status' = "ok" THEN "body" ELSE "detail"
    /\ UNCHANGED <<place, failures, outcome, trace>>

\* The provider may have generated the completion that is not waited for.
MayHavePaid == \E n \in {0, 1} : paid' = paid + n

\* Mutant: the request is not given the signal, so the timer ends nothing.
RequestUnaborted == stage = "headers" /\ UNCHANGED callVars

\* The timer fires before the headers and aborts the request, or the network
\* fails.
RequestLost ==
    /\ stage = "headers"
    /\ Settle("lost")
    /\ MayHavePaid
    /\ UNCHANGED <<status, sent, reported>>

\* The body of an error; a 400 whose detail cannot be read blames the request.
ReadDetail ==
    /\ stage = "detail"
    /\ \/ Settle(status)
       \/ status = "retired" /\ Settle("ours")
    /\ UNCHANGED <<status, sent, paid, reported>>

\* Mutant: the step is reported before the body is looked at.
ReadFailureReported ==
    /\ stage = "body"
    /\ \E ending \in {"busy", "retired", "ours", "blank", "broken"} : Settle(ending)
    /\ reported' = reported + 1
    /\ UNCHANGED <<status, sent, paid>>

\* The body of a 200 holds an error, or is cut off and does not parse.
ReadFailure ==
    /\ stage = "body"
    /\ \E ending \in {"busy", "retired", "ours", "blank", "broken"} :
          /\ Settle(ending)
          /\ IF ending = "broken" THEN MayHavePaid ELSE UNCHANGED paid
    /\ UNCHANGED <<status, sent, reported>>

\* A completion whose onStep throws is a failed attempt.
OnStepThrows ==
    /\ OnStepMayThrow
    /\ stage = "body"
    /\ Settle("unheard")
    /\ paid' = paid + 1
    /\ UNCHANGED <<status, sent, reported>>

Answer ==
    /\ stage = "body"
    /\ stage' = "done"
    /\ outcome' = "answered"
    /\ replies' = Append(replies, "answer")
    /\ paid' = paid + 1
    /\ reported' = reported + 1
    /\ UNCHANGED <<place, status, failures, sent>>

\* The pause between two attempts ends.
Wake ==
    /\ stage = "backoff"
    /\ stage' = "send"
    /\ attempt' = attempt + 1
    /\ UNCHANGED <<model, status, failures, outcome, trace>>

Done == stage = "done" /\ UNCHANGED callVars

ReadBody == ReadDetail \/ ReadFailure \/ OnStepThrows \/ Answer

CallNext == Send \/ Headers \/ RequestLost \/ ReadBody \/ Wake \/ Done

\* The event loop runs what is ready and the timers fire, so headers that never
\* come are given up.  A body that has begun ends or breaks, which is all the
\* network is trusted for: the client's own timer is cleared by then.
Fairness ==
    /\ WF_callVars(Send) /\ WF_callVars(RequestLost)
    /\ WF_callVars(Wake) /\ WF_callVars(ReadBody)

CallSpec == CallInit /\ [][CallNext]_callVars /\ Fairness

-----------------------------------------------------------------------------
(* Properties.                                                             *)

\* The two nested loops ask the chain in order, each model Attempts times: the
\* i-th request goes to model (i - 1) div Attempts + 1, the models given up are
\* exactly those whose tries are all spent, and the chain is exhausted only
\* after the last try of the last model (openrouter.ts:199-224).
ChainIsWalked ==
    /\ \A i \in DOMAIN sent : sent[i] = ((i - 1) \div Attempts) + 1
    /\ outcome \in {"none", "exhausted"} => Len(failures) = Len(replies) \div Attempts
    /\ \A i \in DOMAIN failures : failures[i] = i
    /\ outcome = "exhausted" => Len(sent) = Models * Attempts

\* A key or a body of ours that is at fault is reported after one request, and
\* nothing else ends the call early: neither a retired model that says so, nor
\* a busy pool, nor a callback that throws (openrouter.ts:12-16, 107-116, 204-210).
OnlyOurFaultAborts ==
    /\ \A i \in DOMAIN replies : replies[i] = "ours" => i = Len(sent)
    /\ outcome = "refused" <=> \E i \in DOMAIN replies : replies[i] = "ours"

\* Every completion is paid for once and accounted once, but for those of
\* requests that were given up: what is paid and not reported is at most one
\* completion for each lost, broken or unheard attempt (openrouter.ts:265-320).
UnreportedWereGivenUp ==
    /\ reported =< paid
    /\ paid - reported =<
          Cardinality({i \in DOMAIN replies : replies[i] \in {"lost", "broken", "unheard"}})

\* Whatever the provider does, also when no request is ever answered, the call
\* settles (openrouter.ts:183-225).
EveryCallEnds == <>(stage = "done")
=============================================================================
