--------------------------- MODULE SessionProofs ---------------------------
(***************************************************************************)
(* Proofs about what a session asks: Router (two counters and a flag know  *)
(* exactly what the whole history of results says), ProviderChain (one     *)
(* call of the model provider, for any chain and number of attempts) and   *)
(* SessionTurns (the turns themselves, for any number of prompts, throws,  *)
(* cuts and sessions of the directory).                                    *)
(***************************************************************************)
EXTENDS SessionTurns, ProviderChain, SumLemmas

-----------------------------------------------------------------------------
(* The router.                                                             *)

EndsIn(h, v) == Len(h) > 0 /\ h[Len(h)] = v

Histories == Seq({"pass", "fail"})

(* A history that ends in one more failure is escalated iff it already was *)
(* or this failure is the second of a streak.                              *)
LEMMA OneMoreFailure ==
    ASSUME NEW h \in Histories
    PROVE  Policy!Escalated(Append(h, "fail")) <=> Policy!Escalated(h) \/ EndsIn(h, "fail")
<1> DEFINE g == Append(h, "fail")
<1>1. /\ Len(h) \in Nat
      /\ Len(g) = Len(h) + 1
      /\ \A i \in 1..Len(h) : g[i] = h[i]
      /\ g[Len(h) + 1] = "fail"
  BY DEF Histories
<1> HIDE DEF g
<1>2. ASSUME Policy!Escalated(g), ~EndsIn(h, "fail") PROVE Policy!Escalated(h)
  <2>1. PICK i \in 2..Len(g) : /\ Policy!Streak(g, i, "fail")
                               /\ \A j \in (i + 1)..Len(g) : ~Policy!Streak(g, j, "pass")
    BY <1>2 DEF Policy!Escalated
  <2>2. i # Len(h) + 1
    BY <1>1, <1>2, <2>1 DEF EndsIn, Policy!Streak
  <2>3. i \in 2..Len(h) /\ Policy!Streak(h, i, "fail")
    BY <1>1, <2>1, <2>2 DEF Policy!Streak
  <2>4. \A j \in (i + 1)..Len(h) : ~Policy!Streak(h, j, "pass")
    BY <1>1, <2>1, <2>3 DEF Policy!Streak
  <2> QED
    BY <2>3, <2>4 DEF Policy!Escalated
<1>3. ASSUME Policy!Escalated(h) PROVE Policy!Escalated(g)
  <2>1. PICK i \in 2..Len(h) : /\ Policy!Streak(h, i, "fail")
                               /\ \A j \in (i + 1)..Len(h) : ~Policy!Streak(h, j, "pass")
    BY <1>3 DEF Policy!Escalated
  <2>2. i \in 2..Len(g) /\ Policy!Streak(g, i, "fail")
    BY <1>1, <2>1 DEF Policy!Streak
  <2>3. ASSUME NEW j \in (i + 1)..Len(g) PROVE ~Policy!Streak(g, j, "pass")
    <3>1. CASE j = Len(h) + 1
      BY <1>1, <3>1 DEF Policy!Streak
    <3>2. CASE j # Len(h) + 1
      <4>1. j \in (i + 1)..Len(h) /\ j - 1 \in 1..Len(h) /\ j \in 1..Len(h)
        BY <1>1, <2>1, <3>2
      <4> QED
        BY <1>1, <2>1, <4>1 DEF Policy!Streak
    <3> QED
      BY <3>1, <3>2
  <2> QED
    BY <2>2, <2>3 DEF Policy!Escalated
<1>4. ASSUME EndsIn(h, "fail") PROVE Policy!Escalated(g)
  <2>1. Len(g) \in 2..Len(g) /\ Policy!Streak(g, Len(g), "fail")
    BY <1>1, <1>4 DEF EndsIn, Policy!Streak
  <2>2. (Len(g) + 1)..Len(g) = {}
    BY <1>1
  <2> QED
    BY <2>1, <2>2 DEF Policy!Escalated
<1> QED
  BY <1>2, <1>3, <1>4 DEF g

(* One more green ends an escalation iff it is the second in a row.        *)
LEMMA OneMoreGreen ==
    ASSUME NEW h \in Histories
    PROVE  Policy!Escalated(Append(h, "pass")) <=> Policy!Escalated(h) /\ ~EndsIn(h, "pass")
<1> DEFINE g == Append(h, "pass")
<1>1. /\ Len(h) \in Nat
      /\ Len(g) = Len(h) + 1
      /\ \A i \in 1..Len(h) : g[i] = h[i]
      /\ g[Len(h) + 1] = "pass"
  BY DEF Histories
<1> HIDE DEF g
<1>2. ASSUME Policy!Escalated(g) PROVE Policy!Escalated(h) /\ ~EndsIn(h, "pass")
  <2>1. PICK i \in 2..Len(g) : /\ Policy!Streak(g, i, "fail")
                               /\ \A j \in (i + 1)..Len(g) : ~Policy!Streak(g, j, "pass")
    BY <1>2 DEF Policy!Escalated
  <2>2. i \in 2..Len(h) /\ Policy!Streak(h, i, "fail")
    BY <1>1, <2>1 DEF Policy!Streak
  <2>3. \A j \in (i + 1)..Len(h) : ~Policy!Streak(h, j, "pass")
    BY <1>1, <2>1, <2>2 DEF Policy!Streak
  <2>4. ~Policy!Streak(g, Len(g), "pass")
    BY <1>1, <2>1, <2>2
  <2>5. ~EndsIn(h, "pass")
    BY <1>1, <2>4 DEF EndsIn, Policy!Streak
  <2> QED
    BY <2>2, <2>3, <2>5 DEF Policy!Escalated
<1>3. ASSUME Policy!Escalated(h), ~EndsIn(h, "pass") PROVE Policy!Escalated(g)
  <2>1. PICK i \in 2..Len(h) : /\ Policy!Streak(h, i, "fail")
                               /\ \A j \in (i + 1)..Len(h) : ~Policy!Streak(h, j, "pass")
    BY <1>3 DEF Policy!Escalated
  <2>2. i \in 2..Len(g) /\ Policy!Streak(g, i, "fail")
    BY <1>1, <2>1 DEF Policy!Streak
  <2>3. \A j \in (i + 1)..Len(g) : ~Policy!Streak(g, j, "pass")
    BY <1>1, <1>3, <2>1 DEF Policy!Streak, EndsIn
  <2> QED
    BY <2>2, <2>3 DEF Policy!Escalated
<1> QED
  BY <1>2, <1>3 DEF g

-----------------------------------------------------------------------------
(* The inductive invariant: what each counter knows of the history.  The   *)
(* greens matter only while the flag is up, where there is at most one.    *)
FailuresTellLast == consecutiveFailures > 0 <=> EndsIn(verdicts, "fail")

GreensTellLast ==
    escalated => /\ consecutiveGreens < GREENS_TO_DE_ESCALATE
                 /\ consecutiveGreens > 0 <=> EndsIn(verdicts, "pass")

RouterInv == TypeOK /\ FlagTellsHistory /\ FailuresTellLast /\ GreensTellLast

LEMMA InitRouterInv == Init => RouterInv
<1> SUFFICES ASSUME Init PROVE RouterInv
  OBVIOUS
<1>1. verdicts = <<>> /\ Len(verdicts) = 0
  BY DEF Init
<1>2. TypeOK
  <2>1. <<>> \in Seq({"pass", "fail"})
    OBVIOUS
  <2>2. [l \in Layers |-> 0] \in [Layers -> Nat]
    OBVIOUS
  <2> QED
    BY <2>1, <2>2 DEF Init, TypeOK, Layers
<1>3. ~Policy!Escalated(verdicts)
  BY <1>1 DEF Policy!Escalated
<1> QED
  BY <1>1, <1>2, <1>3
  DEF Init, RouterInv, FlagTellsHistory, FailuresTellLast, GreensTellLast, EndsIn

LEMMA RecordResultRouterInv ==
    ASSUME RouterInv, NEW v \in {"pass", "fail"}, RecordResult(v)
    PROVE  RouterInv'
<1>1. verdicts \in Histories /\ verdicts' = Append(verdicts, v) /\ verdicts' \in Histories
  BY DEF RecordResult, RouterInv, TypeOK, Histories
<1>2. EndsIn(verdicts', v) /\ \A w \in {"pass", "fail"} : w # v => ~EndsIn(verdicts', w)
  BY <1>1 DEF EndsIn, Histories
<1>3. EndsIn(verdicts, "fail") => ~EndsIn(verdicts, "pass")
  BY DEF EndsIn
<1>4. /\ escalated <=> Policy!Escalated(verdicts)
      /\ consecutiveFailures > 0 <=> EndsIn(verdicts, "fail")
      /\ escalated => /\ consecutiveGreens < 2
                      /\ consecutiveGreens > 0 <=> EndsIn(verdicts, "pass")
      /\ consecutiveFailures \in Nat /\ consecutiveGreens \in Nat /\ escalated \in BOOLEAN
  BY DEF RouterInv, TypeOK, FlagTellsHistory, FailuresTellLast, GreensTellLast,
         GREENS_TO_DE_ESCALATE
<1>5. TypeOK'
  <2>1. escalated' \in BOOLEAN
    BY <1>4 DEF RecordResult, Passed, Failed
  <2>2. consecutiveFailures' \in Nat /\ consecutiveGreens' \in Nat
    BY <1>4 DEF RecordResult, Passed, Failed
  <2> QED
    BY <1>1, <2>1, <2>2 DEF RecordResult, RouterInv, TypeOK, Histories
<1>6. CASE v = "fail"
  <2>1. Failed
    BY <1>6 DEF RecordResult
  <2>2. Policy!Escalated(verdicts') <=> Policy!Escalated(verdicts) \/ EndsIn(verdicts, "fail")
    BY <1>1, <1>6, OneMoreFailure
  <2>a. consecutiveFailures + 1 >= FAILURES_TO_ESCALATE <=> EndsIn(verdicts, "fail")
    BY <1>4 DEF FAILURES_TO_ESCALATE
  <2>3. escalated' <=> Policy!Escalated(verdicts')
    BY <1>4, <2>1, <2>2, <2>a, Zenon DEF Failed
  <2>4. FlagTellsHistory'
    BY <2>3 DEF FlagTellsHistory, Policy!Escalated, Policy!Streak
  <2>5. FailuresTellLast' /\ GreensTellLast'
    BY <1>2, <1>4, <1>6, <2>1
    DEF Failed, FailuresTellLast, GreensTellLast, GREENS_TO_DE_ESCALATE
  <2> QED
    BY <1>5, <2>4, <2>5 DEF RouterInv
<1>7. CASE v = "pass"
  <2>1. Passed
    BY <1>7 DEF RecordResult
  <2>2. Policy!Escalated(verdicts') <=> Policy!Escalated(verdicts) /\ ~EndsIn(verdicts, "pass")
    BY <1>1, <1>7, OneMoreGreen
  <2>3. escalated' <=> Policy!Escalated(verdicts')
    BY <1>4, <2>1, <2>2 DEF Passed, GREENS_TO_DE_ESCALATE
  <2>4. FlagTellsHistory'
    BY <2>3 DEF FlagTellsHistory, Policy!Escalated, Policy!Streak
  <2>5. FailuresTellLast' /\ GreensTellLast'
    BY <1>2, <1>4, <1>7, <2>1
    DEF Passed, FailuresTellLast, GreensTellLast, GREENS_TO_DE_ESCALATE
  <2> QED
    BY <1>5, <2>4, <2>5 DEF RouterInv
<1> QED
  BY <1>6, <1>7

(* Every other step leaves the history and what is known of it alone.      *)
LEMMA VerdictsUntouched ==
    ASSUME RouterInv, TypeOK',
           UNCHANGED <<verdicts, consecutiveFailures, consecutiveGreens, escalated>>
    PROVE  RouterInv'
  BY DEF RouterInv, FlagTellsHistory, FailuresTellLast, GreensTellLast, EndsIn,
         Policy!Escalated, Policy!Streak

LEMMA NextRouterInv == RouterInv /\ [Next]_vars => RouterInv'
<1> SUFFICES ASSUME RouterInv, [Next]_vars PROVE RouterInv'
  OBVIOUS
<1>1. ASSUME NEW p \in Layers \cup {"auto"}, SetPin(p) PROVE RouterInv'
  <2>1. TypeOK'
    BY <1>1 DEF SetPin, RouterInv, TypeOK
  <2> QED
    BY <1>1, <2>1, VerdictsUntouched DEF SetPin
<1>2. ASSUME NEW prompt \in Prompts, Route(prompt) PROVE RouterInv'
  <2>1. Choice(prompt) \in Layers
    BY DEF RouterInv, TypeOK, Choice, Classify, Layers
  <2>2. TypeOK'
    BY <1>2, <2>1 DEF Route, RouterInv, TypeOK
  <2> QED
    BY <1>2, <2>2, VerdictsUntouched DEF Route
<1>3. ASSUME NEW n \in Amounts, RecordUsage(n) PROVE RouterInv'
  <2>1. TypeOK'
    BY <1>3, AmountsAssumption DEF RecordUsage, RouterInv, TypeOK
  <2> QED
    BY <1>3, <2>1, VerdictsUntouched DEF RecordUsage
<1>4. CASE UNCHANGED vars
  <2>1. TypeOK'
    BY <1>4 DEF vars, RouterInv, TypeOK
  <2> QED
    BY <1>4, <2>1, VerdictsUntouched DEF vars
<1> QED
  BY <1>1, <1>2, <1>3, <1>4, RecordResultRouterInv DEF Next

(* In every reachable state the counters tell the history.                 *)
THEOREM RouterInvariance == Spec => []RouterInv
<1> QED
  BY InitRouterInv, NextRouterInv, PTL DEF Spec

(* The escalation flag equals the verdict of the whole history, for any    *)
(* number of results (recordResult, router.ts:106-120).                    *)
THEOREM FlagIsHistory == Spec => []FlagTellsHistory
<1>1. RouterInv => FlagTellsHistory
  BY DEF RouterInv
<1> QED
  BY RouterInvariance, <1>1, PTL

(* Routing by counters implements routing by the whole history: the pin,   *)
(* then the streak, then the classifier (route, router.ts:63-89).          *)
THEOREM PolicyRefinement == Spec => ImplementsPolicy
<1>1. Init => Policy!PolicyInit
  BY DEF Init, Policy!PolicyInit
<1>2. RouterInv /\ [Next]_vars
        => [Policy!Verify \/ Policy!Pin \/ Policy!Step]_<<verdicts, pin, current>>
  <2> SUFFICES ASSUME RouterInv, [Next]_vars
               PROVE  [Policy!Verify \/ Policy!Pin \/ Policy!Step]_<<verdicts, pin, current>>
    OBVIOUS
  <2>1. ASSUME NEW p \in Layers \cup {"auto"}, SetPin(p) PROVE Policy!Pin
    BY <2>1 DEF SetPin, Policy!Pin
  <2>2. ASSUME NEW prompt \in Prompts, Route(prompt) PROVE Policy!Step
    <3>1. Choice(prompt) \in Layers
      BY DEF RouterInv, TypeOK, Choice, Classify, Layers
    <3>2. escalated <=> Policy!Escalated(verdicts)
      BY DEF RouterInv, FlagTellsHistory
    <3> QED
      BY <2>2, <3>1, <3>2 DEF Route, Choice, Policy!Step
  <2>3. ASSUME NEW v \in {"pass", "fail"}, RecordResult(v) PROVE Policy!Verify
    BY <2>3 DEF RecordResult, Policy!Verify
  <2>4. ASSUME NEW n \in Amounts, RecordUsage(n) PROVE UNCHANGED <<verdicts, pin, current>>
    BY <2>4 DEF RecordUsage
  <2>5. ASSUME UNCHANGED vars PROVE UNCHANGED <<verdicts, pin, current>>
    BY <2>5 DEF vars
  <2> QED
    BY <2>1, <2>2, <2>3, <2>4, <2>5 DEF Next
<1> QED
  BY RouterInvariance, <1>1, <1>2, PTL DEF Spec, ImplementsPolicy, Policy!PolicySpec, Policy!policyVars

-----------------------------------------------------------------------------
(* One call of the provider.                                               *)

Stages == {"send", "headers", "detail", "body", "backoff", "done"}

\* Tries before the one at hand.
Tried == (model - 1) * Attempts + attempt

ChainTypes ==
    /\ stage \in Stages
    /\ model \in Nat \ {0} /\ attempt \in 0..(Attempts - 1)
    /\ status \in Statuses
    /\ failures \in Seq(Nat)
    /\ outcome \in {"none", "exhausted", "refused", "answered"}
    /\ outcome = "none" <=> stage # "done"
    /\ sent \in Seq(Nat) /\ replies \in Seq(Endings)
    /\ paid \in Nat /\ reported \in Nat

\* Where in the two loops the call is, told by the lengths of what it has done.
Walked ==
    /\ IF Models = 0 THEN stage = "done" /\ Tried = 0 ELSE model =< Models
    /\ stage = "backoff" => attempt < Attempts - 1
    /\ stage = "detail" => status # "ok"
    /\ outcome = "exhausted" => Models = 0 \/ (model = Models /\ attempt = Attempts - 1)
    /\ Len(sent) = IF stage = "send" \/ Models = 0 THEN Tried ELSE Tried + 1
    /\ Len(replies) = IF stage \in {"backoff", "done"} THEN Len(sent) ELSE Tried
    /\ Len(failures) = IF outcome = "exhausted" THEN Models ELSE model - 1
    /\ \A i \in DOMAIN failures : failures[i] = i
    /\ \A i \in DOMAIN sent : sent[i] = ((i - 1) \div Attempts) + 1

\* A fault of ours is the last thing that happens.
OursIsLast ==
    /\ \A i \in DOMAIN replies : replies[i] = "ours" => outcome = "refused" /\ i = Len(replies)
    /\ outcome = "refused" => Len(replies) > 0 /\ replies[Len(replies)] = "ours"

GivenUp(endings) ==
    {i \in DOMAIN endings : endings[i] \in {"lost", "broken", "unheard"}}

Accounted ==
    /\ reported =< paid
    /\ paid - reported =< Cardinality(GivenUp(replies))

ChainInv == ChainTypes /\ Walked /\ OursIsLast /\ Accounted

LEMMA Quotient ==
  ASSUME NEW q \in Nat, NEW r \in 0..(Attempts - 1)
  PROVE  (q * Attempts + r) \div Attempts = q
<1> DEFINE A == Attempts
<1>1. A \in Nat /\ A > 0
  BY ChainAssumption
<1> DEFINE x == q * A + r
           d == x \div A
<1>2. q * A \in Nat /\ r \in Nat
  BY <1>1
<1>3. x \in Nat
  BY <1>2
<1>4. d \in Int /\ x = A * d + (x % A) /\ x % A \in 0..(A - 1)
  BY <1>1, <1>3
<1>5. d = q
  <2>1. A * d + (x % A) = A * q + r
    BY <1>1, <1>4
  <2>2. A * (d - q) = r - (x % A)
    BY <1>1, <1>4, <2>1
  <2>3. ~(d - q >= 1)
    <3> SUFFICES ASSUME d - q >= 1 PROVE FALSE
      OBVIOUS
    <3>1. A * (d - q) >= A
      BY <1>1, <1>4
    <3> QED BY <1>1, <1>4, <2>2, <3>1
  <2>4. ~(d - q =< -1)
    <3> SUFFICES ASSUME d - q =< -1 PROVE FALSE
      OBVIOUS
    <3>1. A * (d - q) =< -A
      BY <1>1, <1>4
    <3> QED BY <1>1, <1>4, <2>2, <3>1
  <2> QED BY <1>4, <2>3, <2>4
<1> QED BY <1>5

LEMMA OneMoreEnding ==
  ASSUME NEW h \in Seq(Endings), NEW e \in Endings
  PROVE  /\ IsFiniteSet(GivenUp(h)) /\ Cardinality(GivenUp(h)) \in Nat
         /\ e \in {"lost", "broken", "unheard"} =>
               Cardinality(GivenUp(Append(h, e))) = Cardinality(GivenUp(h)) + 1
         /\ Cardinality(GivenUp(Append(h, e))) >= Cardinality(GivenUp(h))
<1>1. /\ Len(h) \in Nat /\ DOMAIN h = 1..Len(h)
      /\ DOMAIN Append(h, e) = 1..(Len(h) + 1)
      /\ \A i \in 1..Len(h) : Append(h, e)[i] = h[i]
      /\ Append(h, e)[Len(h) + 1] = e
  OBVIOUS
<1> DEFINE S == GivenUp(h)
           n == Len(h) + 1
<1>2. S \subseteq 1..Len(h) /\ n \notin S
  BY <1>1 DEF GivenUp
<1>3. IsFiniteSet(S) /\ Cardinality(S) \in Nat
  <2>0. Len(h) \in Nat
    BY <1>1
  <2>1. IsFiniteSet(1..Len(h))
    BY <2>0, FS_Interval
  <2> QED BY <1>2, <2>1, FS_Subset, FS_CardinalityType
<1>4. Cardinality(S \cup {n}) = Cardinality(S) + 1
  BY <1>2, <1>3, FS_AddElement
<1>5. GivenUp(Append(h, e)) = IF e \in {"lost", "broken", "unheard"} THEN S \cup {n} ELSE S
  BY <1>1 DEF GivenUp
<1> QED BY <1>3, <1>4, <1>5

\* What the catch of complete does to the loops.
LEMMA SettleWalks ==
  ASSUME ChainTypes, Walked, OursIsLast, stage \in {"headers", "detail", "body"},
         NEW ending \in Endings \ {"answer"}, Settle(ending), UNCHANGED sent
  PROVE  /\ stage' \in {"send", "backoff", "done"}
         /\ model' \in Nat \ {0} /\ attempt' \in 0..(Attempts - 1)
         /\ failures' \in Seq(Nat)
         /\ outcome' \in {"none", "exhausted", "refused", "answered"}
         /\ outcome' = "none" <=> stage' # "done"
         /\ replies' = Append(replies, ending) /\ replies' \in Seq(Endings)
         /\ Walked' /\ OursIsLast'
<1> USE ChainAssumption
<1>0. /\ Models \in Nat \ {0} /\ Attempts \in Nat \ {0}
      /\ model \in Nat \ {0} /\ model =< Models /\ attempt \in 0..(Attempts - 1)
      /\ outcome = "none" /\ failures \in Seq(Nat) /\ replies \in Seq(Endings)
      /\ Len(failures) = model - 1 /\ Len(replies) = Tried /\ Len(sent) = Tried + 1
      /\ Tried \in Nat
  <2>1. /\ model \in Nat \ {0} /\ attempt \in 0..(Attempts - 1)
        /\ outcome = "none" /\ failures \in Seq(Nat) /\ replies \in Seq(Endings)
    BY DEF ChainTypes
  <2>2. /\ model =< Models /\ Models \in Nat \ {0}
    BY <2>1 DEF Walked
  <2>3. /\ Len(failures) = model - 1 /\ Len(replies) = Tried /\ Len(sent) = Tried + 1
    BY <2>1, <2>2 DEF Walked
  <2>4. (model - 1) * Attempts \in Nat
    BY <2>1
  <2>5. Tried \in Nat
    BY <2>1, <2>4 DEF Tried
  <2> QED BY <2>1, <2>2, <2>3, <2>5
<1>1. /\ replies' = Append(replies, ending) /\ replies' \in Seq(Endings)
      /\ Len(replies') = Tried + 1
      /\ DOMAIN replies = 1..Tried /\ DOMAIN replies' = 1..(Tried + 1)
      /\ \A i \in 1..Tried : replies'[i] = replies[i]
      /\ replies'[Tried + 1] = ending
      /\ \A i \in 1..Tried : replies[i] # "ours"
  <2>1. \A i \in DOMAIN replies : replies[i] # "ours"
    BY <1>0 DEF OursIsLast
  <2>2. ending \in Endings /\ replies' = Append(replies, ending)
    BY DEF Settle
  <2>3. DOMAIN replies = 1..Tried
    BY <1>0
  <2>4. \A i \in 1..Tried : replies[i] # "ours"
    BY <2>1, <2>3
  <2>5. /\ replies' \in Seq(Endings)
        /\ Len(replies') = Tried + 1
        /\ DOMAIN replies' = 1..(Tried + 1)
    BY <1>0, <2>2
  <2>6. /\ \A i \in 1..Tried : replies'[i] = replies[i]
        /\ replies'[Tried + 1] = ending
    BY <1>0, <2>2
  <2> QED BY <2>2, <2>3, <2>4, <2>5, <2>6
<1>2. CASE ending = "ours"
  <2>1. /\ stage' = "done" /\ outcome' = "refused"
        /\ model' = model /\ attempt' = attempt /\ failures' = failures
    BY <1>2 DEF Settle, Retryable, Refuse, place
  <2>2. Walked'
    BY <1>0, <1>1, <2>1 DEF Walked, Tried
  <2>3. OursIsLast'
    BY <1>0, <1>1, <1>2, <2>1 DEF OursIsLast
  <2> QED BY <1>0, <1>1, <2>1, <2>2, <2>3
<1>3. CASE ending # "ours" /\ attempt # Attempts - 1
  <2>1. /\ stage' = "backoff" /\ outcome' = outcome
        /\ model' = model /\ attempt' = attempt /\ failures' = failures
    BY <1>3 DEF Settle, Retryable, LastAttempt, Pause, place
  <2>2. Walked'
    BY <1>0, <1>1, <1>3, <2>1 DEF Walked, Tried
  <2>3. OursIsLast'
    BY <1>0, <1>1, <1>3, <2>1 DEF OursIsLast
  <2> QED BY <1>0, <1>1, <2>1, <2>2, <2>3
<1>4. CASE ending # "ours" /\ attempt = Attempts - 1
  <2>1. GiveUp
    BY <1>4 DEF Settle, Retryable, LastAttempt
  <2>2. /\ failures' = Append(failures, model) /\ failures' \in Seq(Nat)
        /\ Len(failures') = model
        /\ DOMAIN failures = 1..(model - 1) /\ DOMAIN failures' = 1..model
        /\ \A i \in 1..(model - 1) : failures'[i] = failures[i]
        /\ failures'[model] = model
    BY <1>0, <2>1 DEF GiveUp
  <2>3. \A i \in DOMAIN failures' : failures'[i] = i
    <3>1. \A i \in DOMAIN failures : failures[i] = i
      BY DEF Walked
    <3> QED BY <1>0, <2>2, <3>1
  <2>4. Tried + 1 = model * Attempts
    BY <1>0, <1>4 DEF Tried
  <2>5. CASE model = Models
    <3>1. /\ stage' = "done" /\ outcome' = "exhausted"
          /\ model' = model /\ attempt' = attempt
      BY <1>0, <2>1, <2>5 DEF GiveUp, place
    <3>2. Walked'
      BY <1>0, <1>1, <1>4, <2>2, <2>3, <2>5, <3>1 DEF Walked, Tried
    <3>3. OursIsLast'
      BY <1>0, <1>1, <1>4, <3>1 DEF OursIsLast
    <3> QED BY <1>0, <1>1, <2>2, <3>1, <3>2, <3>3
  <2>6. CASE model < Models
    <3>1. /\ stage' = "send" /\ outcome' = outcome
          /\ model' = model + 1 /\ attempt' = 0
      BY <1>0, <2>1, <2>6 DEF GiveUp
    <3>2. Tried' = Tried + 1
      BY <1>0, <2>4, <3>1 DEF Tried
    <3>3. Walked'
      BY <1>0, <1>1, <2>2, <2>3, <2>6, <3>1, <3>2 DEF Walked
    <3>4. OursIsLast'
      BY <1>0, <1>1, <1>4, <3>1 DEF OursIsLast
    <3> QED BY <1>0, <1>1, <2>2, <3>1, <3>3, <3>4
  <2> QED BY <1>0, <2>5, <2>6
<1> QED BY <1>2, <1>3, <1>4

LEMMA ChainInitInv == CallInit => ChainInv
<1> SUFFICES ASSUME CallInit PROVE ChainInv
  OBVIOUS
<1> USE ChainAssumption
<1>1. /\ failures = <<>> /\ sent = <<>> /\ replies = <<>>
      /\ failures \in Seq(Nat) /\ sent \in Seq(Nat) /\ replies \in Seq(Endings)
      /\ Len(failures) = 0 /\ Len(sent) = 0 /\ Len(replies) = 0
      /\ DOMAIN failures = {} /\ DOMAIN sent = {} /\ DOMAIN replies = {}
  BY DEF CallInit
<1>2. ChainTypes
  BY <1>1 DEF CallInit, ChainTypes, Stages, Statuses
<1>3. model = 1 /\ attempt = 0 /\ Tried = 0
  BY DEF CallInit, Tried
<1>4. Walked
  BY <1>1, <1>3 DEF CallInit, Walked
<1>5. OursIsLast
  BY <1>1 DEF CallInit, OursIsLast
<1>6. GivenUp(replies) = {}
  BY <1>1 DEF GivenUp
<1>7. Accounted
  BY <1>6, FS_EmptySet DEF CallInit, Accounted
<1> QED BY <1>2, <1>4, <1>5, <1>7 DEF ChainInv

\* A step that ends an attempt without an answer, when what may have been paid
\* for is not more than the attempts given up.
LEMMA FailedAttempt ==
  ASSUME ChainInv, stage \in {"headers", "detail", "body"},
         NEW ending \in Endings \ {"answer"}, Settle(ending), UNCHANGED <<status, sent, reported>>,
         \/ paid' = paid
         \/ paid' = paid + 1 /\ ending \in {"lost", "broken", "unheard"}
  PROVE  ChainInv'
<1>0. ChainTypes /\ Walked /\ OursIsLast /\ Accounted
  BY DEF ChainInv
<1>1. /\ stage' \in {"send", "backoff", "done"}
      /\ model' \in Nat \ {0} /\ attempt' \in 0..(Attempts - 1)
      /\ failures' \in Seq(Nat)
      /\ outcome' \in {"none", "exhausted", "refused", "answered"}
      /\ outcome' = "none" <=> stage' # "done"
      /\ replies' = Append(replies, ending) /\ replies' \in Seq(Endings)
      /\ Walked' /\ OursIsLast'
  BY <1>0, SettleWalks
<1>2. ChainTypes'
  BY <1>0, <1>1 DEF ChainTypes, Stages
<1>3. /\ Cardinality(GivenUp(replies)) \in Nat
      /\ Cardinality(GivenUp(Append(replies, ending))) \in Nat
      /\ ending \in {"lost", "broken", "unheard"} =>
               Cardinality(GivenUp(Append(replies, ending))) = Cardinality(GivenUp(replies)) + 1
      /\ Cardinality(GivenUp(Append(replies, ending))) >= Cardinality(GivenUp(replies))
  <2>1. replies \in Seq(Endings) /\ Append(replies, ending) \in Seq(Endings) /\ ending \in Endings
    BY <1>0, <1>1 DEF ChainTypes
  <2> QED BY <2>1, OneMoreEnding
<1>4. Accounted'
  <2>1. paid \in Nat /\ reported \in Nat
    BY <1>0 DEF ChainTypes
  <2>2. GivenUp(replies)' = GivenUp(Append(replies, ending))
    BY <1>1 DEF GivenUp
  <2>3. reported =< paid /\ paid - reported =< Cardinality(GivenUp(replies))
    BY <1>0 DEF Accounted
  <2>4. reported' = reported /\ reported' =< paid'
    BY <2>1, <2>3
  <2>5. paid' - reported' =< Cardinality(GivenUp(Append(replies, ending)))
    BY <1>3, <2>1, <2>3, <2>4
  <2> QED BY <2>2, <2>4, <2>5 DEF Accounted
<1> QED BY <1>1, <1>2, <1>4 DEF ChainInv

LEMMA ChainStepInv == ChainInv /\ [CallNext]_callVars => ChainInv'
<1> SUFFICES ASSUME ChainInv, [CallNext]_callVars PROVE ChainInv'
  OBVIOUS
<1> USE ChainAssumption
<1>0. ChainTypes /\ Walked /\ OursIsLast /\ Accounted
  BY DEF ChainInv
<1>1. CASE Send
  <2>1. /\ stage = "send" /\ stage' = "headers" /\ sent' = Append(sent, model)
        /\ UNCHANGED <<model, attempt, status, failures, outcome, replies, paid, reported>>
    BY <1>1 DEF Send, place
  <2>2. /\ model \in Nat \ {0} /\ model =< Models /\ attempt \in 0..(Attempts - 1)
        /\ sent \in Seq(Nat) /\ Len(sent) = Tried
    BY <1>0, <2>1 DEF ChainTypes, Walked
  <2>3. /\ sent' \in Seq(Nat) /\ Len(sent') = Tried + 1
        /\ DOMAIN sent = 1..Tried /\ DOMAIN sent' = 1..(Tried + 1)
        /\ \A i \in 1..Tried : sent'[i] = sent[i]
        /\ sent'[Tried + 1] = model
        /\ Tried \in Nat
    BY <2>1, <2>2
  <2>4. model = (Tried \div Attempts) + 1
    <3>1. model - 1 \in Nat
      BY <2>2
    <3> QED BY <2>2, <3>1, Quotient DEF Tried
  <2>5. \A i \in DOMAIN sent' : sent'[i] = ((i - 1) \div Attempts) + 1
    <3> SUFFICES ASSUME NEW i \in 1..(Tried + 1)
                 PROVE  sent'[i] = ((i - 1) \div Attempts) + 1
      BY <2>3
    <3>1. CASE i = Tried + 1
      <4>1. i - 1 = Tried
        BY <2>3, <3>1
      <4> QED BY <2>3, <2>4, <3>1, <4>1
    <3>2. CASE i # Tried + 1
      <4>1. i \in 1..Tried
        BY <2>3, <3>2
      <4>2. sent[i] = ((i - 1) \div Attempts) + 1
        BY <1>0, <2>3, <4>1 DEF Walked
      <4> QED BY <2>3, <4>1, <4>2
    <3> QED BY <3>1, <3>2
  <2>6. ChainTypes'
    BY <1>0, <2>1, <2>3 DEF ChainTypes, Stages
  <2>7. Walked'
    <3>1. Tried' = Tried
      BY <2>1 DEF Tried
    <3> QED BY <1>0, <2>1, <2>2, <2>3, <2>5, <3>1 DEF Walked
  <2>8. OursIsLast' /\ Accounted'
    BY <1>0, <2>1 DEF OursIsLast, Accounted, GivenUp
  <2> QED BY <2>6, <2>7, <2>8 DEF ChainInv
<1>2. CASE Headers
  <2>1. /\ stage = "headers" /\ status' \in Statuses
        /\ stage' = IF status' = "ok" THEN "body" ELSE "detail"
        /\ UNCHANGED <<model, attempt, failures, outcome, sent, replies, paid, reported>>
    BY <1>2 DEF Headers, place, trace
  <2>2. ChainTypes'
    BY <1>0, <2>1 DEF ChainTypes, Stages
  <2>3. Walked'
    <3>1. Tried' = Tried
      BY <2>1 DEF Tried
    <3> QED BY <1>0, <2>1, <3>1 DEF Walked
  <2>4. OursIsLast' /\ Accounted'
    BY <1>0, <2>1 DEF OursIsLast, Accounted, GivenUp
  <2> QED BY <2>2, <2>3, <2>4 DEF ChainInv
<1>3. CASE RequestLost
  <2>1. /\ stage = "headers" /\ Settle("lost") /\ UNCHANGED <<status, sent, reported>>
        /\ "lost" \in Endings \ {"answer"}
    BY <1>3 DEF RequestLost, Endings
  <2>2. paid' = paid \/ paid' = paid + 1
    BY <1>0, <1>3 DEF RequestLost, MayHavePaid, ChainTypes
  <2> QED BY <2>1, <2>2, FailedAttempt
<1>4. CASE ReadDetail
  <2>1. stage = "detail" /\ UNCHANGED <<status, sent, paid, reported>>
    BY <1>4 DEF ReadDetail
  <2>2. PICK ending \in Endings \ {"answer"} : Settle(ending)
    <3>1. status \in Endings \ {"answer"} /\ "ours" \in Endings \ {"answer"}
      BY <1>0, <2>1 DEF ChainTypes, Walked, Statuses, Endings
    <3> QED BY <1>4, <3>1 DEF ReadDetail
  <2> QED BY <2>1, <2>2, FailedAttempt
<1>5. CASE ReadFailure
  <2>1. stage = "body" /\ UNCHANGED <<status, sent, reported>>
    BY <1>5 DEF ReadFailure
  <2>2. PICK ending \in {"busy", "retired", "ours", "blank", "broken"} :
           /\ Settle(ending)
           /\ IF ending = "broken" THEN MayHavePaid ELSE UNCHANGED paid
    BY <1>5 DEF ReadFailure
  <2>3. ending \in Endings \ {"answer"}
    BY DEF Endings
  <2>4. paid' = paid \/ (paid' = paid + 1 /\ ending = "broken")
    BY <1>0, <2>2 DEF MayHavePaid, ChainTypes
  <2> QED BY <2>1, <2>2, <2>3, <2>4, FailedAttempt
<1>6. CASE OnStepThrows
  <2>1. /\ stage = "body" /\ Settle("unheard") /\ paid' = paid + 1
        /\ UNCHANGED <<status, sent, reported>>
        /\ "unheard" \in Endings \ {"answer"}
    BY <1>6 DEF OnStepThrows, Endings
  <2> QED BY <2>1, FailedAttempt
<1>7. CASE Answer
  <2>1. /\ stage = "body" /\ stage' = "done" /\ outcome' = "answered"
        /\ replies' = Append(replies, "answer") /\ "answer" \in Endings
        /\ paid' = paid + 1 /\ reported' = reported + 1
        /\ UNCHANGED <<model, attempt, status, failures, sent>>
    BY <1>7 DEF Answer, place, Endings
  <2>2. /\ model \in Nat \ {0} /\ model =< Models /\ Models # 0
        /\ outcome = "none" /\ replies \in Seq(Endings)
        /\ Len(replies) = Tried /\ Len(sent) = Tried + 1
    BY <1>0, <2>1 DEF ChainTypes, Walked
  <2>3. replies' \in Seq(Endings) /\ Len(replies') = Len(replies) + 1
    BY <2>1, <2>2
  <2>4. ChainTypes'
    BY <1>0, <2>1, <2>3 DEF ChainTypes, Stages
  <2>5. Walked'
    <3>1. Tried' = Tried
      BY <2>1 DEF Tried
    <3> QED BY <1>0, <2>1, <2>2, <2>3, <3>1 DEF Walked
  <2>6. OursIsLast'
    <3>1. \A i \in DOMAIN replies : replies[i] # "ours"
      BY <1>0, <2>2 DEF OursIsLast
    <3>2. \A i \in DOMAIN replies' : replies'[i] # "ours"
      BY <2>1, <2>2, <3>1
    <3> QED BY <2>1, <3>2 DEF OursIsLast
  <2>7. Accounted'
    <3>1. /\ Cardinality(GivenUp(replies)) \in Nat
          /\ Cardinality(GivenUp(Append(replies, "answer"))) >= Cardinality(GivenUp(replies))
      BY <2>1, <2>2, OneMoreEnding
    <3>2. Cardinality(GivenUp(Append(replies, "answer"))) \in Nat
      BY <2>1, <2>3, OneMoreEnding
    <3>3. GivenUp(replies)' = GivenUp(Append(replies, "answer"))
      BY <2>1 DEF GivenUp
    <3>4. /\ paid \in Nat /\ reported \in Nat /\ reported =< paid
          /\ paid - reported =< Cardinality(GivenUp(replies))
      BY <1>0 DEF ChainTypes, Accounted
    <3>5. /\ reported' =< paid'
          /\ paid' - reported' =< Cardinality(GivenUp(Append(replies, "answer")))
      BY <2>1, <3>1, <3>2, <3>4
    <3> QED BY <3>3, <3>5 DEF Accounted
  <2> QED BY <2>4, <2>5, <2>6, <2>7 DEF ChainInv
<1>8. CASE Wake
  <2>1. /\ stage = "backoff" /\ stage' = "send" /\ attempt' = attempt + 1
        /\ UNCHANGED <<model, status, failures, outcome, sent, replies, paid, reported>>
    BY <1>8 DEF Wake, trace
  <2>2. /\ model \in Nat \ {0} /\ model =< Models /\ Models # 0
        /\ attempt \in 0..(Attempts - 1) /\ attempt < Attempts - 1
        /\ Len(replies) = Len(sent) /\ Len(sent) = Tried + 1
    BY <1>0, <2>1 DEF ChainTypes, Walked
  <2>3. Tried' = Tried + 1
    BY <2>1, <2>2 DEF Tried
  <2>4. ChainTypes'
    BY <1>0, <2>1, <2>2 DEF ChainTypes, Stages
  <2>5. Walked'
    BY <1>0, <2>1, <2>2, <2>3, <2>4 DEF Walked, ChainTypes
  <2>6. OursIsLast' /\ Accounted'
    BY <1>0, <2>1 DEF OursIsLast, Accounted, GivenUp
  <2> QED BY <2>4, <2>5, <2>6 DEF ChainInv
<1>9. CASE UNCHANGED callVars
  <2>1. /\ UNCHANGED <<stage, model, attempt, status, failures, outcome, sent, replies, paid,
                       reported>>
    BY <1>9 DEF callVars, place, trace
  <2>2. ChainTypes'
    BY <1>0, <2>1 DEF ChainTypes
  <2>3. Walked'
    BY <1>0, <2>1 DEF Walked, Tried
  <2>4. OursIsLast' /\ Accounted'
    BY <1>0, <2>1 DEF OursIsLast, Accounted, GivenUp
  <2> QED BY <2>2, <2>3, <2>4 DEF ChainInv
<1> QED BY <1>1, <1>2, <1>3, <1>4, <1>5, <1>6, <1>7, <1>8, <1>9 DEF CallNext, ReadBody, Done

THEOREM ChainInvariance == CallSpec => []ChainInv
<1> QED BY ChainInitInv, ChainStepInv, PTL DEF CallSpec

\* The nested loops ask the chain in order, each model Attempts times, for
\* chains and attempts of any number (openrouter.ts:199-224).
THEOREM ChainOrder == CallSpec => []ChainIsWalked
<1>1. ChainInv => ChainIsWalked
  <2> SUFFICES ASSUME ChainInv PROVE ChainIsWalked
    OBVIOUS
  <2>0. ChainTypes /\ Walked
    BY DEF ChainInv
  <2>1. /\ model \in Nat \ {0} /\ attempt \in 0..(Attempts - 1) /\ Models \in Nat
        /\ Attempts \in Nat \ {0}
    BY <2>0, ChainAssumption DEF ChainTypes
  <2>2. outcome = "exhausted" => Len(sent) = Models * Attempts /\ Len(replies) = Models * Attempts
    <3> SUFFICES ASSUME outcome = "exhausted"
                 PROVE  Len(sent) = Models * Attempts /\ Len(replies) = Len(sent)
      OBVIOUS
    <3>1. stage = "done" /\ Len(replies) = Len(sent)
      BY <2>0 DEF ChainTypes, Walked
    <3>2. CASE Models = 0
      <4>1. outcome = "exhausted" => Len(sent) = 0
        BY <2>0, <2>1, <3>2 DEF Walked
      <4> QED BY <2>1, <3>1, <3>2, <4>1
    <3>3. CASE Models # 0
      <4>1. model = Models /\ attempt = Attempts - 1 /\ Len(sent) = Tried + 1
        BY <2>0, <3>1, <3>3 DEF Walked
      <4>2. Tried + 1 = Models * Attempts
        BY <2>1, <4>1 DEF Tried
      <4> QED BY <3>1, <4>1, <4>2
    <3> QED BY <3>2, <3>3
  <2>3. (Models * Attempts) \div Attempts = Models
    <3>1. 0 \in 0..(Attempts - 1) /\ Models * Attempts + 0 = Models * Attempts
      BY <2>1
    <3> QED BY <2>1, <3>1, Quotient
  <2>4. outcome = "none" => Len(failures) = Len(replies) \div Attempts
    <3> SUFFICES ASSUME outcome = "none" PROVE model - 1 = Len(replies) \div Attempts
      BY <2>0 DEF Walked
    <3>1. model - 1 \in Nat
      BY <2>1
    <3>2. CASE stage # "backoff"
      <4>1. Len(replies) = Tried
        BY <2>0, <3>2 DEF ChainTypes, Walked
      <4> QED BY <2>1, <3>1, <4>1, Quotient DEF Tried
    <3>3. CASE stage = "backoff"
      <4>1. Len(replies) = Tried + 1 /\ attempt + 1 \in 0..(Attempts - 1)
        BY <2>0, <2>1, <3>3 DEF Walked
      <4>2. Tried + 1 = (model - 1) * Attempts + (attempt + 1)
        BY <2>1 DEF Tried
      <4>3. ((model - 1) * Attempts + (attempt + 1)) \div Attempts = model - 1
        BY <3>1, <4>1, Quotient
      <4> QED BY <4>1, <4>2, <4>3
    <3> QED BY <3>2, <3>3
  <2>5. outcome = "exhausted" => Len(failures) = Len(replies) \div Attempts
    BY <2>0, <2>2, <2>3 DEF Walked
  <2> QED BY <2>0, <2>2, <2>4, <2>5 DEF Walked, ChainIsWalked
<1> QED BY <1>1, ChainInvariance, PTL

\* Nothing but a fault of ours ends the call early, and it always does
\* (openrouter.ts:107-116, 204-210).
THEOREM Aborting == CallSpec => []OnlyOurFaultAborts
<1>1. ChainInv => OnlyOurFaultAborts
  <2> SUFFICES ASSUME ChainInv PROVE OnlyOurFaultAborts
    OBVIOUS
  <2>1. ChainTypes /\ Walked /\ OursIsLast
    BY DEF ChainInv
  <2>2. ASSUME NEW i \in DOMAIN replies, replies[i] = "ours"
        PROVE  outcome = "refused" /\ i = Len(sent)
    <3>1. outcome = "refused" /\ i = Len(replies)
      BY <2>1, <2>2 DEF OursIsLast
    <3>2. stage = "done"
      BY <2>1, <3>1 DEF ChainTypes
    <3> QED BY <2>1, <3>1, <3>2 DEF Walked
  <2>3. outcome = "refused" => \E i \in DOMAIN replies : replies[i] = "ours"
    <3>1. replies \in Seq(Endings)
      BY <2>1 DEF ChainTypes
    <3> QED BY <2>1, <3>1 DEF OursIsLast
  <2> QED BY <2>2, <2>3 DEF OnlyOurFaultAborts
<1> QED BY <1>1, ChainInvariance, PTL

\* What is paid for and not reported belongs to attempts given up, one each
\* (openrouter.ts:265-320).
THEOREM Accounting == CallSpec => []UnreportedWereGivenUp
<1>1. ChainInv => UnreportedWereGivenUp
  BY DEF ChainInv, Accounted, GivenUp, UnreportedWereGivenUp
<1> QED BY <1>1, ChainInvariance, PTL

-----------------------------------------------------------------------------
(* The turns of a session.                                                 *)
(* Files of lines in R, and what an append makes of them.                  *)
FileOf(R) == [lines : Seq(R \cup {Garbled}), tail : R \cup {Garbled, NoTail}]

OpenTail(f) == IF f.tail = NoTail THEN 0 ELSE 1

TornIn(v) == {i \in DOMAIN v : v[i] = Garbled}

LEMMA AppendedFile ==
  ASSUME NEW R, NoTail \notin R, Garbled \notin R, NEW f \in FileOf(R), NEW r \in R
  PROVE  LET g == AppendLine(f, r) IN
         /\ g \in FileOf(R)
         /\ g.tail = NoTail
         /\ g.lines = Append(f.lines, Glue(f.tail, r))
         /\ Glue(f.tail, r) \in R \cup {Garbled}
BY LinesDiffer DEF FileOf, AppendLine, Glue

LEMMA CutFile ==
  ASSUME NEW R, NEW f \in FileOf(R), NEW r \in R, NEW g \in CutAppends(f, r)
  PROVE  /\ g \in FileOf(R)
         /\ g.lines = f.lines
         /\ g.tail \in {f.tail, Garbled, Glue(f.tail, r)}
BY DEF FileOf, CutAppends, Glue

LEMMA AtMostOneMore ==
  ASSUME NEW S, IsFiniteSet(S), NEW x
  PROVE  /\ IsFiniteSet(S \cup {x})
         /\ Cardinality(S) \in Nat /\ Cardinality(S \cup {x}) \in Nat
         /\ Cardinality(S \cup {x}) =< Cardinality(S) + 1
<1>1. IsFiniteSet(S \cup {x})
  BY FS_AddElement
<1>2. Cardinality(S) \in Nat /\ Cardinality(S \cup {x}) \in Nat
  BY <1>1, FS_CardinalityType
<1>3. CASE x \in S
  <2>1. S \cup {x} = S
    BY <1>3
  <2>2. Cardinality(S \cup {x}) = Cardinality(S)
    BY <2>1, Zenon
  <2> QED BY <1>1, <1>2, <2>2
<1>4. CASE x \notin S
  <2>1. Cardinality(S \cup {x}) = Cardinality(S) + 1
    BY <1>4, FS_AddElement
  <2> QED BY <1>1, <1>2, <2>1
<1> QED BY <1>3, <1>4

\* One more line in a sequence of them.
LEMMA OneMoreLine ==
  ASSUME NEW R, NEW v \in Seq(R), NEW x \in R
  PROVE  /\ Append(v, x) \in Seq(R)
         /\ Len(v) \in Nat
         /\ DOMAIN v = 1..Len(v)
         /\ Len(v) + 1 \notin DOMAIN v
         /\ DOMAIN Append(v, x) = DOMAIN v \cup {Len(v) + 1}
         /\ \A i \in DOMAIN v : Append(v, x)[i] = v[i]
         /\ Append(v, x)[Len(v) + 1] = x
         /\ Len(Append(v, x)) = Len(v) + 1
OBVIOUS

LEMMA TornFinite ==
  ASSUME NEW R, NEW v \in Seq(R)
  PROVE  IsFiniteSet(TornIn(v)) /\ Cardinality(TornIn(v)) \in Nat
<1>1. IsFiniteSet(1..Len(v))
  BY FS_Interval
<1>2. TornIn(v) \subseteq 1..Len(v)
  BY DEF TornIn
<1>3. IsFiniteSet(TornIn(v))
  BY <1>1, <1>2, FS_Subset
<1> QED BY <1>3, FS_CardinalityType

LEMMA TornMore ==
  ASSUME NEW R, NEW v \in Seq(R), NEW x \in R
  PROVE  Cardinality(TornIn(Append(v, x)))
           = Cardinality(TornIn(v)) + (IF x = Garbled THEN 1 ELSE 0)
<1>1. IsFiniteSet(TornIn(v)) /\ Cardinality(TornIn(v)) \in Nat
  BY TornFinite
<1>2. CASE x = Garbled
  <2>1. TornIn(Append(v, x)) = TornIn(v) \cup {Len(v) + 1}
    BY <1>2, OneMoreLine DEF TornIn
  <2>2. Len(v) + 1 \notin TornIn(v)
    BY OneMoreLine DEF TornIn
  <2>3. Cardinality(TornIn(v) \cup {Len(v) + 1}) = Cardinality(TornIn(v)) + 1
    BY <1>1, <2>2, FS_AddElement
  <2> QED BY <1>2, <2>1, <2>3
<1>3. CASE x # Garbled
  <2>1. TornIn(Append(v, x)) = TornIn(v)
    BY <1>3, OneMoreLine DEF TornIn
  <2> QED BY <1>1, <1>3, <2>1
<1> QED BY <1>2, <1>3

-----------------------------------------------------------------------------
(* What the report says of a layer, line by line.                          *)
Mine(v, l) ==
    {i \in DOMAIN v : v[i] \in StepRecord /\ v[i].session = Own /\ v[i].layer = l}

Spent(v, l) == SumFunctionOnSet([i \in Mine(v, l) |-> v[i].tokens], Mine(v, l))

Weight(x, l) ==
    IF x \in StepRecord /\ x.session = Own /\ x.layer = l THEN x.tokens ELSE 0

LEMMA MineFinite ==
  ASSUME NEW R, NEW v \in Seq(R), NEW l
  PROVE  IsFiniteSet(Mine(v, l))
<1>1. IsFiniteSet(1..Len(v))
  BY FS_Interval
<1>2. Mine(v, l) \subseteq 1..Len(v)
  BY DEF Mine
<1> QED BY <1>1, <1>2, FS_Subset

LEMMA SpentIsNat ==
  ASSUME NEW R, NEW v \in Seq(R), NEW l
  PROVE  Spent(v, l) \in Nat
<1> DEFINE c == [i \in Mine(v, l) |-> v[i].tokens]
<1>1. \A i \in Mine(v, l) : c[i] \in Nat
  BY DEF Mine, StepRecord
<1> HIDE DEF c
<1>2. SumFunctionOnSet(c, Mine(v, l)) \in Nat
  BY <1>1, MineFinite, SumIsNat
<1> QED BY <1>2 DEF Spent, c

LEMMA WeightIsNat == ASSUME NEW x, NEW l PROVE Weight(x, l) \in Nat
BY DEF Weight, StepRecord

LEMMA SpentMore ==
  ASSUME NEW R, NEW v \in Seq(R), NEW x \in R, NEW l
  PROVE  Spent(Append(v, x), l) = Spent(v, l) + Weight(x, l)
<1> DEFINE w == Append(v, x)
           c == [i \in Mine(v, l) |-> v[i].tokens]
           d == [i \in Mine(w, l) |-> w[i].tokens]
           n == Len(v) + 1
<1>1. /\ DOMAIN w = DOMAIN v \cup {n} /\ n \notin DOMAIN v /\ w[n] = x
      /\ \A i \in DOMAIN v : w[i] = v[i]
  BY OneMoreLine
<1> HIDE DEF w, n
<1>2. IsFiniteSet(Mine(v, l)) /\ n \notin Mine(v, l)
  BY <1>1, MineFinite DEF Mine
<1>3. CASE x \in StepRecord /\ x.session = Own /\ x.layer = l
  <2>1. Mine(w, l) = Mine(v, l) \cup {n}
    BY <1>1, <1>3 DEF Mine
  <2>2. \A i \in Mine(v, l) \cup {n} : d[i] \in Nat
    BY <2>1 DEF Mine, StepRecord
  <2>3. d[n] = x.tokens /\ \A i \in Mine(v, l) : d[i] = c[i]
    BY <1>1, <2>1 DEF Mine
  <2> HIDE DEF c, d
  <2>4. SumFunctionOnSet(d, Mine(v, l) \cup {n}) = SumFunctionOnSet(d, Mine(v, l)) + d[n]
    BY <1>2, <2>2, SumOfMore
  <2>5. SumFunctionOnSet(d, Mine(v, l)) = SumFunctionOnSet(c, Mine(v, l))
    BY <1>2, <2>3, SumsAgree
  <2>6. Spent(w, l) = SumFunctionOnSet(d, Mine(w, l))
    BY DEF Spent, d
  <2>7. Spent(v, l) = SumFunctionOnSet(c, Mine(v, l))
    BY DEF Spent, c
  <2>8. Weight(x, l) = x.tokens
    BY <1>3 DEF Weight
  <2>9. Spent(w, l) = Spent(v, l) + Weight(x, l)
    BY <2>1, <2>3, <2>4, <2>5, <2>6, <2>7, <2>8
  <2> QED BY <2>9 DEF w
<1>4. CASE ~(x \in StepRecord /\ x.session = Own /\ x.layer = l)
  <2>1. Mine(w, l) = Mine(v, l)
    BY <1>1, <1>4 DEF Mine
  <2>2. \A i \in Mine(v, l) : d[i] = c[i]
    BY <1>1, <2>1 DEF Mine
  <2> HIDE DEF c, d
  <2>3. SumFunctionOnSet(d, Mine(v, l)) = SumFunctionOnSet(c, Mine(v, l))
    BY <1>2, <2>2, SumsAgree
  <2>4. Spent(w, l) = SumFunctionOnSet(d, Mine(w, l))
    BY DEF Spent, d
  <2>5. Spent(v, l) = SumFunctionOnSet(c, Mine(v, l))
    BY DEF Spent, c
  <2>6. Spent(w, l) = Spent(v, l) /\ Weight(x, l) = 0
    BY <1>4, <2>1, <2>3, <2>4, <2>5 DEF Weight
  <2>7. Spent(v, l) \in Nat
    BY SpentIsNat
  <2>8. Spent(w, l) = Spent(v, l) + Weight(x, l)
    BY <2>6, <2>7
  <2> QED BY <2>8 DEF w
<1> QED BY <1>3, <1>4

LEMMA Unweighed ==
  ASSUME NEW l
  PROVE  Weight(Garbled, l) = 0 /\ Weight(NoTail, l) = 0
BY LinesDiffer DEF Weight

TelemetryFile == FileOf(StepRecord)

AnyLine == StepRecord \cup {Garbled}

LEMMA ViewOfFile ==
  ASSUME NEW f \in TelemetryFile
  PROVE  /\ f.lines \in Seq(AnyLine)
         /\ AllLines(f) \in Seq(AnyLine)
         /\ f.tail # NoTail => f.tail \in AnyLine /\ AllLines(f) = Append(f.lines, f.tail)
         /\ f.tail = NoTail => AllLines(f) = f.lines
BY LinesDiffer DEF TelemetryFile, FileOf, AllLines, AnyLine

LEMMA SpentInView ==
  ASSUME NEW f \in TelemetryFile, NEW l
  PROVE  Spent(AllLines(f), l) = Spent(f.lines, l) + Weight(f.tail, l)
<1>1. CASE f.tail = NoTail
  BY <1>1, ViewOfFile, Unweighed, SpentIsNat
<1>2. CASE f.tail # NoTail
  BY <1>2, ViewOfFile, SpentMore
<1> QED BY <1>1, <1>2

\* `/cost` sums the readable lines of the session, layer by layer.
LEMMA CostReported ==
  ASSUME NEW f \in TelemetryFile
  PROVE  /\ costReport(f, Own).session.byLayer = [l \in LAYERS |-> Spent(AllLines(f), l)]
         /\ costReport(f, Own).skipped = Cardinality(TornIn(AllLines(f)))
         /\ readEvents(f).events
              = [i \in DOMAIN AllLines(f) \ TornIn(AllLines(f)) |-> AllLines(f)[i]]
<1> DEFINE v == AllLines(f)
           readable == {i \in DOMAIN v : v[i] # Garbled /\ Valid(v[i])}
<1>1. v \in Seq(AnyLine)
  BY ViewOfFile
<1>2. \A i \in DOMAIN v : v[i] \in AnyLine
  BY <1>1
<1>3. \A e \in StepRecord : Valid(e) /\ e.type = "step"
  BY DEF Valid, StepRecord
<1>4. readable = DOMAIN v \ TornIn(v)
  BY <1>2, <1>3, LinesDiffer DEF TornIn, AnyLine
<1>5. readEvents(f) = [events |-> [i \in readable |-> v[i]],
                       skipped |-> Cardinality(DOMAIN v \ readable)]
  BY DEF readEvents, Restrict
<1>6. DOMAIN v \ readable = TornIn(v)
  BY <1>4 DEF TornIn
<1> DEFINE events == [i \in readable |-> v[i]]
           own1 == forSession(events, Own)
           mine == {i \in readable : v[i].session = Own}
<1>7. own1 = [i \in mine |-> v[i]]
  BY DEF forSession, RestrictValues, Restrict
<1>8. \A i \in readable : v[i] \in StepRecord
  BY <1>2, <1>4 DEF TornIn, AnyLine
<1>9. RestrictValues(own1, isStep) = [i \in mine |-> v[i]]
  BY <1>3, <1>7, <1>8 DEF RestrictValues, Restrict, isStep
<1>10. \A l \in LAYERS : {i \in mine : v[i].layer = l} = Mine(v, l)
  BY <1>4, <1>8, LinesDiffer DEF Mine, TornIn
<1>11. aggregate(own1).byLayer
         = [l \in LAYERS |-> SumFunction([i \in {j \in mine : v[j].layer = l} |-> v[i].tokens])]
  BY <1>9, ZenonT(60) DEF aggregate
<1>12. ASSUME NEW l \in LAYERS
       PROVE  SumFunction([i \in {j \in mine : v[j].layer = l} |-> v[i].tokens]) = Spent(v, l)
  <2>1. SumFunction([i \in {j \in mine : v[j].layer = l} |-> v[i].tokens])
          = SumFunction([i \in Mine(v, l) |-> v[i].tokens])
    BY <1>10
  <2> QED BY <2>1 DEF SumFunction, Spent
<1>13. aggregate(own1).byLayer = [l \in LAYERS |-> Spent(v, l)]
  BY <1>11, <1>12
<1> QED BY <1>5, <1>6, <1>4, <1>13, SMTT(40) DEF costReport

-----------------------------------------------------------------------------
(* The invariants of a session.                                            *)
TranscriptMessage == [id : Nat, role : {"user", "assistant", "toolResult"}]

SessionTypes ==
    /\ TypeOK
    /\ pc \in {"idle", "agent", "journal", "sink", "killed"}
    /\ transcript \in Seq(TranscriptMessage)
    /\ journaled \in Nat /\ lastAssistantIndex \in Nat /\ pos \in Nat
    /\ journal \in FileOf(Nat) /\ telemetry \in TelemetryFile
    /\ turns \in Nat /\ faults \in Nat /\ clears \in Nat /\ others \in Nat
    /\ made \in Nat /\ returned \in Nat
    /\ billed \in [Layers -> Nat]
    /\ acked \in SUBSET Nat /\ IsFiniteSet(acked)

\* The transcript is the end of the conversation, what is journaled is a part
\* of it, and the loop is behind its end.
Positions ==
    /\ returned =< made /\ Len(transcript) =< made
    /\ \A i \in DOMAIN transcript : transcript[i].id = (made - Len(transcript)) + i
    /\ journaled =< Len(transcript)
    /\ lastAssistantIndex =< Assistants
    /\ pc = "journal" => /\ journaled < Len(transcript)
                         /\ journaled < pos /\ pos =< Len(transcript) + 1

\* How far the loop, or the last one that ended well, has come.
Through == IF pc = "journal" THEN pos - 1 ELSE journaled

\* When nothing throws, the journal is the conversation up to there.
JournalClean ==
    faults = 0 =>
        /\ \A k \in DOMAIN journal.lines : journal.lines[k] = k
        /\ returned =< Len(journal.lines)
        /\ pc # "killed" => /\ journal.tail = NoTail
                            /\ Len(journal.lines) = (made - Len(transcript)) + Through
                            /\ pc # "journal" => journaled = Len(transcript)

\* Of the first n messages of t, those that are not among the lines v.
MissingIn(t, v, n) == {t[i].id : i \in 1..n} \ {v[k] : k \in DOMAIN v}

OpenJournal == IF pc = "killed" THEN 0 ELSE OpenTail(journal)

\* A message journalled and not in the file was glued to a tail a fault left.
JournalHeals ==
    /\ IsFiniteSet(MissingIn(transcript, journal.lines, Through))
    /\ Cardinality(MissingIn(transcript, journal.lines, Through)) + OpenJournal =< faults

\* The steps a that no readable line of v tells.
UnseenIn(a, v) == a \ {v[i].id : i \in DOMAIN v \ TornIn(v)}

Killed == IF pc = "killed" THEN 1 ELSE 0

TelemetryTears ==
    /\ Cardinality(UnseenIn(acked, telemetry.lines)) =< Cardinality(TornIn(telemetry.lines))
    /\ Cardinality(TornIn(telemetry.lines)) + OpenTail(telemetry) =< faults + Killed

\* What the step event of the turn will add.
Pending(l) == IF pc = "sink" THEN Weight(StepEvent, l) ELSE 0

\* What a report would say of a layer.
SeenIn(f, l) == Spent(f.lines, l) + Weight(f.tail, l)

CountedOnce ==
    /\ \A l \in Layers : SeenIn(telemetry, l) + Pending(l) =< tokensByLayer[l]
    /\ Total(tokensByLayer) + Fresh =< Total(billed)

\* Where the requests of the turn are before Account.
Uncounted(l) == IF l = current THEN Fresh ELSE 0

CountedAll ==
    faults = 0 /\ pc # "killed" =>
        /\ telemetry.tail = NoTail
        /\ Cardinality(TornIn(telemetry.lines)) = 0
        /\ pc # "journal" => Fresh = 0
        /\ \A l \in Layers : /\ billed[l] = tokensByLayer[l] + Uncounted(l)
                             /\ tokensByLayer[l] = SeenIn(telemetry, l) + Pending(l)

SessionInv ==
    /\ SessionTypes /\ Positions
    /\ JournalClean /\ JournalHeals
    /\ TelemetryTears
    /\ CountedOnce /\ CountedAll

-----------------------------------------------------------------------------
AssistantsIn(t) == {i \in DOMAIN t : t[i].role = "assistant"}

LEMMA AssistantsAreNat ==
  ASSUME NEW t \in Seq(TranscriptMessage)
  PROVE  IsFiniteSet(AssistantsIn(t)) /\ Cardinality(AssistantsIn(t)) \in Nat
<1>1. IsFiniteSet(1..Len(t))
  BY FS_Interval
<1>2. AssistantsIn(t) \subseteq 1..Len(t)
  BY DEF AssistantsIn
<1>3. IsFiniteSet(AssistantsIn(t))
  BY <1>1, <1>2, FS_Subset
<1> QED BY <1>3, FS_CardinalityType

\* The messages of a turn: every second one is a reply.
TurnOf(m, count, rounds) ==
    [i \in 1..count |-> Message(m + i, TurnRoles(rounds)[i])]

LEMMA MessageType ==
  ASSUME NEW a \in Nat, NEW r \in {"user", "assistant", "toolResult"}
  PROVE  [id |-> a, role |-> r] \in TranscriptMessage
BY DEF TranscriptMessage

IsTurn(s, m, count) ==
    /\ s \in Seq(TranscriptMessage) /\ Len(s) = count
    /\ \A i \in 1..count : s[i].id = m + i
    /\ \A i \in 1..count : s[i].role = "assistant" <=> i \in {2, 4}

LEMMA TurnMessages ==
  ASSUME NEW m \in Nat, NEW rounds \in {1, 2}, NEW count \in {1, 2, 4},
         count =< 2 * rounds
  PROVE  IsTurn(TurnOf(m, count, rounds), m, count)
<1> DEFINE s == TurnOf(m, count, rounds)
<1>1. \A i \in 1..count : i \in 1..(2 * rounds) /\ i \in {1, 2, 3, 4}
  OBVIOUS
<1>2. \A i \in 1..count : TurnRoles(rounds)[i] = IF i = 1 THEN "user"
                            ELSE IF i % 2 = 0 THEN "assistant" ELSE "toolResult"
  BY <1>1 DEF TurnRoles
<1>3. 1 % 2 = 1 /\ 2 % 2 = 0 /\ 3 % 2 = 1 /\ 4 % 2 = 0
  OBVIOUS
<1>4. \A i \in 1..count : /\ TurnRoles(rounds)[i] \in {"user", "assistant", "toolResult"}
                          /\ TurnRoles(rounds)[i] = "assistant" <=> i \in {2, 4}
  <2> SUFFICES ASSUME NEW i \in 1..count
               PROVE  /\ TurnRoles(rounds)[i] \in {"user", "assistant", "toolResult"}
                      /\ TurnRoles(rounds)[i] = "assistant" <=> i \in {2, 4}
    OBVIOUS
  <2>1. i \in {1, 2, 3, 4}
    BY <1>1
  <2> QED BY <1>2, <1>3, <2>1
<1>5. \A i \in 1..count : s[i] = [id |-> m + i, role |-> TurnRoles(rounds)[i]]
  BY DEF Message, TurnOf
<1>6. ASSUME NEW i \in 1..count PROVE s[i] \in TranscriptMessage
  <2>1. m + i \in Nat
    OBVIOUS
  <2>2. s[i] = [id |-> m + i, role |-> TurnRoles(rounds)[i]]
    BY <1>5
  <2>3. TurnRoles(rounds)[i] \in {"user", "assistant", "toolResult"}
    BY <1>4
  <2> QED BY <2>1, <2>2, <2>3, MessageType
<1>7. DOMAIN s = 1..count /\ s = [i \in 1..count |-> s[i]]
  BY Zenon DEF TurnOf
<1> HIDE DEF s
<1>8. s \in [1..count -> TranscriptMessage] /\ count \in Nat
  BY <1>6, <1>7
<1>9. s \in Seq(TranscriptMessage) /\ Len(s) = count
  BY <1>8
<1>10. ASSUME NEW i \in 1..count
       PROVE  s[i].id = m + i /\ (s[i].role = "assistant" <=> i \in {2, 4})
  <2>1. s[i] = [id |-> m + i, role |-> TurnRoles(rounds)[i]]
    BY <1>5
  <2>2. TurnRoles(rounds)[i] = "assistant" <=> i \in {2, 4}
    BY <1>4
  <2> QED BY <2>1, <2>2
<1> QED BY <1>9, <1>10 DEF s, IsTurn

\* u is t and a turn after it.
IsLanding(t, m, count, u) ==
    /\ u \in Seq(TranscriptMessage)
    /\ Len(u) = Len(t) + count
    /\ \A i \in 1..Len(t) : u[i] = t[i]
    /\ \A i \in 1..count : u[Len(t) + i].id = m + i
    /\ Cardinality(AssistantsIn(u)) = Cardinality(AssistantsIn(t)) + (count \div 2)

LEMMA Landed ==
  ASSUME NEW t \in Seq(TranscriptMessage), NEW m \in Nat, NEW count \in {1, 2, 4},
         NEW s, IsTurn(s, m, count)
  PROVE  IsLanding(t, m, count, t \o s)
<1>a. s \in Seq(TranscriptMessage) /\ Len(s) = count
  BY DEF IsTurn
<1>b. \A i \in 1..count : s[i].id = m + i
  BY DEF IsTurn
<1>c. \A i \in 1..count : s[i].role = "assistant" <=> i \in {2, 4}
  BY DEF IsTurn
<1> DEFINE u == t \o s
           A == AssistantsIn(t)
           B == AssistantsIn(u)
           n == Len(t)
<1>1. /\ u \in Seq(TranscriptMessage) /\ Len(u) = n + count
      /\ DOMAIN u = 1..(n + count) /\ DOMAIN t = 1..n /\ n \in Nat
      /\ \A i \in 1..n : u[i] = t[i]
      /\ \A i \in 1..count : u[n + i] = s[i]
  BY <1>a
<1>2. IsFiniteSet(A) /\ Cardinality(A) \in Nat
  BY AssistantsAreNat, Zenon
<1> HIDE DEF u, n
<1>3. A = {i \in 1..n : t[i].role = "assistant"}
  BY <1>1 DEF AssistantsIn
<1>4. B = {i \in 1..(n + count) : u[i].role = "assistant"}
  BY <1>1 DEF AssistantsIn
<1> HIDE DEF A, B
<1>5. \A i \in 1..n : i \in B <=> i \in A
  BY <1>1, <1>3, <1>4
<1>6. ASSUME NEW i \in 1..count PROVE n + i \in B <=> i \in {2, 4}
  <2>1. n + i \in 1..(n + count) /\ u[n + i] = s[i]
    BY <1>1
  <2>2. n + i \in B <=> u[n + i].role = "assistant"
    BY <1>4, <2>1
  <2>3. s[i].role = "assistant" <=> i \in {2, 4}
    BY <1>c
  <2> QED BY <2>1, <2>2, <2>3, Zenon
<1>7. \A i \in B : i \in 1..n \/ \E j \in 1..count : i = n + j
  <2> SUFFICES ASSUME NEW i \in 1..(n + count), i \notin 1..n
               PROVE  \E j \in 1..count : i = n + j
    BY <1>4
  <2>1. i - n \in 1..count /\ i = n + (i - n)
    BY <1>1
  <2> QED BY <2>1
<1>8. \A i \in B : i \in A \/ \E j \in 1..count : j \in {2, 4} /\ i = n + j
  BY <1>5, <1>6, <1>7
<1>9. A \subseteq B /\ A \subseteq 1..n
  BY <1>3, <1>5
<1>10. n + 2 \notin A /\ n + 4 \notin A \cup {n + 2}
  BY <1>1, <1>9
<1>11. 1 \div 2 = 0 /\ 2 \div 2 = 1 /\ 4 \div 2 = 2
  OBVIOUS
<1>12. Cardinality(B) = Cardinality(A) + (count \div 2)
  <2>1. CASE count = 1
    <3>1. \A j \in 1..count : j \notin {2, 4}
      BY <2>1
    <3>2. B = A
      BY <1>8, <1>9, <3>1
    <3> QED BY <1>2, <1>11, <2>1, <3>2
  <2>2. CASE count = 2
    <3>1. \A j \in 1..count : j \in {2, 4} => j = 2
      BY <2>2
    <3>2. \A i \in B : i \in A \/ i = n + 2
      BY <1>8, <3>1
    <3>3. n + 2 \in B
      BY <1>6, <2>2
    <3>4. B = A \cup {n + 2}
      BY <1>9, <3>2, <3>3
    <3>5. Cardinality(A \cup {n + 2}) = Cardinality(A) + 1
      BY <1>2, <1>10, FS_AddElement
    <3> QED BY <1>2, <1>11, <2>2, <3>4, <3>5
  <2>3. CASE count = 4
    <3>1. \A i \in B : i \in A \/ i = n + 2 \/ i = n + 4
      BY <1>8
    <3>2. n + 2 \in B /\ n + 4 \in B
      BY <1>6, <2>3
    <3>3. B = (A \cup {n + 2}) \cup {n + 4}
      BY <1>9, <3>1, <3>2
    <3>4. IsFiniteSet(A \cup {n + 2})
      BY <1>2, FS_AddElement
    <3>5. Cardinality(A \cup {n + 2}) = Cardinality(A) + 1
      BY <1>2, <1>10, FS_AddElement
    <3>6. Cardinality((A \cup {n + 2}) \cup {n + 4}) = Cardinality(A \cup {n + 2}) + 1
      BY <1>10, <3>4, FS_AddElement
    <3>7. Cardinality(B) = Cardinality(A) + 2
      BY <1>2, <3>3, <3>5, <3>6
    <3> QED BY <1>11, <2>3, <3>7
  <2> QED BY <2>1, <2>2, <2>3
<1>13. \A i \in 1..count : u[n + i].id = m + i
  BY <1>b, <1>1
<1> QED BY <1>1, <1>12, <1>13 DEF u, n, A, B, IsLanding

\* The two ways a prompt's messages land.
LEMMA LandFacts ==
  ASSUME SessionTypes, NEW rounds \in {1, 2}, NEW count \in {1, 2, 4},
         count =< 2 * rounds, Land(count, rounds)
  PROVE  /\ transcript' \in Seq(TranscriptMessage)
         /\ Len(transcript') = Len(transcript) + count
         /\ \A i \in 1..Len(transcript) : transcript'[i] = transcript[i]
         /\ \A i \in 1..count : transcript'[Len(transcript) + i].id = made + i
         /\ Assistants \in Nat /\ Assistants' = Assistants + (count \div 2)
         /\ made' = made + count
         /\ billed' = [billed EXCEPT ![current] = @ + count \div 2]
         /\ count \div 2 \in Nat
         /\ billed' \in [Layers -> Nat]
<1>1. transcript \in Seq(TranscriptMessage) /\ made \in Nat
  BY DEF SessionTypes
<1>2. transcript' = transcript \o [i \in 1..count |-> Message(made + i, TurnRoles(rounds)[i])]
  BY DEF Land
<1>3. IsLanding(transcript, made, count, transcript')
  <2>1. IsTurn(TurnOf(made, count, rounds), made, count)
    BY <1>1, TurnMessages
  <2>2. IsLanding(transcript, made, count, transcript \o TurnOf(made, count, rounds))
    BY <1>1, <2>1, Landed
  <2> QED BY <1>2, <2>2, Zenon DEF TurnOf
<1>d. /\ made' = made + count
      /\ billed' = [billed EXCEPT ![current] = @ + count \div 2]
  BY DEF Land
<1>4. Cardinality(AssistantsIn(transcript)) \in Nat
  BY <1>1, AssistantsAreNat
<1>5. Assistants = Cardinality(AssistantsIn(transcript))
  BY DEF Assistants, AssistantsIn
<1>6. Assistants' = Cardinality(AssistantsIn(transcript'))
  BY DEF Assistants, AssistantsIn
<1>7. count \div 2 \in Nat
  OBVIOUS
<1>8. billed' \in [Layers -> Nat]
  <2> DEFINE half == count \div 2
  <2>1. half \in Nat /\ billed' = [billed EXCEPT ![current] = @ + half]
    BY <1>d, <1>7
  <2> HIDE DEF half
  <2>2. billed \in [Layers -> Nat] /\ current \in Layers
    BY DEF SessionTypes, TypeOK
  <2>3. billed[current] + half \in Nat
    BY <2>1, <2>2
  <2> QED BY <2>1, <2>2, <2>3, Zenon
<1>9. /\ transcript' \in Seq(TranscriptMessage)
      /\ Len(transcript') = Len(transcript) + count
      /\ \A i \in 1..Len(transcript) : transcript'[i] = transcript[i]
      /\ \A i \in 1..count : transcript'[Len(transcript) + i].id = made + i
      /\ Assistants \in Nat /\ Assistants' = Assistants + (count \div 2)
  BY <1>3, <1>4, <1>5, <1>6 DEF IsLanding
<1> QED BY <1>d, <1>7, <1>8, <1>9

-----------------------------------------------------------------------------
(* Types.                                                                  *)
LEMMA UsageTypes ==
  ASSUME TypeOK, NEW n \in Nat, RecordUsage(n)
  PROVE  TypeOK' /\ tokensByLayer' = [tokensByLayer EXCEPT ![current] = @ + n]
                 /\ current' = current
BY DEF TypeOK, RecordUsage

LEMMA RouteTypes ==
  ASSUME TypeOK, NEW prompt, Route(prompt)
  PROVE  TypeOK' /\ tokensByLayer' = tokensByLayer
<1>1. Choice(prompt) \in Layers
  BY DEF TypeOK, Choice, Classify, Layers
<1> QED BY <1>1 DEF TypeOK, Route

LEMMA PinTypes ==
  ASSUME TypeOK, NEW p \in Pins, SetPin(p)
  PROVE  TypeOK' /\ tokensByLayer' = tokensByLayer /\ current' = current
BY PinsAssumption DEF TypeOK, SetPin

LEMMA RouterTypesStay ==
  ASSUME TypeOK, UNCHANGED vars
  PROVE  TypeOK' /\ tokensByLayer' = tokensByLayer /\ current' = current
BY DEF TypeOK, vars

LEMMA SameLayers == Layers = LAYERS
BY DEF Layers, LAYERS

LEMMA StepRecords ==
  ASSUME SessionTypes
  PROVE  StepEvent \in StepRecord /\ OtherStep \in StepRecord
<1>1. turns \in Nat /\ pos \in Nat /\ others \in Nat /\ current \in LAYERS
  BY SameLayers DEF SessionTypes, TypeOK
<1>2. MaxTurns + others + 1 \in Nat /\ "flash" \in LAYERS
  BY <1>1, SessionBounds DEF LAYERS
<1> QED BY <1>1, <1>2 DEF StepEvent, OtherStep, Step, StepRecord

LEMMA FreshIsNat ==
  ASSUME SessionTypes, Positions
  PROVE  Fresh \in Nat /\ Assistants \in Nat /\ Assistants = lastAssistantIndex + Fresh
<1>1. Cardinality(AssistantsIn(transcript)) \in Nat
  BY AssistantsAreNat DEF SessionTypes
<1>2. Assistants \in Nat
  BY <1>1 DEF Assistants, AssistantsIn
<1> QED BY <1>2 DEF SessionTypes, Positions, Fresh

\* What the next line of the journal is.
LEMMA NextLine ==
  ASSUME SessionTypes, Positions, pc = "journal", pos =< Len(transcript)
  PROVE  /\ pos \in DOMAIN transcript
         /\ transcript[pos].id = (made - Len(transcript)) + pos
         /\ transcript[pos].id \in Nat
<1>1. pos \in 1..Len(transcript) /\ Len(transcript) \in Nat
  BY DEF SessionTypes, Positions
<1> QED BY <1>1 DEF SessionTypes, Positions, TranscriptMessage

LEMMA JournalAppended ==
  ASSUME NEW f \in FileOf(Nat), NEW n \in Nat
  PROVE  /\ AppendLine(f, n) \in FileOf(Nat)
         /\ AppendLine(f, n).tail = NoTail
         /\ AppendLine(f, n).lines = Append(f.lines, Glue(f.tail, n))
         /\ Glue(f.tail, n) \in Nat \cup {Garbled}
         /\ f.lines \in Seq(Nat \cup {Garbled})
BY LinesDiffer, AppendedFile DEF FileOf

LEMMA TelemetryRecorded ==
  ASSUME NEW f \in TelemetryFile, NEW e \in StepRecord, NEW g \in record(f, e)
  PROVE  /\ g \in TelemetryFile
         /\ g.tail = NoTail
         /\ g.lines = Append(f.lines, Glue(f.tail, e))
         /\ Glue(f.tail, e) \in AnyLine
         /\ f.lines \in Seq(AnyLine)
<1>1. g = AppendLine(f, e)
  BY DEF record
<1>2. f \in FileOf(StepRecord) /\ NoTail \notin StepRecord /\ Garbled \notin StepRecord
  BY LinesDiffer DEF TelemetryFile
<1>3. /\ g \in FileOf(StepRecord) /\ g.tail = NoTail
      /\ g.lines = Append(f.lines, Glue(f.tail, e))
      /\ Glue(f.tail, e) \in StepRecord \cup {Garbled}
  BY <1>1, <1>2, AppendedFile
<1> QED BY <1>3, ViewOfFile DEF TelemetryFile, AnyLine

LEMMA TelemetryCut ==
  ASSUME NEW f \in TelemetryFile, NEW e \in StepRecord,
         NEW g, g \in recordThrows(f, e) \/ g \in CutAppends(f, e)
  PROVE  /\ g \in TelemetryFile
         /\ g.lines = f.lines
         /\ g.tail \in {f.tail, Garbled, Glue(f.tail, e)}
<1>1. Valid(e)
  BY DEF Valid, StepRecord
<1>2. g \in CutAppends(f, e)
  BY <1>1 DEF recordThrows
<1>3. f \in FileOf(StepRecord)
  BY DEF TelemetryFile
<1>4. g \in FileOf(StepRecord) /\ g.lines = f.lines /\ g.tail \in {f.tail, Garbled, Glue(f.tail, e)}
  BY <1>2, <1>3, CutFile
<1> QED BY <1>4 DEF TelemetryFile

(***************************************************************************)
(* The types survive each step.                                            *)
(***************************************************************************)
LEMMA TypesStep == ASSUME SessionTypes, Positions, [SNext]_svars PROVE SessionTypes'
<1>a. TypeOK /\ journal \in FileOf(Nat) /\ telemetry \in TelemetryFile
  BY DEF SessionTypes
<1>1. ASSUME NEW prompt \in PromptsTried, BeginPrompt(prompt) PROVE SessionTypes'
  <2>1. TypeOK'
    BY <1>1, RouteTypes, <1>a DEF BeginPrompt
  <2> QED BY <1>1, <2>1 DEF SessionTypes, BeginPrompt, history
<1>2. ASSUME NEW rounds \in {1, 2}, AgentReturns(rounds) PROVE SessionTypes'
  <2>a. 2 * rounds \in {1, 2, 4}
    OBVIOUS
  <2>1. Land(2 * rounds, rounds) /\ UNCHANGED vars
    BY <1>2 DEF AgentReturns
  <2>2. /\ transcript' \in Seq(TranscriptMessage) /\ made' = made + 2 * rounds
        /\ billed' \in [Layers -> Nat]
    BY <2>a, <2>1, LandFacts
  <2>3. TypeOK'
    BY <1>a, <2>1, RouterTypesStay
  <2>4. made' \in Nat
    BY <2>2 DEF SessionTypes
  <2> QED BY <1>2, <2>2, <2>3, <2>4 DEF SessionTypes, AgentReturns, bounds
<1>3. ASSUME NEW count \in {1, 2}, AgentThrows(count) PROVE SessionTypes'
  <2>1. Land(count, 2) /\ count \in {1, 2, 4} /\ UNCHANGED vars /\ faults' = faults + 1
    BY <1>3 DEF AgentThrows, Fault
  <2>2. /\ transcript' \in Seq(TranscriptMessage) /\ made' = made + count
        /\ billed' \in [Layers -> Nat]
    BY <2>1, LandFacts
  <2>3. TypeOK'
    BY <1>a, <2>1, RouterTypesStay
  <2>4. made' \in Nat
    BY <2>2 DEF SessionTypes
  <2> QED BY <1>3, <2>1, <2>2, <2>3, <2>4 DEF SessionTypes, AgentThrows
<1>4. CASE JournalNext
  <2>1. journal' \in FileOf(Nat)
    BY <1>4, <1>a, NextLine, JournalAppended DEF JournalNext
  <2>2. TypeOK'
    BY <1>4, RouterTypesStay, <1>a DEF JournalNext
  <2> QED BY <1>4, <2>1, <2>2 DEF SessionTypes, JournalNext, bounds, history
<1>5. CASE JournalThrows
  <2>1. journal' \in FileOf(Nat)
    BY <1>5, <1>a, NextLine, CutFile DEF JournalThrows
  <2>2. TypeOK'
    BY <1>5, RouterTypesStay, <1>a DEF JournalThrows
  <2> QED BY <1>5, <2>1, <2>2 DEF SessionTypes, JournalThrows, Fault, history
<1>6. CASE Account
  <2>1. TypeOK'
    BY <1>6, FreshIsNat, UsageTypes, <1>a DEF Account
  <2>2. Fresh \in Nat /\ Assistants \in Nat
    BY FreshIsNat
  <2> QED BY <1>6, <2>1, <2>2 DEF SessionTypes, Account, bounds, history
<1>7. CASE RecordStep
  <2>1. telemetry' \in TelemetryFile
    BY <1>7, <1>a, StepRecords, TelemetryRecorded DEF RecordStep
  <2>2. TypeOK'
    BY <1>7, RouterTypesStay, <1>a DEF RecordStep
  <2>3. StepEvent.id \in Nat
    BY StepRecords DEF StepRecord
  <2>4. acked' \in SUBSET Nat /\ IsFiniteSet(acked')
    BY <1>7, <2>3, FS_AddElement DEF SessionTypes, RecordStep
  <2> QED BY <1>7, <2>1, <2>2, <2>4 DEF SessionTypes, RecordStep, bounds
<1>8. CASE RecordThrows
  <2>1. telemetry' \in TelemetryFile
    BY <1>8, <1>a, StepRecords, TelemetryCut DEF RecordThrows
  <2>2. TypeOK'
    BY <1>8, RouterTypesStay, <1>a DEF RecordThrows
  <2> QED BY <1>8, <2>1, <2>2 DEF SessionTypes, RecordThrows, Fault, history
<1>9. CASE Clear
  <2>1. TypeOK'
    BY <1>9, RouterTypesStay, <1>a DEF Clear
  <2>2. <<>> \in Seq(TranscriptMessage)
    OBVIOUS
  <2> QED BY <1>9, <2>1, <2>2 DEF SessionTypes, Clear, history
<1>10. ASSUME NEW p \in Pins, setPin(p) PROVE SessionTypes'
  <2>1. TypeOK'
    BY <1>10, PinTypes, <1>a DEF setPin
  <2> QED BY <1>10, <2>1 DEF SessionTypes, setPin, own, bounds, history
<1>11. CASE OtherRecords
  <2>1. TypeOK'
    BY <1>11, RouterTypesStay, <1>a DEF OtherRecords
  <2>2. telemetry' \in record(telemetry, OtherStep) \/ telemetry' \in recordThrows(telemetry, OtherStep)
    BY <1>11 DEF OtherRecords
  <2>3. telemetry' \in TelemetryFile
    BY <2>2, <1>a, StepRecords, TelemetryRecorded, TelemetryCut
  <2>4. OtherStep.id \in Nat
    BY StepRecords DEF StepRecord
  <2>5. acked' = acked \/ acked' = acked \cup {OtherStep.id}
    BY <1>11 DEF OtherRecords
  <2>6. acked' \in SUBSET Nat /\ IsFiniteSet(acked')
    <3>1. acked \in SUBSET Nat /\ IsFiniteSet(acked)
      BY DEF SessionTypes
    <3>2. IsFiniteSet(acked \cup {OtherStep.id})
      BY <3>1, FS_AddElement
    <3> QED BY <2>4, <2>5, <3>1, <3>2
  <2>7. faults' \in Nat /\ others' \in Nat
    BY <1>11 DEF SessionTypes, OtherRecords, Fault
  <2> QED BY <1>11, <2>1, <2>3, <2>6, <2>7 DEF SessionTypes, OtherRecords
<1>12. CASE Kill
  <2>1. TypeOK'
    BY <1>12, RouterTypesStay, <1>a DEF Kill
  <2>2. journal' \in FileOf(Nat)
    BY <1>12, <1>a, NextLine, CutFile DEF Kill
  <2>3. telemetry' \in TelemetryFile
    BY <1>12, <1>a, StepRecords, TelemetryCut DEF Kill
  <2> QED BY <1>12, <2>1, <2>2, <2>3 DEF SessionTypes, Kill, bounds, history
<1>13. CASE UNCHANGED svars
  <2>1. TypeOK'
    BY <1>13, RouterTypesStay, <1>a DEF svars
  <2> QED BY <1>13, <2>1 DEF SessionTypes, svars, own, bounds, history
<1> QED BY <1>1, <1>2, <1>3, <1>4, <1>5, <1>6, <1>7, <1>8, <1>9, <1>10, <1>11, <1>12, <1>13
        DEF SNext, Prompt

(***************************************************************************)
(* The transcript is the end of the conversation.                          *)
(***************************************************************************)
LEMMA LandPositions ==
  ASSUME SessionTypes, Positions, NEW rounds \in {1, 2}, NEW count \in {1, 2, 4},
         count =< 2 * rounds, Land(count, rounds)
  PROVE  /\ Len(transcript') = Len(transcript) + count /\ made' = made + count
         /\ made \in Nat /\ Len(transcript) \in Nat /\ Len(transcript) =< made
         /\ \A i \in 1..Len(transcript) : transcript'[i] = transcript[i]
         /\ \A i \in DOMAIN transcript' : transcript'[i].id = (made' - Len(transcript')) + i
         /\ lastAssistantIndex =< Assistants'
<1>1. /\ transcript' \in Seq(TranscriptMessage)
      /\ Len(transcript') = Len(transcript) + count
      /\ \A i \in 1..Len(transcript) : transcript'[i] = transcript[i]
      /\ \A i \in 1..count : transcript'[Len(transcript) + i].id = made + i
      /\ Assistants \in Nat /\ Assistants' = Assistants + (count \div 2)
      /\ made' = made + count
      /\ count \div 2 \in Nat
  BY LandFacts
<1>2. /\ transcript \in Seq(TranscriptMessage) /\ made \in Nat
      /\ DOMAIN transcript = 1..Len(transcript) /\ Len(transcript) \in Nat
  BY DEF SessionTypes
<1>3. /\ Len(transcript) =< made
      /\ \A i \in DOMAIN transcript : transcript[i].id = (made - Len(transcript)) + i
      /\ lastAssistantIndex =< Assistants /\ lastAssistantIndex \in Nat
  BY DEF Positions, SessionTypes
<1>4. DOMAIN transcript' = 1..(Len(transcript) + count)
  BY <1>1
<1>5. ASSUME NEW i \in 1..(Len(transcript) + count)
      PROVE  transcript'[i].id = (made - Len(transcript)) + i
  <2>1. CASE i \in 1..Len(transcript)
    BY <1>1, <1>2, <1>3, <2>1
  <2>2. CASE i \notin 1..Len(transcript)
    <3> DEFINE j == i - Len(transcript)
    <3>1. j \in 1..count /\ i = Len(transcript) + j
      BY <1>2, <2>2
    <3>2. transcript'[Len(transcript) + j].id = made + j
      BY <1>1, <3>1
    <3>3. transcript'[i].id = made + j
      BY <3>1, <3>2
    <3> QED BY <1>2, <3>1, <3>3
  <2> QED BY <2>1, <2>2
<1>6. made' - Len(transcript') = made - Len(transcript)
  BY <1>1, <1>2
<1>7. \A i \in DOMAIN transcript' : transcript'[i].id = (made' - Len(transcript')) + i
  BY <1>4, <1>5, <1>6
<1>8. lastAssistantIndex =< Assistants'
  <2> DEFINE half == count \div 2
  <2>1. half \in Nat /\ Assistants' = Assistants + half
    BY <1>1
  <2> HIDE DEF half
  <2> QED BY <1>1, <1>3, <2>1
<1> QED BY <1>1, <1>2, <1>3, <1>7, <1>8

LEMMA PositionsStay ==
  ASSUME SessionTypes, Positions, UNCHANGED <<transcript, lastAssistantIndex, made>>,
         journaled' =< Len(transcript),
         returned' =< made,
         pc' = "journal" => /\ journaled' < Len(transcript)
                            /\ journaled' < pos' /\ pos' =< Len(transcript) + 1
  PROVE  Positions'
<1>1. Assistants' = Assistants
  BY DEF Assistants
<1> QED BY <1>1 DEF Positions

LEMMA PositionsStep == ASSUME SessionTypes, Positions, [SNext]_svars PROVE Positions'
<1>a. /\ Len(transcript) \in Nat /\ journaled \in Nat /\ pos \in Nat
      /\ made \in Nat /\ returned \in Nat
      /\ returned =< made /\ journaled =< Len(transcript)
      /\ pc = "journal" => /\ journaled < Len(transcript)
                           /\ journaled < pos /\ pos =< Len(transcript) + 1
  BY DEF SessionTypes, Positions
<1>1. ASSUME NEW prompt \in PromptsTried, BeginPrompt(prompt) PROVE Positions'
  <2>1. /\ UNCHANGED <<transcript, lastAssistantIndex, made, journaled, returned>>
        /\ pc' # "journal"
    BY <1>1 DEF BeginPrompt, history
  <2> QED BY <1>a, <2>1, PositionsStay
<1>2. ASSUME NEW rounds \in {1, 2}, AgentReturns(rounds) PROVE Positions'
  <2>a. 2 * rounds \in {1, 2, 4}
    OBVIOUS
  <2>1. /\ Land(2 * rounds, rounds)
        /\ journaled' = journaled /\ returned' = returned /\ pos' = journaled + 1
        /\ lastAssistantIndex' = lastAssistantIndex
    BY <1>2 DEF AgentReturns
  <2>2. /\ Len(transcript') = Len(transcript) + 2 * rounds /\ made' = made + 2 * rounds
        /\ Len(transcript) =< made
        /\ \A i \in DOMAIN transcript' : transcript'[i].id = (made' - Len(transcript')) + i
        /\ lastAssistantIndex =< Assistants'
    BY <2>a, <2>1, LandPositions
  <2>3. returned' =< made' /\ Len(transcript') =< made' /\ journaled' =< Len(transcript')
    BY <1>a, <2>1, <2>2
  <2>4. journaled' < Len(transcript') /\ journaled' < pos' /\ pos' =< Len(transcript') + 1
    BY <1>a, <2>1, <2>2
  <2> QED BY <2>1, <2>2, <2>3, <2>4 DEF Positions
<1>3. ASSUME NEW count \in {1, 2}, AgentThrows(count) PROVE Positions'
  <2>1. /\ Land(count, 2) /\ count \in {1, 2, 4}
        /\ journaled' = journaled /\ returned' = returned
        /\ lastAssistantIndex' = lastAssistantIndex /\ pc' = "idle"
    BY <1>3 DEF AgentThrows
  <2>2. /\ Len(transcript') = Len(transcript) + count /\ made' = made + count
        /\ Len(transcript) =< made
        /\ \A i \in DOMAIN transcript' : transcript'[i].id = (made' - Len(transcript')) + i
        /\ lastAssistantIndex =< Assistants'
    BY <2>1, LandPositions
  <2>3. returned' =< made' /\ Len(transcript') =< made' /\ journaled' =< Len(transcript')
    BY <1>a, <2>1, <2>2
  <2> QED BY <2>1, <2>2, <2>3 DEF Positions
<1>4. CASE JournalNext
  <2>1. /\ UNCHANGED <<transcript, lastAssistantIndex, made, journaled, returned>>
        /\ pc = "journal" /\ pos =< Len(transcript) /\ pos' = pos + 1
    BY <1>4 DEF JournalNext, history
  <2>2. journaled' < pos' /\ pos' =< Len(transcript) + 1
    BY <1>a, <2>1
  <2> QED BY <1>a, <2>1, <2>2, PositionsStay
<1>5. CASE JournalThrows
  <2>1. /\ UNCHANGED <<transcript, lastAssistantIndex, made, journaled, returned>>
        /\ pc' # "journal"
    BY <1>5 DEF JournalThrows, history
  <2> QED BY <1>a, <2>1, PositionsStay
<1>6. CASE Account
  <2>1. /\ UNCHANGED <<transcript, made, returned>> /\ lastAssistantIndex' = Assistants
        /\ journaled' = Len(transcript) /\ pc' = "sink"
    BY <1>6 DEF Account, history
  <2>2. Assistants' = Assistants /\ Assistants \in Nat
    BY <2>1, FreshIsNat DEF Assistants
  <2> QED BY <1>a, <2>1, <2>2 DEF Positions
<1>7. CASE RecordStep
  <2>1. /\ UNCHANGED <<transcript, lastAssistantIndex, made, journaled>>
        /\ returned' = made /\ pc' = "idle"
    BY <1>7 DEF RecordStep
  <2> QED BY <1>a, <2>1, PositionsStay
<1>8. CASE RecordThrows
  <2>1. /\ UNCHANGED <<transcript, lastAssistantIndex, made, journaled, returned>>
        /\ pc' # "journal"
    BY <1>8 DEF RecordThrows, history
  <2> QED BY <1>a, <2>1, PositionsStay
<1>9. CASE Clear
  <2>1. /\ transcript' = <<>> /\ lastAssistantIndex' = 0 /\ journaled' = 0 /\ pc' = "idle"
        /\ UNCHANGED <<made, returned>>
    BY <1>9 DEF Clear, history
  <2>a. <<>> \in Seq(TranscriptMessage)
    OBVIOUS
  <2>2. Cardinality(AssistantsIn(<<>>)) \in Nat
    BY <2>a, AssistantsAreNat
  <2>3. Assistants' \in Nat
    BY <2>1, <2>2 DEF Assistants, AssistantsIn
  <2>4. Len(transcript') = 0 /\ DOMAIN transcript' = {}
    BY <2>1
  <2> QED BY <1>a, <2>1, <2>3, <2>4 DEF Positions
<1>10. ASSUME NEW p \in Pins, setPin(p) PROVE Positions'
  <2>1. UNCHANGED <<transcript, lastAssistantIndex, made, journaled, returned, pc, pos>>
    BY <1>10 DEF setPin, own, history
  <2> QED BY <1>a, <2>1, PositionsStay
<1>11. CASE OtherRecords
  <2>1. UNCHANGED <<transcript, lastAssistantIndex, made, journaled, returned, pc, pos>>
    BY <1>11 DEF OtherRecords
  <2> QED BY <1>a, <2>1, PositionsStay
<1>12. CASE Kill
  <2>1. /\ UNCHANGED <<transcript, lastAssistantIndex, made, journaled, returned>>
        /\ pc' = "killed"
    BY <1>12 DEF Kill, history
  <2> QED BY <1>a, <2>1, PositionsStay
<1>13. CASE UNCHANGED svars
  <2>1. UNCHANGED <<transcript, lastAssistantIndex, made, journaled, returned, pc, pos>>
    BY <1>13 DEF svars, own, history
  <2> QED BY <1>a, <2>1, PositionsStay
<1> QED BY <1>1, <1>2, <1>3, <1>4, <1>5, <1>6, <1>7, <1>8, <1>9, <1>10, <1>11, <1>12, <1>13
        DEF SNext, Prompt

(***************************************************************************)
(* When nothing throws, the journal is the conversation.                   *)
(***************************************************************************)
LEMMA CleanStay ==
  ASSUME JournalClean, faults' = 0 => faults = 0,
         UNCHANGED <<journal, returned, made, transcript, pos, journaled>>,
         pc \notin {"journal", "killed"}, pc' \notin {"journal", "killed"}
  PROVE  JournalClean'
BY DEF JournalClean, Through

LEMMA CleanStep ==
  ASSUME SessionTypes, Positions, JournalClean, [SNext]_svars
  PROVE  JournalClean'
<1>a. /\ Len(transcript) \in Nat /\ journaled \in Nat /\ pos \in Nat
      /\ made \in Nat /\ returned \in Nat /\ faults \in Nat
      /\ returned =< made /\ journaled =< Len(transcript) /\ Len(transcript) =< made
      /\ pc = "journal" => /\ journaled < Len(transcript)
                           /\ journaled < pos /\ pos =< Len(transcript) + 1
      /\ journal.lines \in Seq(Nat \cup {Garbled}) /\ Len(journal.lines) \in Nat
  BY DEF SessionTypes, Positions, FileOf
<1>b. faults + 1 # 0
  BY <1>a
<1>1. ASSUME NEW prompt \in PromptsTried, BeginPrompt(prompt) PROVE JournalClean'
  BY <1>1, CleanStay DEF BeginPrompt, history
<1>2. ASSUME NEW rounds \in {1, 2}, AgentReturns(rounds) PROVE JournalClean'
  <2>a. 2 * rounds \in {1, 2, 4}
    OBVIOUS
  <2>1. /\ Land(2 * rounds, rounds) /\ pc = "agent" /\ pc' = "journal"
        /\ journaled' = journaled /\ returned' = returned /\ pos' = journaled + 1
        /\ journal' = journal /\ faults' = faults
    BY <1>2 DEF AgentReturns, bounds
  <2>2. Len(transcript') = Len(transcript) + 2 * rounds /\ made' = made + 2 * rounds
    BY <2>a, <2>1, LandPositions
  <2>3. made' - Len(transcript') = made - Len(transcript)
    BY <1>a, <2>2
  <2>4. Through = journaled /\ Through' = journaled
    BY <1>a, <2>1 DEF Through
  <2> QED BY <2>1, <2>3, <2>4 DEF JournalClean
<1>3. ASSUME NEW count \in {1, 2}, AgentThrows(count) PROVE JournalClean'
  BY <1>b, <1>3 DEF AgentThrows, Fault, JournalClean
<1>4. CASE JournalNext
  <2>1. /\ UNCHANGED <<transcript, made, journaled, returned, pc, faults>>
        /\ pc = "journal" /\ pos =< Len(transcript) /\ pos' = pos + 1
        /\ journal' = AppendLine(journal, transcript[pos].id)
    BY <1>4 DEF JournalNext, history, bounds
  <2> SUFFICES ASSUME faults = 0 PROVE JournalClean'
    BY <2>1 DEF JournalClean
  <2>2. /\ transcript[pos].id = (made - Len(transcript)) + pos
        /\ transcript[pos].id \in Nat /\ journal \in FileOf(Nat)
    BY <2>1, NextLine DEF SessionTypes
  <2>3. /\ \A k \in DOMAIN journal.lines : journal.lines[k] = k
        /\ returned =< Len(journal.lines)
        /\ journal.tail = NoTail
        /\ Len(journal.lines) = (made - Len(transcript)) + (pos - 1)
    BY <2>1 DEF JournalClean, Through
  <2>4. /\ journal'.tail = NoTail
        /\ journal'.lines = Append(journal.lines, transcript[pos].id)
    BY <2>1, <2>2, <2>3, JournalAppended DEF Glue
  <2>5. transcript[pos].id = Len(journal.lines) + 1
    BY <1>a, <2>2, <2>3
  <2>6. /\ DOMAIN journal'.lines = DOMAIN journal.lines \cup {Len(journal.lines) + 1}
        /\ \A k \in DOMAIN journal.lines : journal'.lines[k] = journal.lines[k]
        /\ journal'.lines[Len(journal.lines) + 1] = transcript[pos].id
        /\ Len(journal'.lines) = Len(journal.lines) + 1
    BY <1>a, <2>2, <2>4, OneMoreLine, SMTT(30)
  <2>7. \A k \in DOMAIN journal'.lines : journal'.lines[k] = k
    BY <2>3, <2>5, <2>6
  <2>8. Len(journal'.lines) = (made - Len(transcript)) + (pos' - 1) /\ returned =< Len(journal'.lines)
    BY <1>a, <2>1, <2>3, <2>6
  <2> QED BY <2>1, <2>4, <2>7, <2>8 DEF JournalClean, Through
<1>5. CASE JournalThrows
  BY <1>b, <1>5 DEF JournalThrows, Fault, JournalClean
<1>6. CASE Account
  <2>1. /\ UNCHANGED <<transcript, made, returned, journal, faults>>
        /\ journaled' = Len(transcript) /\ pc = "journal" /\ pc' = "sink"
        /\ pos > Len(transcript)
    BY <1>6 DEF Account, history, bounds
  <2>2. Through = Len(transcript) /\ Through' = Len(transcript)
    BY <1>a, <2>1 DEF Through
  <2> QED BY <2>1, <2>2 DEF JournalClean
<1>7. CASE RecordStep
  <2>1. /\ UNCHANGED <<transcript, made, journaled, journal, faults>>
        /\ returned' = made /\ pc = "sink" /\ pc' = "idle"
    BY <1>7 DEF RecordStep, bounds
  <2> SUFFICES ASSUME faults = 0 PROVE JournalClean'
    BY <2>1 DEF JournalClean
  <2>2. /\ Through = journaled /\ Through' = journaled /\ journaled = Len(transcript)
        /\ Len(journal.lines) = (made - Len(transcript)) + Through
    BY <2>1 DEF Through, JournalClean
  <2>3. returned' =< Len(journal.lines)
    BY <1>a, <2>1, <2>2
  <2> QED BY <2>1, <2>2, <2>3 DEF JournalClean
<1>8. CASE RecordThrows
  BY <1>b, <1>8 DEF RecordThrows, Fault, JournalClean
<1>9. CASE Clear
  <2>1. /\ transcript' = <<>> /\ journaled' = 0 /\ pc = "idle" /\ pc' = "idle"
        /\ UNCHANGED <<made, returned, journal, faults>>
    BY <1>9 DEF Clear, history
  <2> SUFFICES ASSUME faults = 0 PROVE JournalClean'
    BY <2>1 DEF JournalClean
  <2>2. /\ Through = journaled /\ Through' = 0 /\ journaled = Len(transcript)
        /\ Len(journal.lines) = (made - Len(transcript)) + Through
    BY <2>1 DEF Through, JournalClean
  <2>3. Len(transcript') = 0 /\ Len(journal.lines) = (made - 0) + 0
    BY <1>a, <2>1, <2>2
  <2> QED BY <2>1, <2>2, <2>3 DEF JournalClean
<1>10. ASSUME NEW p \in Pins, setPin(p) PROVE JournalClean'
  BY <1>10 DEF setPin, own, history, bounds, JournalClean, Through
<1>11. CASE OtherRecords
  <2>1. /\ UNCHANGED <<transcript, made, journaled, returned, pc, pos, journal>>
        /\ faults' = faults \/ faults' = faults + 1
    BY <1>11 DEF OtherRecords, Fault
  <2> QED BY <1>b, <2>1 DEF JournalClean, Through
<1>12. CASE Kill
  <2>1. UNCHANGED <<returned, faults>> /\ pc' = "killed"
    BY <1>12 DEF Kill, history, bounds
  <2>2. journal' = journal \/ journal' \in CutAppends(journal, transcript[pos].id)
    BY <1>12 DEF Kill
  <2>3. journal \in FileOf(Nat)
    BY DEF SessionTypes
  <2>4. journal'.lines = journal.lines
    BY <2>2, <2>3 DEF CutAppends, FileOf
  <2> QED BY <2>1, <2>4 DEF JournalClean
<1>13. CASE UNCHANGED svars
  BY <1>13 DEF svars, own, history, bounds, JournalClean, Through
<1> QED BY <1>1, <1>2, <1>3, <1>4, <1>5, <1>6, <1>7, <1>8, <1>9, <1>10, <1>11, <1>12, <1>13
        DEF SNext, Prompt

(***************************************************************************)
(* Each fault costs the journal at most one message.                       *)
(***************************************************************************)
LEMMA MissingFinite ==
  ASSUME SessionTypes, Positions, NEW n \in 0..Len(transcript), NEW v
  PROVE  IsFiniteSet(MissingIn(transcript, v, n))
<1>1. /\ \A i \in 1..n : i \in DOMAIN transcript
      /\ made \in Nat /\ Len(transcript) \in Nat /\ Len(transcript) =< made
  BY DEF SessionTypes, Positions
<1>2. \A i \in 1..n : transcript[i].id \in 0..made
  <2> SUFFICES ASSUME NEW i \in 1..n PROVE transcript[i].id \in 0..made
    OBVIOUS
  <2>1. transcript[i].id = (made - Len(transcript)) + i
    BY <1>1 DEF Positions
  <2> QED BY <1>1, <2>1
<1>3. MissingIn(transcript, v, n) \subseteq 0..made
  BY <1>2 DEF MissingIn
<1>4. IsFiniteSet(0..made)
  BY <1>1, FS_Interval
<1> QED BY <1>3, <1>4, FS_Subset

LEMMA HealsStay ==
  ASSUME NEW M, IsFiniteSet(M), NEW o \in Nat, NEW f \in Nat, Cardinality(M) + o =< f,
         NEW N, N \subseteq M, NEW k \in Nat, NEW g \in Nat, k - o =< g - f
  PROVE  IsFiniteSet(N) /\ Cardinality(N) + k =< g
<1>1. IsFiniteSet(N) /\ Cardinality(N) =< Cardinality(M)
  BY FS_Subset
<1>2. Cardinality(N) \in Nat /\ Cardinality(M) \in Nat
  BY <1>1, FS_CardinalityType
<1> QED BY <1>1, <1>2

LEMMA HealsStep ==
  ASSUME SessionTypes, Positions, JournalHeals, SessionTypes', [SNext]_svars
  PROVE  JournalHeals'
<1> DEFINE M == MissingIn(transcript, journal.lines, Through)
           N == MissingIn(transcript', journal'.lines, Through')
<1>a. /\ Len(transcript) \in Nat /\ journaled \in Nat /\ pos \in Nat
      /\ faults \in Nat /\ faults' \in Nat
      /\ journaled =< Len(transcript)
      /\ pc = "journal" => /\ journaled < Len(transcript)
                           /\ journaled < pos /\ pos =< Len(transcript) + 1
  BY DEF SessionTypes, Positions
<1>b. (OpenJournal = 0 \/ OpenJournal = 1) /\ (OpenJournal' = 0 \/ OpenJournal' = 1)
  BY DEF OpenJournal, OpenTail
<1>c. SUFFICES ASSUME ~(JournalNext /\ journal.tail # NoTail)
               PROVE  N \subseteq M /\ OpenJournal' - OpenJournal =< faults' - faults
  <2>1. ASSUME N \subseteq M, OpenJournal' - OpenJournal =< faults' - faults
        PROVE  JournalHeals'
    <3>1. IsFiniteSet(M) /\ Cardinality(M) + OpenJournal =< faults
      BY DEF JournalHeals
    <3> HIDE DEF M, N
    <3>2. OpenJournal \in Nat /\ OpenJournal' \in Nat
      BY <1>b
    <3>3. IsFiniteSet(N) /\ Cardinality(N) + OpenJournal' =< faults'
      BY <1>a, <2>1, <3>1, <3>2, HealsStay
    <3> QED BY <3>3 DEF JournalHeals, N
  <2>2. ASSUME JournalNext, journal.tail # NoTail PROVE JournalHeals'
    <3>1. /\ UNCHANGED <<transcript, journaled, pc, faults>>
          /\ pc = "journal" /\ pos =< Len(transcript) /\ pos' = pos + 1
          /\ journal' = AppendLine(journal, transcript[pos].id)
      BY <2>2 DEF JournalNext, bounds
    <3>2. transcript[pos].id \in Nat /\ journal \in FileOf(Nat)
      BY <3>1, NextLine DEF SessionTypes
    <3>3. /\ journal'.tail = NoTail
          /\ journal'.lines = Append(journal.lines, Glue(journal.tail, transcript[pos].id))
          /\ Glue(journal.tail, transcript[pos].id) \in Nat \cup {Garbled}
          /\ journal.lines \in Seq(Nat \cup {Garbled})
      BY <3>1, <3>2, JournalAppended
    <3>4. /\ DOMAIN journal.lines \subseteq DOMAIN journal'.lines
          /\ \A k \in DOMAIN journal.lines : journal'.lines[k] = journal.lines[k]
      BY <3>3, OneMoreLine
    <3>5. {journal.lines[k] : k \in DOMAIN journal.lines}
            \subseteq {journal'.lines[k] : k \in DOMAIN journal'.lines}
      BY <3>4
    <3>6. Through = pos - 1 /\ Through' = pos
      BY <1>a, <3>1 DEF Through
    <3>7. 1..pos = 1..(pos - 1) \cup {pos}
      BY <1>a, <3>1
    <3>8. N \subseteq M \cup {transcript[pos].id}
      BY <3>1, <3>5, <3>6, <3>7 DEF MissingIn
    <3>9. IsFiniteSet(M) /\ Cardinality(M) + OpenJournal =< faults
      BY DEF JournalHeals
    <3> HIDE DEF M, N
    <3>10. OpenJournal = 1 /\ OpenJournal' = 0
      BY <2>2, <3>1, <3>3 DEF OpenJournal, OpenTail
    <3>11. IsFiniteSet(M \cup {transcript[pos].id})
      BY <3>9, AtMostOneMore
    <3>12. Cardinality(M) \in Nat /\ Cardinality(M \cup {transcript[pos].id}) \in Nat
      BY <3>9, AtMostOneMore
    <3>13. Cardinality(M \cup {transcript[pos].id}) =< Cardinality(M) + 1
      BY <3>9, AtMostOneMore
    <3>14. IsFiniteSet(N) /\ Cardinality(N) =< Cardinality(M \cup {transcript[pos].id})
      BY <3>8, <3>11, FS_Subset
    <3>15. Cardinality(N) \in Nat
      BY <3>14, FS_CardinalityType
    <3>16. Cardinality(N) + OpenJournal' =< faults'
      BY <1>a, <3>1, <3>9, <3>10, <3>12, <3>13, <3>14, <3>15
    <3> QED BY <3>14, <3>16 DEF JournalHeals, N
  <2> QED BY <2>1, <2>2
<1>d. ASSUME NEW n, NEW m, n \in Nat, m \in Nat, n =< m PROVE 1..n \subseteq 1..m
  BY <1>d
<1>1. ASSUME NEW prompt \in PromptsTried, BeginPrompt(prompt)
      PROVE  N \subseteq M /\ OpenJournal' - OpenJournal =< faults' - faults
  <2>1. UNCHANGED <<transcript, journal, journaled, faults>> /\ pc = "idle" /\ pc' = "agent"
    BY <1>1 DEF BeginPrompt
  <2> QED BY <1>a, <2>1 DEF Through, OpenJournal, OpenTail
<1>2. ASSUME NEW rounds \in {1, 2}, AgentReturns(rounds)
      PROVE  N \subseteq M /\ OpenJournal' - OpenJournal =< faults' - faults
  <2>a. 2 * rounds \in {1, 2, 4}
    OBVIOUS
  <2>1. /\ Land(2 * rounds, rounds) /\ pc = "agent" /\ pc' = "journal"
        /\ journaled' = journaled /\ pos' = journaled + 1
        /\ journal' = journal /\ faults' = faults
    BY <1>2 DEF AgentReturns, bounds
  <2>2. \A i \in 1..Len(transcript) : transcript'[i] = transcript[i]
    BY <2>a, <2>1, LandPositions
  <2>3. Through = journaled /\ Through' = journaled
    BY <1>a, <2>1 DEF Through
  <2>4. \A i \in 1..journaled : transcript'[i] = transcript[i]
    BY <1>a, <1>d, <2>2
  <2>5. N = M
    BY <2>1, <2>3, <2>4 DEF MissingIn
  <2>6. OpenJournal' = OpenJournal
    BY <2>1 DEF OpenJournal, OpenTail
  <2> QED BY <1>a, <1>b, <2>1, <2>5, <2>6
<1>3. ASSUME NEW count \in {1, 2}, AgentThrows(count)
      PROVE  N \subseteq M /\ OpenJournal' - OpenJournal =< faults' - faults
  <2>1. /\ Land(count, 2) /\ count \in {1, 2, 4} /\ pc = "agent" /\ pc' = "idle"
        /\ journaled' = journaled /\ journal' = journal /\ faults' = faults + 1
    BY <1>3 DEF AgentThrows, Fault
  <2>2. \A i \in 1..Len(transcript) : transcript'[i] = transcript[i]
    BY <2>1, LandPositions
  <2>3. Through = journaled /\ Through' = journaled
    BY <1>a, <2>1 DEF Through
  <2>4. \A i \in 1..journaled : transcript'[i] = transcript[i]
    BY <1>a, <1>d, <2>2
  <2>5. N = M
    BY <2>1, <2>3, <2>4 DEF MissingIn
  <2>6. OpenJournal' = OpenJournal
    BY <2>1 DEF OpenJournal, OpenTail
  <2> QED BY <1>a, <1>b, <2>1, <2>5, <2>6
<1>4. ASSUME JournalNext
      PROVE  N \subseteq M /\ OpenJournal' - OpenJournal =< faults' - faults
  <2>1. /\ UNCHANGED <<transcript, journaled, pc, faults>>
        /\ pc = "journal" /\ pos =< Len(transcript) /\ pos' = pos + 1
        /\ journal' = AppendLine(journal, transcript[pos].id)
    BY <1>4 DEF JournalNext, bounds
  <2>2. transcript[pos].id \in Nat /\ journal \in FileOf(Nat) /\ journal.tail = NoTail
    BY <1>c, <1>4, <2>1, NextLine DEF SessionTypes
  <2>3. /\ journal'.tail = NoTail
        /\ journal'.lines = Append(journal.lines, transcript[pos].id)
        /\ journal.lines \in Seq(Nat \cup {Garbled})
    BY <2>1, <2>2, JournalAppended DEF Glue
  <2>4. /\ DOMAIN journal'.lines = DOMAIN journal.lines \cup {Len(journal.lines) + 1}
        /\ \A k \in DOMAIN journal.lines : journal'.lines[k] = journal.lines[k]
        /\ journal'.lines[Len(journal.lines) + 1] = transcript[pos].id
    BY <2>2, <2>3, OneMoreLine
  <2>5. {journal'.lines[k] : k \in DOMAIN journal'.lines}
          = {journal.lines[k] : k \in DOMAIN journal.lines} \cup {transcript[pos].id}
    BY <2>4
  <2>6. Through = pos - 1 /\ Through' = pos
    BY <1>a, <2>1 DEF Through
  <2>7. 1..pos = 1..(pos - 1) \cup {pos}
    BY <1>a, <2>1
  <2>8. N \subseteq M
    BY <2>1, <2>5, <2>6, <2>7 DEF MissingIn
  <2>9. OpenJournal' = 0
    BY <2>1, <2>3 DEF OpenJournal, OpenTail
  <2> QED BY <1>a, <1>b, <2>1, <2>8, <2>9
<1>5. ASSUME JournalThrows
      PROVE  N \subseteq M /\ OpenJournal' - OpenJournal =< faults' - faults
  <2>1. /\ UNCHANGED <<transcript, journaled>> /\ pc = "journal" /\ pc' = "idle"
        /\ faults' = faults + 1 /\ journal' \in CutAppends(journal, transcript[pos].id)
    BY <1>5 DEF JournalThrows, Fault
  <2>2. journal'.lines = journal.lines
    BY <2>1 DEF CutAppends, SessionTypes, FileOf
  <2>3. Through = pos - 1 /\ Through' = journaled /\ journaled =< pos - 1 /\ pos - 1 \in Nat
    BY <1>a, <2>1 DEF Through
  <2>4. 1..journaled \subseteq 1..(pos - 1)
    BY <1>a, <2>3, <1>d
  <2>5. N \subseteq M
    BY <2>1, <2>2, <2>3, <2>4 DEF MissingIn
  <2> QED BY <1>a, <1>b, <2>1, <2>5
<1>6. ASSUME Account
      PROVE  N \subseteq M /\ OpenJournal' - OpenJournal =< faults' - faults
  <2>1. /\ UNCHANGED <<transcript, journal, faults>>
        /\ journaled' = Len(transcript) /\ pc = "journal" /\ pc' = "sink"
        /\ pos > Len(transcript)
    BY <1>6 DEF Account, bounds
  <2>2. Through = Len(transcript) /\ Through' = Len(transcript)
    BY <1>a, <2>1 DEF Through
  <2>3. OpenJournal' = OpenJournal /\ N = M
    BY <2>1, <2>2 DEF OpenJournal, OpenTail
  <2> QED BY <1>a, <1>b, <2>1, <2>3
<1>7. ASSUME RecordStep \/ RecordThrows
      PROVE  N \subseteq M /\ OpenJournal' - OpenJournal =< faults' - faults
  <2>1. /\ UNCHANGED <<transcript, journal, journaled>> /\ pc = "sink" /\ pc' = "idle"
        /\ faults' = faults \/ faults' = faults + 1
    BY <1>7 DEF RecordStep, RecordThrows, Fault, bounds
  <2>2. OpenJournal' = OpenJournal /\ N = M
    BY <2>1 DEF OpenJournal, OpenTail, Through
  <2> QED BY <1>a, <1>b, <2>1, <2>2
<1>9. ASSUME Clear
      PROVE  N \subseteq M /\ OpenJournal' - OpenJournal =< faults' - faults
  <2>1. /\ journaled' = 0 /\ pc = "idle" /\ pc' = "idle"
        /\ UNCHANGED <<journal, faults>>
    BY <1>9 DEF Clear
  <2>2. OpenJournal' = OpenJournal /\ Through' = 0
    BY <2>1 DEF OpenJournal, OpenTail, Through
  <2>3. 1..0 = {}
    OBVIOUS
  <2>4. N = {}
    BY <2>2, <2>3 DEF MissingIn
  <2> QED BY <1>a, <1>b, <2>1, <2>2, <2>4
<1>10. ASSUME (\E p \in Pins : setPin(p)) \/ OtherRecords \/ UNCHANGED svars
       PROVE  N \subseteq M /\ OpenJournal' - OpenJournal =< faults' - faults
  <2>1. /\ UNCHANGED <<transcript, journal, journaled, pc, pos>>
        /\ faults' = faults \/ faults' = faults + 1
    BY <1>10 DEF setPin, OtherRecords, Fault, svars, own, bounds
  <2>2. OpenJournal' = OpenJournal /\ N = M
    BY <2>1 DEF OpenJournal, OpenTail, Through
  <2> QED BY <1>a, <1>b, <2>1, <2>2
<1>12. ASSUME Kill
       PROVE  N \subseteq M /\ OpenJournal' - OpenJournal =< faults' - faults
  <2>1. UNCHANGED <<transcript, journaled, faults>> /\ pc' = "killed"
    BY <1>12 DEF Kill, bounds
  <2>2. journal' = journal \/ journal' \in CutAppends(journal, transcript[pos].id)
    BY <1>12 DEF Kill
  <2>3. journal'.lines = journal.lines
    BY <2>2 DEF CutAppends, SessionTypes, FileOf
  <2>4. Through' = journaled /\ Through \in Nat /\ journaled =< Through
    BY <1>a, <2>1 DEF Through
  <2>5. 1..journaled \subseteq 1..Through
    BY <1>a, <2>4, <1>d
  <2>6. N \subseteq M
    BY <2>1, <2>3, <2>4, <2>5 DEF MissingIn
  <2>7. OpenJournal' = 0
    BY <2>1 DEF OpenJournal
  <2> QED BY <1>a, <1>b, <2>1, <2>6, <2>7
<1> HIDE DEF M, N
<1> QED BY <1>1, <1>2, <1>3, <1>4, <1>5, <1>6, <1>7, <1>9, <1>10, <1>12 DEF SNext, Prompt

(***************************************************************************)
(* Each fault hides at most one step, and leaves a line that tells.        *)
(***************************************************************************)
LEMMA RecordTears ==
  ASSUME NEW f \in TelemetryFile, NEW e \in StepRecord, NEW g \in record(f, e),
         NEW a \in SUBSET Nat, IsFiniteSet(a),
         Cardinality(UnseenIn(a, f.lines)) =< Cardinality(TornIn(f.lines))
  PROVE  /\ Cardinality(UnseenIn(a \cup {e.id}, g.lines)) =< Cardinality(TornIn(g.lines))
         /\ Cardinality(TornIn(g.lines)) + OpenTail(g)
              = Cardinality(TornIn(f.lines)) + OpenTail(f)
<1> DEFINE x == Glue(f.tail, e)
           v == f.lines
           w == g.lines
           U == UnseenIn(a, v)
           W == UnseenIn(a \cup {e.id}, w)
<1>1. /\ g.tail = NoTail /\ w = Append(v, x) /\ x \in AnyLine /\ v \in Seq(AnyLine)
  BY TelemetryRecorded
<1>2. OpenTail(g) = 0 /\ e # Garbled
  BY <1>1, LinesDiffer DEF OpenTail
<1>3. x = IF f.tail = NoTail THEN e ELSE Garbled
  BY DEF Glue
<1>4. OpenTail(f) = IF f.tail = NoTail THEN 0 ELSE 1
  BY DEF OpenTail
<1> HIDE DEF x, v, w
<1>5. /\ DOMAIN w = DOMAIN v \cup {Len(v) + 1}
      /\ \A i \in DOMAIN v : w[i] = v[i]
      /\ w[Len(v) + 1] = x
      /\ Len(v) + 1 \notin DOMAIN v
  BY <1>1, OneMoreLine
<1>6. Cardinality(TornIn(w)) = Cardinality(TornIn(v)) + (IF x = Garbled THEN 1 ELSE 0)
  BY <1>1, TornMore
<1>7. Cardinality(TornIn(v)) \in Nat
  BY <1>1, TornFinite
<1>8. IsFiniteSet(U)
  BY FS_Subset DEF UnseenIn
<1>9. Cardinality(U) \in Nat
  BY <1>8, FS_CardinalityType
<1>10. \A i \in DOMAIN v \ TornIn(v) : i \in DOMAIN w \ TornIn(w) /\ w[i].id = v[i].id
  BY <1>5 DEF TornIn
<1>11. {v[i].id : i \in DOMAIN v \ TornIn(v)} \subseteq {w[i].id : i \in DOMAIN w \ TornIn(w)}
  BY <1>10
<1>12. W \subseteq U \cup {e.id}
  BY <1>11 DEF UnseenIn
<1>13. CASE f.tail = NoTail
  <2>1. Len(v) + 1 \in DOMAIN w \ TornIn(w) /\ w[Len(v) + 1].id = e.id
    BY <1>2, <1>3, <1>5, <1>13 DEF TornIn
  <2>2. W \subseteq U
    BY <1>12, <2>1 DEF UnseenIn
  <2> HIDE DEF U, W
  <2>3. Cardinality(W) =< Cardinality(U)
    BY <1>8, <2>2, FS_Subset
  <2>4. IsFiniteSet(W)
    BY <1>8, <2>2, FS_Subset
  <2>5. Cardinality(W) \in Nat
    BY <2>4, FS_CardinalityType
  <2>6. Cardinality(U) =< Cardinality(TornIn(v))
    BY DEF U, v
  <2>7. Cardinality(W) =< Cardinality(TornIn(w))
    BY <1>2, <1>3, <1>6, <1>7, <1>9, <1>13, <2>3, <2>5, <2>6
  <2> QED BY <1>2, <1>3, <1>4, <1>6, <1>7, <1>13, <2>7 DEF W, v, w
<1>14. CASE f.tail # NoTail
  <2> HIDE DEF U, W
  <2>1. IsFiniteSet(U \cup {e.id})
    BY <1>8, AtMostOneMore
  <2>2. Cardinality(U \cup {e.id}) \in Nat
    BY <1>8, AtMostOneMore
  <2>3. Cardinality(U \cup {e.id}) =< Cardinality(U) + 1
    BY <1>8, AtMostOneMore
  <2>4. IsFiniteSet(W) /\ Cardinality(W) =< Cardinality(U \cup {e.id})
    BY <1>12, <2>1, FS_Subset
  <2>5. Cardinality(W) \in Nat
    BY <2>4, FS_CardinalityType
  <2>6. Cardinality(U) =< Cardinality(TornIn(v))
    BY DEF U, v
  <2>7. Cardinality(W) =< Cardinality(TornIn(w))
    BY <1>3, <1>6, <1>7, <1>9, <1>14, <2>2, <2>3, <2>4, <2>5, <2>6
  <2> QED BY <1>2, <1>3, <1>4, <1>6, <1>7, <1>14, <2>7 DEF W, v, w
<1> QED BY <1>13, <1>14

LEMMA TearsStep ==
  ASSUME SessionTypes, Positions, TelemetryTears, [SNext]_svars
  PROVE  TelemetryTears'
<1>a. /\ telemetry \in TelemetryFile /\ telemetry.lines \in Seq(AnyLine)
      /\ acked \in SUBSET Nat /\ IsFiniteSet(acked) /\ faults \in Nat
      /\ Cardinality(TornIn(telemetry.lines)) \in Nat
  BY ViewOfFile, TornFinite DEF SessionTypes
<1>b. /\ Killed = 0 \/ Killed = 1
      /\ OpenTail(telemetry) = 0 \/ OpenTail(telemetry) = 1
      /\ OpenTail(telemetry') = 0 \/ OpenTail(telemetry') = 1
  BY DEF Killed, OpenTail
<1>c. /\ Cardinality(UnseenIn(acked, telemetry.lines)) =< Cardinality(TornIn(telemetry.lines))
      /\ Cardinality(TornIn(telemetry.lines)) + OpenTail(telemetry) =< faults + Killed
  BY DEF TelemetryTears
<1>1. ASSUME NEW e \in StepRecord, telemetry' \in record(telemetry, e),
             acked' = acked \cup {e.id}, faults' = faults, Killed' = Killed
      PROVE  TelemetryTears'
  <2>1. /\ Cardinality(UnseenIn(acked', telemetry'.lines)) =< Cardinality(TornIn(telemetry'.lines))
        /\ Cardinality(TornIn(telemetry'.lines)) + OpenTail(telemetry')
             = Cardinality(TornIn(telemetry.lines)) + OpenTail(telemetry)
    <3>1. /\ Cardinality(UnseenIn(acked \cup {e.id}, telemetry'.lines))
               =< Cardinality(TornIn(telemetry'.lines))
          /\ Cardinality(TornIn(telemetry'.lines)) + OpenTail(telemetry')
               = Cardinality(TornIn(telemetry.lines)) + OpenTail(telemetry)
      BY <1>a, <1>c, <1>1, RecordTears
    <3> QED BY <1>1, <3>1
  <2> QED BY <1>c, <1>1, <2>1 DEF TelemetryTears
<1>2. ASSUME NEW e \in StepRecord,
             \/ telemetry' \in recordThrows(telemetry, e)
             \/ telemetry' \in CutAppends(telemetry, e),
             acked' = acked, faults' + Killed' = faults + Killed + 1, faults' \in Nat
      PROVE  TelemetryTears'
  <2>1. telemetry'.lines = telemetry.lines
    BY <1>a, <1>2, TelemetryCut
  <2>2. Cardinality(TornIn(telemetry.lines)) + OpenTail(telemetry') =< faults' + Killed'
    BY <1>a, <1>b, <1>c, <1>2
  <2> QED BY <1>c, <1>2, <2>1, <2>2 DEF TelemetryTears
<1>3. ASSUME telemetry' = telemetry, acked' = acked, faults' = faults \/ faults' = faults + 1,
             Killed' = Killed \/ (Killed = 0 /\ Killed' = 1)
      PROVE  TelemetryTears'
  <2>1. faults + Killed =< faults' + Killed'
    BY <1>a, <1>b, <1>3
  <2>2. Cardinality(TornIn(telemetry.lines)) + OpenTail(telemetry) =< faults' + Killed'
    BY <1>a, <1>b, <1>c, <1>3, <2>1
  <2> QED BY <1>c, <1>3, <2>2 DEF TelemetryTears
<1>4. CASE RecordStep
  <2>1. /\ telemetry' \in record(telemetry, StepEvent) /\ acked' = acked \cup {StepEvent.id}
        /\ faults' = faults
    BY <1>4 DEF RecordStep, bounds
  <2>2. Killed' = Killed
    BY <1>4 DEF RecordStep, Killed
  <2>3. StepEvent \in StepRecord
    BY StepRecords
  <2> QED BY <1>1, <2>1, <2>2, <2>3
<1>5. CASE RecordThrows
  <2>1. /\ telemetry' \in recordThrows(telemetry, StepEvent) /\ acked' = acked
        /\ faults' = faults + 1
    BY <1>5 DEF RecordThrows, Fault, history
  <2>2. Killed' = Killed
    BY <1>5 DEF RecordThrows, Killed
  <2>3. StepEvent \in StepRecord
    BY StepRecords
  <2>4. faults' + Killed' = faults + Killed + 1 /\ faults' \in Nat
    BY <1>a, <1>b, <2>1, <2>2
  <2> QED BY <1>2, <2>1, <2>3, <2>4
<1>6. CASE OtherRecords
  <2>1. Killed' = Killed
    BY <1>6 DEF OtherRecords, Killed
  <2>2. OtherStep \in StepRecord
    BY StepRecords
  <2>3. CASE /\ telemetry' \in record(telemetry, OtherStep)
             /\ acked' = acked \cup {OtherStep.id}
             /\ UNCHANGED faults
    BY <1>1, <2>1, <2>2, <2>3
  <2>4. CASE /\ Fault
             /\ telemetry' \in recordThrows(telemetry, OtherStep)
             /\ UNCHANGED acked
    <3>1. faults' = faults + 1
      BY <2>4 DEF Fault
    <3>2. faults' + Killed' = faults + Killed + 1 /\ faults' \in Nat
      BY <1>a, <1>b, <2>1, <3>1
    <3> QED BY <1>2, <2>2, <2>4, <3>2
  <2> QED BY <1>6, <2>3, <2>4 DEF OtherRecords
<1>7. CASE Kill
  <2>1. acked' = acked /\ faults' = faults /\ Killed = 0 /\ Killed' = 1
    BY <1>7 DEF Kill, history, bounds, Killed
  <2>2. CASE pc = "sink"
    <3>1. telemetry' \in CutAppends(telemetry, StepEvent)
      BY <1>7, <2>2 DEF Kill
    <3>2. StepEvent \in StepRecord
      BY StepRecords
    <3>3. faults' + Killed' = faults + Killed + 1 /\ faults' \in Nat
      BY <1>a, <2>1
    <3> QED BY <1>2, <2>1, <3>1, <3>2, <3>3
  <2>3. CASE pc # "sink"
    <3>1. telemetry' = telemetry
      BY <1>7, <2>3 DEF Kill
    <3> QED BY <1>3, <2>1, <3>1
  <2> QED BY <2>2, <2>3
<1>8. ASSUME \/ \E prompt \in PromptsTried : BeginPrompt(prompt)
             \/ \E rounds \in {1, 2} : AgentReturns(rounds)
             \/ \E count \in {1, 2} : AgentThrows(count)
             \/ JournalNext \/ JournalThrows \/ Account \/ Clear
             \/ \E p \in Pins : setPin(p)
             \/ UNCHANGED svars
      PROVE  TelemetryTears'
  <2>1. telemetry' = telemetry /\ acked' = acked /\ (faults' = faults \/ faults' = faults + 1)
    BY <1>8 DEF BeginPrompt, AgentReturns, AgentThrows, JournalNext, JournalThrows, Account,
       Clear, setPin, svars, own, bounds, history, Fault
  <2>2. Killed' = Killed
    BY <1>8 DEF BeginPrompt, AgentReturns, AgentThrows, JournalNext, JournalThrows, Account,
       Clear, setPin, svars, own, Killed
  <2> QED BY <1>3, <2>1, <2>2
<1> QED BY <1>4, <1>5, <1>6, <1>7, <1>8 DEF SNext, Prompt

(***************************************************************************)
(* No request is counted twice, and none is left out while nothing throws. *)
(***************************************************************************)
LEMMA RecordSeen ==
  ASSUME NEW f \in TelemetryFile, NEW e \in StepRecord, NEW g \in record(f, e), NEW l
  PROVE  /\ SeenIn(g, l) \in Nat /\ SeenIn(f, l) \in Nat /\ Weight(e, l) \in Nat
         /\ SeenIn(g, l) =< SeenIn(f, l) + Weight(e, l)
         /\ f.tail = NoTail => SeenIn(g, l) = SeenIn(f, l) + Weight(e, l)
<1>1. /\ g.tail = NoTail /\ g.lines = Append(f.lines, Glue(f.tail, e))
      /\ Glue(f.tail, e) \in AnyLine /\ f.lines \in Seq(AnyLine)
  BY TelemetryRecorded
<1>2. Spent(g.lines, l) = Spent(f.lines, l) + Weight(Glue(f.tail, e), l)
  BY <1>1, SpentMore
<1>3. /\ Spent(f.lines, l) \in Nat /\ Weight(e, l) \in Nat /\ Weight(f.tail, l) \in Nat
      /\ Weight(Glue(f.tail, e), l) \in Nat
  BY <1>1, SpentIsNat, WeightIsNat
<1>4. Weight(g.tail, l) = 0
  BY <1>1, Unweighed
<1>5. CASE f.tail = NoTail
  <2>1. Weight(Glue(f.tail, e), l) = Weight(e, l) /\ Weight(f.tail, l) = 0
    BY <1>5, Unweighed DEF Glue
  <2> QED BY <1>2, <1>3, <1>4, <2>1 DEF SeenIn
<1>6. CASE f.tail # NoTail
  <2>1. Weight(Glue(f.tail, e), l) = 0
    BY <1>6, Unweighed DEF Glue
  <2> QED BY <1>2, <1>3, <1>4, <1>6, <2>1 DEF SeenIn
<1> QED BY <1>5, <1>6

LEMMA CutSeen ==
  ASSUME NEW f \in TelemetryFile, NEW e \in StepRecord,
         NEW g, g \in recordThrows(f, e) \/ g \in CutAppends(f, e), NEW l
  PROVE  /\ SeenIn(g, l) \in Nat /\ SeenIn(f, l) \in Nat /\ Weight(e, l) \in Nat
         /\ SeenIn(g, l) =< SeenIn(f, l) + Weight(e, l)
<1>1. g.lines = f.lines /\ g.tail \in {f.tail, Garbled, Glue(f.tail, e)}
  BY TelemetryCut
<1>2. f.lines \in Seq(AnyLine)
  BY ViewOfFile
<1>3. /\ Spent(f.lines, l) \in Nat /\ Weight(e, l) \in Nat /\ Weight(f.tail, l) \in Nat
      /\ Weight(g.tail, l) \in Nat
  BY <1>2, SpentIsNat, WeightIsNat
<1>4. Weight(Garbled, l) = 0 /\ Weight(NoTail, l) = 0
  BY Unweighed
<1>5. Weight(g.tail, l) =< Weight(f.tail, l) + Weight(e, l)
  <2>1. CASE g.tail = f.tail
    BY <1>3, <2>1
  <2>2. CASE g.tail = Garbled
    BY <1>3, <1>4, <2>2
  <2>3. CASE g.tail = Glue(f.tail, e) /\ f.tail = NoTail
    <3>1. g.tail = e
      BY <2>3 DEF Glue
    <3> QED BY <1>3, <3>1
  <2>4. CASE g.tail = Glue(f.tail, e) /\ f.tail # NoTail
    <3>1. g.tail = Garbled
      BY <2>4 DEF Glue
    <3> QED BY <1>3, <1>4, <3>1
  <2> QED BY <1>1, <2>1, <2>2, <2>3, <2>4
<1> QED BY <1>1, <1>3, <1>5 DEF SeenIn

LEMMA SeenIsNat ==
  ASSUME NEW f \in TelemetryFile, NEW l
  PROVE  SeenIn(f, l) \in Nat
<1>1. Spent(f.lines, l) \in Nat /\ Weight(f.tail, l) \in Nat
  BY ViewOfFile, SpentIsNat, WeightIsNat
<1> QED BY <1>1 DEF SeenIn

LEMMA TotalAdds ==
  ASSUME NEW f \in [Layers -> Nat], NEW k \in Layers, NEW n \in Nat
  PROVE  /\ Total(f) \in Nat
         /\ Total([f EXCEPT ![k] = @ + n]) = Total(f) + n
<1>1. /\ f["local"] \in Nat /\ f["flash"] \in Nat /\ f["escalation"] \in Nat
      /\ f["byok"] \in Nat
  BY DEF Layers
<1> DEFINE g == [f EXCEPT ![k] = @ + n]
<1>2. \A l \in Layers : g[l] = IF l = k THEN f[k] + n ELSE f[l]
  OBVIOUS
<1> HIDE DEF g
<1>3. Total(g) = Total(f) + n
  BY <1>1, <1>2 DEF Total, Layers
<1> QED BY <1>1, <1>3 DEF g, Total

LEMMA FreshStays ==
  ASSUME UNCHANGED <<transcript, lastAssistantIndex>>
  PROVE  Fresh' = Fresh
BY DEF Fresh, Assistants

\* What the event of a turn in its sink weighs, and that another's weighs nothing.
LEMMA EventWeights ==
  ASSUME SessionTypes, NEW l
  PROVE  /\ Weight(StepEvent, l) = IF l = current THEN pos ELSE 0
         /\ Weight(OtherStep, l) = 0
<1>1. StepEvent \in StepRecord /\ OtherStep \in StepRecord
  BY StepRecords
<1>2. /\ StepEvent.session = Own /\ StepEvent.layer = current /\ StepEvent.tokens = pos
      /\ OtherStep.session # Own
  BY DEF StepEvent, OtherStep, Step, Own, Other
<1> QED BY <1>1, <1>2 DEF Weight

LEMMA OnceStep ==
  ASSUME SessionTypes, Positions, CountedOnce, [SNext]_svars, SessionTypes', Positions'
  PROVE  CountedOnce'
<1>a. /\ telemetry \in TelemetryFile /\ tokensByLayer \in [Layers -> Nat]
      /\ billed \in [Layers -> Nat] /\ current \in Layers /\ TypeOK /\ pos \in Nat
      /\ Fresh \in Nat /\ Fresh' \in Nat
  <2>1. Cardinality(AssistantsIn(transcript')) \in Nat
    BY AssistantsAreNat DEF SessionTypes
  <2>2. Assistants' \in Nat
    BY <2>1 DEF Assistants, AssistantsIn
  <2>3. lastAssistantIndex' \in Nat
    BY DEF SessionTypes
  <2>4. lastAssistantIndex' =< Assistants'
    BY DEF Positions
  <2>5. Fresh' = Assistants' - lastAssistantIndex'
    BY DEF Fresh
  <2>6. \A a, b \in Nat : b =< a => a - b \in Nat
    OBVIOUS
  <2>7. Assistants' - lastAssistantIndex' \in Nat
    BY <2>2, <2>3, <2>4, <2>6, Zenon
  <2>8. Fresh' \in Nat
    BY <2>5, <2>7, Zenon
  <2> QED BY <2>8, FreshIsNat DEF SessionTypes, TypeOK
<1>b. /\ Total(tokensByLayer) \in Nat /\ Total(billed) \in Nat
      /\ Total(tokensByLayer) + Fresh =< Total(billed)
  BY <1>a, TotalAdds DEF CountedOnce
<1>c. ASSUME NEW l \in Layers
      PROVE  /\ SeenIn(telemetry, l) \in Nat /\ Pending(l) \in Nat /\ tokensByLayer[l] \in Nat
             /\ SeenIn(telemetry, l) + Pending(l) =< tokensByLayer[l]
  BY <1>a, SeenIsNat, WeightIsNat DEF CountedOnce, Pending
<1>1. ASSUME telemetry' = telemetry, tokensByLayer' = tokensByLayer,
             pc # "sink", pc' # "sink",
             Total(tokensByLayer) + Fresh' =< Total(billed')
      PROVE  CountedOnce'
  <2>1. \A l \in Layers : Pending(l) = 0 /\ Pending(l)' = 0
    BY <1>1 DEF Pending
  <2> QED BY <1>c, <1>1, <2>1 DEF CountedOnce
<1>2. ASSUME UNCHANGED <<transcript, lastAssistantIndex, tokensByLayer, billed>>,
             \A l \in Layers : SeenIn(telemetry', l) + Pending(l)' =< tokensByLayer[l]
      PROVE  CountedOnce'
  <2>1. Fresh' = Fresh
    BY <1>2, FreshStays
  <2> QED BY <1>2, <2>1 DEF CountedOnce
<1>3. ASSUME \/ \E prompt \in PromptsTried : BeginPrompt(prompt)
             \/ JournalNext \/ JournalThrows
             \/ \E p \in Pins : setPin(p)
      PROVE  CountedOnce'
  <2>1. /\ UNCHANGED <<telemetry, transcript, lastAssistantIndex, billed>>
        /\ pc # "sink" /\ pc' # "sink"
    BY <1>3 DEF BeginPrompt, JournalNext, JournalThrows, setPin, own, history
  <2>2. tokensByLayer' = tokensByLayer
    BY <1>3 DEF BeginPrompt, JournalNext, JournalThrows, setPin, Route, SetPin, vars
  <2>3. Fresh' = Fresh
    BY <2>1, FreshStays
  <2> QED BY <1>1, <1>b, <2>1, <2>2, <2>3
<1>4. ASSUME NEW rounds \in {1, 2}, NEW count \in {1, 2, 4}, count =< 2 * rounds,
             Land(count, rounds), UNCHANGED <<telemetry, lastAssistantIndex, vars>>,
             pc = "agent", pc' # "sink"
      PROVE  CountedOnce'
  <2> DEFINE half == count \div 2
  <2>1. /\ Assistants \in Nat /\ Assistants' = Assistants + half
        /\ billed' = [billed EXCEPT ![current] = @ + half]
        /\ half \in Nat
    BY <1>4, LandFacts
  <2> HIDE DEF half
  <2>2. Fresh' = Fresh + half
    BY <1>4, <2>1, <1>a DEF Fresh, SessionTypes
  <2>3. Total(billed') = Total(billed) + half
    BY <1>a, <2>1, TotalAdds
  <2>4. Total(tokensByLayer) + Fresh' =< Total(billed')
    BY <1>a, <1>b, <2>1, <2>2, <2>3
  <2>5. tokensByLayer' = tokensByLayer
    BY <1>4 DEF vars
  <2> QED BY <1>1, <1>4, <2>4, <2>5
<1>5. ASSUME NEW rounds \in {1, 2}, AgentReturns(rounds) PROVE CountedOnce'
  <2>1. 2 * rounds \in {1, 2, 4} /\ 2 * rounds =< 2 * rounds
    OBVIOUS
  <2>2. /\ Land(2 * rounds, rounds) /\ UNCHANGED <<telemetry, lastAssistantIndex, vars>>
        /\ pc = "agent" /\ pc' = "journal"
    BY <1>5 DEF AgentReturns
  <2> QED BY <1>4, <2>1, <2>2
<1>6. ASSUME NEW count \in {1, 2}, AgentThrows(count) PROVE CountedOnce'
  <2>1. /\ Land(count, 2) /\ UNCHANGED <<telemetry, lastAssistantIndex, vars>>
        /\ pc = "agent" /\ pc' = "idle"
    BY <1>6 DEF AgentThrows
  <2> QED BY <1>4, <2>1
<1>7. CASE Account
  <2>1. /\ RecordUsage(Fresh) /\ UNCHANGED <<telemetry, transcript, billed, turns>>
        /\ lastAssistantIndex' = Assistants /\ pc = "journal" /\ pc' = "sink"
        /\ pos' = Fresh
    BY <1>7 DEF Account, bounds, history
  <2>2. /\ tokensByLayer' = [tokensByLayer EXCEPT ![current] = @ + Fresh]
        /\ current' = current
    BY <1>a, <2>1, UsageTypes
  <2>3. Fresh' = 0
    <3>1. Assistants' = Assistants
      BY <2>1 DEF Assistants
    <3> QED BY <2>1, <3>1, FreshIsNat DEF Fresh
  <2>4. Total(tokensByLayer') = Total(tokensByLayer) + Fresh
    BY <1>a, <2>2, TotalAdds
  <2>5. Total(tokensByLayer') + Fresh' =< Total(billed')
    BY <1>a, <1>b, <2>1, <2>3, <2>4
  <2>6. ASSUME NEW l \in Layers
        PROVE  SeenIn(telemetry', l) + Pending(l)' =< tokensByLayer'[l]
    <3>1. Weight(StepEvent', l) = IF l = current THEN Fresh ELSE 0
      <4>1. StepEvent' = Step(Own, turns, current, Fresh)
        BY <2>1, <2>2 DEF StepEvent
      <4>2. Step(Own, turns, current, Fresh) \in StepRecord
        BY <1>a, SameLayers DEF Step, StepRecord, SessionTypes
      <4> QED BY <4>1, <4>2 DEF Weight, Step
    <3>2. Pending(l)' = IF l = current THEN Fresh ELSE 0
      BY <2>1, <3>1 DEF Pending
    <3>3. Pending(l) = 0
      BY <2>1 DEF Pending
    <3>4. tokensByLayer'[l] = tokensByLayer[l] + (IF l = current THEN Fresh ELSE 0)
      BY <1>a, <2>2
    <3> QED BY <1>a, <1>c, <2>1, <3>2, <3>3, <3>4
  <2> QED BY <2>5, <2>6 DEF CountedOnce
<1>8. CASE RecordStep \/ RecordThrows
  <2>1. /\ UNCHANGED <<transcript, lastAssistantIndex, billed, vars>>
        /\ pc = "sink" /\ pc' = "idle"
        /\ telemetry' \in record(telemetry, StepEvent) \/ telemetry' \in recordThrows(telemetry, StepEvent)
    <3>1. CASE RecordStep
      BY <3>1 DEF RecordStep
    <3>2. CASE RecordThrows
      BY <3>2 DEF RecordThrows, history
    <3> QED BY <1>8, <3>1, <3>2
  <2>2. StepEvent \in StepRecord
    BY StepRecords
  <2>3. ASSUME NEW l \in Layers
        PROVE  SeenIn(telemetry', l) + Pending(l)' =< tokensByLayer[l]
    <3>1. /\ SeenIn(telemetry', l) \in Nat /\ SeenIn(telemetry, l) \in Nat
          /\ Weight(StepEvent, l) \in Nat
          /\ SeenIn(telemetry', l) =< SeenIn(telemetry, l) + Weight(StepEvent, l)
      BY <1>a, <2>1, <2>2, RecordSeen, CutSeen
    <3>2. Pending(l) = Weight(StepEvent, l) /\ Pending(l)' = 0
      BY <2>1 DEF Pending
    <3> QED BY <1>c, <3>1, <3>2
  <2>4. tokensByLayer' = tokensByLayer
    BY <2>1 DEF vars
  <2> QED BY <1>2, <2>1, <2>3, <2>4
<1>9. CASE OtherRecords
  <2>1. /\ UNCHANGED <<transcript, lastAssistantIndex, billed, vars, pc, turns, pos>>
        /\ telemetry' \in record(telemetry, OtherStep) \/ telemetry' \in recordThrows(telemetry, OtherStep)
    BY <1>9 DEF OtherRecords
  <2>2. OtherStep \in StepRecord
    BY StepRecords
  <2>3. StepEvent' = StepEvent /\ tokensByLayer' = tokensByLayer
    BY <2>1 DEF StepEvent, vars
  <2>4. ASSUME NEW l \in Layers
        PROVE  SeenIn(telemetry', l) + Pending(l)' =< tokensByLayer[l]
    <3>1. /\ SeenIn(telemetry', l) \in Nat /\ SeenIn(telemetry, l) \in Nat
          /\ SeenIn(telemetry', l) =< SeenIn(telemetry, l) + Weight(OtherStep, l)
      BY <1>a, <2>1, <2>2, RecordSeen, CutSeen
    <3>2. Weight(OtherStep, l) = 0
      BY EventWeights
    <3>3. Pending(l)' = Pending(l)
      BY <2>1, <2>3 DEF Pending
    <3> QED BY <1>c, <3>1, <3>2, <3>3
  <2> QED BY <1>2, <2>1, <2>3, <2>4
<1>10. CASE Clear
  <2>1. /\ UNCHANGED <<telemetry, billed, vars>> /\ pc = "idle" /\ pc' = "idle"
        /\ transcript' = <<>> /\ lastAssistantIndex' = 0
    BY <1>10 DEF Clear, history
  <2>2. Fresh' = 0
    <3>1. {i \in DOMAIN transcript' : transcript'[i].role = "assistant"} = {}
      BY <2>1
    <3>2. Assistants' = 0
      BY <3>1, FS_EmptySet DEF Assistants
    <3> QED BY <2>1, <3>2 DEF Fresh
  <2>3. tokensByLayer' = tokensByLayer
    BY <2>1 DEF vars
  <2>4. Total(tokensByLayer) + Fresh' =< Total(billed')
    BY <1>a, <1>b, <2>1, <2>2
  <2> QED BY <1>1, <2>1, <2>3, <2>4
<1>11. CASE Kill
  <2>1. UNCHANGED <<transcript, lastAssistantIndex, billed, vars>> /\ pc' = "killed"
    BY <1>11 DEF Kill, history
  <2>2. tokensByLayer' = tokensByLayer
    BY <2>1 DEF vars
  <2>3. CASE pc = "sink"
    <3>1. telemetry' \in CutAppends(telemetry, StepEvent) /\ StepEvent \in StepRecord
      BY <1>11, <2>3, StepRecords DEF Kill
    <3>2. ASSUME NEW l \in Layers
          PROVE  SeenIn(telemetry', l) + Pending(l)' =< tokensByLayer[l]
      <4>1. /\ SeenIn(telemetry', l) \in Nat /\ SeenIn(telemetry, l) \in Nat
            /\ Weight(StepEvent, l) \in Nat
            /\ SeenIn(telemetry', l) =< SeenIn(telemetry, l) + Weight(StepEvent, l)
        BY <1>a, <3>1, CutSeen
      <4>2. Pending(l) = Weight(StepEvent, l) /\ Pending(l)' = 0
        BY <2>1, <2>3 DEF Pending
      <4> QED BY <1>c, <4>1, <4>2
    <3> QED BY <1>2, <2>1, <2>2, <3>2
  <2>4. CASE pc # "sink"
    <3>1. telemetry' = telemetry
      BY <1>11, <2>4 DEF Kill
    <3>2. Fresh' = Fresh
      BY <2>1, FreshStays
    <3> QED BY <1>1, <1>b, <2>1, <2>2, <2>4, <3>1, <3>2
  <2> QED BY <2>3, <2>4
<1>12. CASE UNCHANGED svars
  <2>1. /\ UNCHANGED <<transcript, lastAssistantIndex, billed, telemetry, pc>>
        /\ tokensByLayer' = tokensByLayer /\ StepEvent' = StepEvent
    BY <1>12 DEF svars, own, bounds, history, vars, StepEvent
  <2>2. \A l \in Layers : Pending(l)' = Pending(l)
    BY <2>1 DEF Pending
  <2> QED BY <1>2, <1>c, <2>1, <2>2
<1> QED BY <1>3, <1>5, <1>6, <1>7, <1>8, <1>9, <1>10, <1>11, <1>12 DEF SNext, Prompt

LEMMA AllStep ==
  ASSUME SessionTypes, Positions, CountedAll, [SNext]_svars, SessionTypes', Positions'
  PROVE  CountedAll'
<1>a. /\ telemetry \in TelemetryFile /\ telemetry.lines \in Seq(AnyLine)
      /\ tokensByLayer \in [Layers -> Nat]
      /\ billed \in [Layers -> Nat] /\ current \in Layers /\ TypeOK /\ pos \in Nat
      /\ Fresh \in Nat /\ faults \in Nat
  BY FreshIsNat, ViewOfFile DEF SessionTypes, TypeOK
<1>b. faults + 1 # 0
  BY <1>a
<1>c. ASSUME NEW l \in Layers PROVE SeenIn(telemetry, l) \in Nat
  BY <1>a, SeenIsNat
<1>1. ASSUME UNCHANGED <<telemetry, transcript, lastAssistantIndex, billed, tokensByLayer,
                         current, faults>>,
             pc \notin {"sink", "killed"}, pc' \notin {"sink", "killed"},
             pc = pc' \/ (pc # "journal" /\ pc' # "journal")
      PROVE  CountedAll'
  <2>1. Fresh' = Fresh
    BY <1>1, FreshStays
  <2>2. \A l \in Layers : Pending(l) = 0 /\ Pending(l)' = 0 /\ Uncounted(l)' = Uncounted(l)
    BY <1>1, <2>1 DEF Pending, Uncounted
  <2> QED BY <1>1, <2>1, <2>2 DEF CountedAll
<1>2. ASSUME faults' = faults + 1 PROVE CountedAll'
  BY <1>b, <1>2 DEF CountedAll
<1>3. ASSUME NEW prompt \in PromptsTried, BeginPrompt(prompt) PROVE CountedAll'
  <2>1. /\ UNCHANGED <<telemetry, transcript, lastAssistantIndex, billed, faults>>
        /\ pc = "idle" /\ pc' = "agent"
    BY <1>3 DEF BeginPrompt, history
  <2>2. tokensByLayer' = tokensByLayer
    BY <1>3 DEF BeginPrompt, Route
  <2>3. Fresh' = Fresh
    BY <2>1, FreshStays
  <2> SUFFICES ASSUME faults = 0 PROVE CountedAll'
    BY <2>1 DEF CountedAll
  <2>4. Fresh = 0
    BY <2>1 DEF CountedAll
  <2>5. \A l \in Layers : /\ Pending(l) = 0 /\ Pending(l)' = 0
                          /\ Uncounted(l)' = 0 /\ Uncounted(l) = 0
    BY <2>1, <2>3, <2>4 DEF Pending, Uncounted
  <2> QED BY <2>1, <2>2, <2>3, <2>4, <2>5 DEF CountedAll
<1>4. ASSUME NEW rounds \in {1, 2}, AgentReturns(rounds) PROVE CountedAll'
  <2>a. 2 * rounds \in {1, 2, 4} /\ 2 * rounds =< 2 * rounds
    OBVIOUS
  <2>b. /\ Land(2 * rounds, rounds)
        /\ UNCHANGED <<telemetry, lastAssistantIndex, vars, faults>>
        /\ pc = "agent" /\ pc' = "journal"
    BY <1>4 DEF AgentReturns, bounds
  <2> DEFINE half == (2 * rounds) \div 2
  <2>1. /\ Assistants \in Nat /\ Assistants' = Assistants + half
        /\ billed' = [billed EXCEPT ![current] = @ + half]
        /\ half \in Nat
    BY <2>a, <2>b, LandFacts
  <2> HIDE DEF half
  <2>2. Fresh' = Fresh + half
    BY <2>1, <2>b, <1>a DEF Fresh, SessionTypes
  <2>3. tokensByLayer' = tokensByLayer /\ current' = current
    BY <2>b DEF vars
  <2> SUFFICES ASSUME faults = 0 PROVE CountedAll'
    BY <2>b DEF CountedAll
  <2>4. /\ Fresh = 0 /\ telemetry.tail = NoTail /\ Cardinality(TornIn(telemetry.lines)) = 0
    BY <2>b DEF CountedAll
  <2>5. ASSUME NEW l \in Layers
        PROVE  /\ billed'[l] = tokensByLayer[l] + Uncounted(l)'
               /\ tokensByLayer[l] = SeenIn(telemetry, l) + Pending(l)'
    <3>1. Pending(l) = 0 /\ Pending(l)' = 0
      BY <2>b DEF Pending
    <3>2. billed[l] = tokensByLayer[l] /\ tokensByLayer[l] = SeenIn(telemetry, l) + Pending(l)
      <4>1. /\ billed[l] = tokensByLayer[l] + Uncounted(l)
            /\ tokensByLayer[l] = SeenIn(telemetry, l) + Pending(l)
        BY <2>b DEF CountedAll
      <4> QED BY <1>a, <2>4, <4>1 DEF Uncounted
    <3>3. Uncounted(l)' = IF l = current THEN half ELSE 0
      BY <2>1, <2>2, <2>3, <2>4 DEF Uncounted
    <3>4. billed'[l] = IF l = current THEN billed[l] + half ELSE billed[l]
      BY <1>a, <2>1
    <3> QED BY <1>a, <2>1, <3>1, <3>2, <3>3, <3>4
  <2> QED BY <2>b, <2>3, <2>4, <2>5 DEF CountedAll
<1>5. ASSUME \/ \E count \in {1, 2} : AgentThrows(count)
             \/ JournalThrows \/ RecordThrows
      PROVE  CountedAll'
  BY <1>2, <1>5 DEF AgentThrows, JournalThrows, RecordThrows, Fault
<1>6. CASE JournalNext
  <2>1. /\ UNCHANGED <<telemetry, transcript, lastAssistantIndex, billed, faults, pc>>
        /\ pc = "journal"
    BY <1>6 DEF JournalNext, bounds, history
  <2>2. UNCHANGED <<tokensByLayer, current>>
    BY <1>6 DEF JournalNext, vars
  <2> QED BY <1>1, <2>1, <2>2
<1>7. CASE Account
  <2>1. /\ RecordUsage(Fresh) /\ UNCHANGED <<telemetry, transcript, billed, turns, faults>>
        /\ lastAssistantIndex' = Assistants /\ pc = "journal" /\ pc' = "sink"
        /\ pos' = Fresh
    BY <1>7 DEF Account, bounds, history
  <2>2. /\ tokensByLayer' = [tokensByLayer EXCEPT ![current] = @ + Fresh]
        /\ current' = current
    BY <1>a, <2>1, UsageTypes
  <2>3. Fresh' = 0
    <3>1. Assistants' = Assistants
      BY <2>1 DEF Assistants
    <3> QED BY <2>1, <3>1, FreshIsNat DEF Fresh
  <2> SUFFICES ASSUME faults = 0 PROVE CountedAll'
    BY <2>1 DEF CountedAll
  <2>4. telemetry.tail = NoTail /\ Cardinality(TornIn(telemetry.lines)) = 0
    BY <2>1 DEF CountedAll
  <2>5. ASSUME NEW l \in Layers
        PROVE  /\ billed[l] = tokensByLayer'[l] + Uncounted(l)'
               /\ tokensByLayer'[l] = SeenIn(telemetry, l) + Pending(l)'
    <3>1. Weight(StepEvent', l) = IF l = current THEN Fresh ELSE 0
      <4>1. StepEvent' = Step(Own, turns, current, Fresh)
        BY <2>1, <2>2 DEF StepEvent
      <4>2. Step(Own, turns, current, Fresh) \in StepRecord
        BY <1>a, SameLayers DEF Step, StepRecord, SessionTypes
      <4> QED BY <4>1, <4>2 DEF Weight, Step
    <3>2. Pending(l)' = IF l = current THEN Fresh ELSE 0
      BY <2>1, <3>1 DEF Pending
    <3>3. Pending(l) = 0
      BY <2>1 DEF Pending
    <3>4. tokensByLayer'[l] = IF l = current THEN tokensByLayer[l] + Fresh ELSE tokensByLayer[l]
      BY <1>a, <2>2
    <3>5. Uncounted(l)' = 0
      BY <2>3 DEF Uncounted
    <3>6. /\ billed[l] = tokensByLayer[l] + Uncounted(l)
          /\ tokensByLayer[l] = SeenIn(telemetry, l) + Pending(l)
      BY <2>1 DEF CountedAll
    <3>7. Uncounted(l) = IF l = current THEN Fresh ELSE 0
      BY DEF Uncounted
    <3> QED BY <1>a, <1>c, <3>2, <3>3, <3>4, <3>5, <3>6, <3>7
  <2> QED BY <2>1, <2>3, <2>4, <2>5 DEF CountedAll
<1>8. ASSUME NEW e \in StepRecord, telemetry' \in record(telemetry, e),
             UNCHANGED <<transcript, lastAssistantIndex, billed, tokensByLayer, current, faults>>,
             pc' = pc \/ (pc # "journal" /\ pc' # "journal"), pc # "killed",
             \A l \in Layers : Pending(l) = Weight(e, l) + Pending(l)' /\ Pending(l)' \in Nat
      PROVE  CountedAll'
  <2> SUFFICES ASSUME faults = 0 PROVE CountedAll'
    BY <1>8 DEF CountedAll
  <2>1. /\ telemetry.tail = NoTail /\ Cardinality(TornIn(telemetry.lines)) = 0
        /\ pc # "journal" => Fresh = 0
    BY <1>8 DEF CountedAll
  <2>2. Fresh' = Fresh
    BY <1>8, FreshStays
  <2>3. /\ telemetry'.tail = NoTail /\ telemetry'.lines = Append(telemetry.lines, e)
        /\ e \in AnyLine
    BY <1>a, <1>8, <2>1, TelemetryRecorded DEF Glue, AnyLine
  <2>4. Cardinality(TornIn(telemetry'.lines)) = 0
    <3>1. e # Garbled
      BY LinesDiffer
    <3>2. Cardinality(TornIn(telemetry'.lines))
            = Cardinality(TornIn(telemetry.lines)) + (IF e = Garbled THEN 1 ELSE 0)
      BY <1>a, <2>3, TornMore
    <3> QED BY <2>1, <3>1, <3>2
  <2>5. ASSUME NEW l \in Layers
        PROVE  /\ billed[l] = tokensByLayer[l] + Uncounted(l)'
               /\ tokensByLayer[l] = SeenIn(telemetry', l) + Pending(l)'
    <3>1. /\ SeenIn(telemetry, l) \in Nat /\ Weight(e, l) \in Nat
          /\ SeenIn(telemetry', l) = SeenIn(telemetry, l) + Weight(e, l)
      BY <1>a, <1>8, <2>1, RecordSeen
    <3>2. Uncounted(l)' = Uncounted(l)
      BY <1>8, <2>2 DEF Uncounted
    <3>3. /\ billed[l] = tokensByLayer[l] + Uncounted(l)
          /\ tokensByLayer[l] = SeenIn(telemetry, l) + Pending(l)
      BY <1>8 DEF CountedAll
    <3>4. Pending(l) = Weight(e, l) + Pending(l)' /\ Pending(l)' \in Nat
      BY <1>8
    <3> QED BY <3>1, <3>2, <3>3, <3>4
  <2> QED BY <1>8, <2>1, <2>2, <2>3, <2>4, <2>5 DEF CountedAll
<1>9. CASE RecordStep
  <2>1. /\ UNCHANGED <<transcript, lastAssistantIndex, billed, faults>>
        /\ pc = "sink" /\ pc' = "idle" /\ telemetry' \in record(telemetry, StepEvent)
    BY <1>9 DEF RecordStep, bounds
  <2>2. UNCHANGED <<tokensByLayer, current>>
    BY <1>9 DEF RecordStep, vars
  <2>3. \A l \in Layers : Pending(l) = Weight(StepEvent, l) + Pending(l)' /\ Pending(l)' \in Nat
    <3> SUFFICES ASSUME NEW l \in Layers
                 PROVE  Pending(l) = Weight(StepEvent, l) + Pending(l)' /\ Pending(l)' \in Nat
      OBVIOUS
    <3>1. Pending(l)' = 0 /\ Pending(l) = Weight(StepEvent, l)
      BY <2>1 DEF Pending
    <3> QED BY <3>1, WeightIsNat
  <2> QED BY <1>8, <2>1, <2>2, <2>3, StepRecords
<1>10. CASE OtherRecords
  <2>1. UNCHANGED <<transcript, lastAssistantIndex, billed, pc, turns, pos>>
    BY <1>10 DEF OtherRecords
  <2>2. UNCHANGED <<tokensByLayer, current>>
    BY <1>10 DEF OtherRecords, vars
  <2>3. ASSUME telemetry' \in record(telemetry, OtherStep), faults' = faults PROVE CountedAll'
    <3>1. StepEvent' = StepEvent
      BY <2>1, <2>2 DEF StepEvent
    <3>2. \A l \in Layers : Pending(l) = Weight(OtherStep, l) + Pending(l)' /\ Pending(l)' \in Nat
      <4> SUFFICES ASSUME NEW l \in Layers
                   PROVE  Pending(l) = Weight(OtherStep, l) + Pending(l)' /\ Pending(l)' \in Nat
        OBVIOUS
      <4>1. Pending(l)' = Pending(l)
        BY <2>1, <3>1 DEF Pending
      <4>2. Pending(l) \in Nat /\ Weight(OtherStep, l) = 0
        BY EventWeights, WeightIsNat DEF Pending
      <4> QED BY <4>1, <4>2
    <3>3. CASE pc = "killed"
      BY <2>1, <3>3 DEF CountedAll
    <3>4. CASE pc # "killed"
      BY <1>8, <2>1, <2>2, <2>3, <3>2, <3>4, StepRecords
    <3> QED BY <3>3, <3>4
  <2>4. \/ telemetry' \in record(telemetry, OtherStep) /\ faults' = faults
        \/ faults' = faults + 1
    BY <1>10 DEF OtherRecords, Fault
  <2> QED BY <1>2, <2>3, <2>4
<1>11. CASE Clear
  <2>1. /\ UNCHANGED <<telemetry, billed, faults>> /\ pc = "idle" /\ pc' = "idle"
        /\ transcript' = <<>> /\ lastAssistantIndex' = 0
    BY <1>11 DEF Clear, history
  <2>2. UNCHANGED <<tokensByLayer, current>>
    BY <1>11 DEF Clear, vars
  <2>3. Fresh' = 0
    <3>1. {i \in DOMAIN transcript' : transcript'[i].role = "assistant"} = {}
      BY <2>1
    <3>2. Assistants' = 0
      BY <3>1, FS_EmptySet DEF Assistants
    <3> QED BY <2>1, <3>2 DEF Fresh
  <2> SUFFICES ASSUME faults = 0 PROVE CountedAll'
    BY <2>1 DEF CountedAll
  <2>4. Fresh = 0
    BY <2>1 DEF CountedAll
  <2>5. \A l \in Layers : /\ Pending(l) = 0 /\ Pending(l)' = 0
                          /\ Uncounted(l)' = 0 /\ Uncounted(l) = 0
    BY <2>1, <2>3, <2>4 DEF Pending, Uncounted
  <2> QED BY <2>1, <2>2, <2>3, <2>4, <2>5 DEF CountedAll
<1>12. ASSUME NEW p \in Pins, setPin(p) PROVE CountedAll'
  <2>1. /\ UNCHANGED <<telemetry, transcript, lastAssistantIndex, billed, faults, pc>>
        /\ pc = "idle"
    BY <1>12 DEF setPin, own, bounds, history
  <2>2. UNCHANGED <<tokensByLayer, current>>
    BY <1>12 DEF setPin, SetPin
  <2> QED BY <1>1, <2>1, <2>2
<1>13. CASE Kill
  BY <1>13 DEF Kill, CountedAll
<1>14. CASE UNCHANGED svars
  <2>1. /\ UNCHANGED <<telemetry, transcript, lastAssistantIndex, billed, faults, pc>>
        /\ UNCHANGED <<tokensByLayer, current>> /\ StepEvent' = StepEvent
    BY <1>14 DEF svars, own, bounds, history, vars, StepEvent
  <2>2. Fresh' = Fresh
    BY <2>1, FreshStays
  <2>3. \A l \in Layers : Pending(l)' = Pending(l) /\ Uncounted(l)' = Uncounted(l)
    BY <2>1, <2>2 DEF Pending, Uncounted
  <2> QED BY <2>1, <2>2, <2>3 DEF CountedAll
<1> QED BY <1>3, <1>4, <1>5, <1>6, <1>7, <1>9, <1>10, <1>11, <1>12, <1>13, <1>14
        DEF SNext, Prompt
-----------------------------------------------------------------------------
LEMMA NewFile ==
  ASSUME NEW R
  PROVE  /\ EmptyFile \in FileOf(R) /\ EmptyFile.lines = <<>> /\ EmptyFile.tail = NoTail
         /\ DOMAIN EmptyFile.lines = {}
BY DEF EmptyFile, FileOf

LEMMA NothingSpent ==
  ASSUME NEW l
  PROVE  Spent(<<>>, l) = 0 /\ TornIn(<<>>) = {}
<1>1. Mine(<<>>, l) = {} /\ TornIn(<<>>) = {}
  BY DEF Mine, TornIn
<1> QED BY <1>1, SumOfNone DEF Spent

LEMMA InitSession == SInit => SessionInv
<1> SUFFICES ASSUME SInit PROVE SessionInv
  OBVIOUS
<1>a. /\ pc = "idle" /\ transcript = <<>> /\ journaled = 0 /\ lastAssistantIndex = 0
      /\ pos = 0 /\ journal = EmptyFile /\ telemetry = EmptyFile
      /\ turns = 0 /\ faults = 0 /\ clears = 0 /\ others = 0
      /\ made = 0 /\ returned = 0 /\ acked = {}
      /\ billed = [l \in Layers |-> 0] /\ tokensByLayer = [l \in Layers |-> 0]
  BY DEF SInit, Init
<1>1. SessionTypes
  <2>1. TypeOK
    <3>1. <<>> \in Seq({"pass", "fail"})
      OBVIOUS
    <3> QED BY <3>1 DEF SInit, Init, TypeOK, Layers
  <2>2. <<>> \in Seq(TranscriptMessage) /\ IsFiniteSet({})
    BY FS_EmptySet
  <2>3. journal \in FileOf(Nat) /\ telemetry \in TelemetryFile
    BY <1>a, NewFile DEF TelemetryFile
  <2> QED BY <1>a, <2>1, <2>2, <2>3 DEF SessionTypes
<1>b. Assistants = 0
  <2>1. {i \in DOMAIN transcript : transcript[i].role = "assistant"} = {}
    BY <1>a
  <2> QED BY <2>1, FS_EmptySet DEF Assistants
<1>c. Fresh = 0
  BY <1>a, <1>b DEF Fresh
<1>2. Positions
  BY <1>a, <1>b DEF Positions
<1>3. JournalClean
  BY <1>a, NewFile DEF JournalClean, Through
<1>4. JournalHeals
  <2>1. MissingIn(transcript, journal.lines, Through) = {}
    BY <1>a DEF MissingIn, Through
  <2>2. OpenJournal = 0
    BY <1>a, NewFile DEF OpenJournal, OpenTail
  <2>3. /\ IsFiniteSet(MissingIn(transcript, journal.lines, Through))
        /\ Cardinality(MissingIn(transcript, journal.lines, Through)) = 0
    BY <2>1, FS_EmptySet, Zenon
  <2> QED BY <1>a, <2>2, <2>3 DEF JournalHeals
<1>5. telemetry.lines = <<>> /\ telemetry.tail = NoTail
  BY <1>a, NewFile
<1>6. TelemetryTears
  <2>1. UnseenIn(acked, telemetry.lines) = {} /\ TornIn(telemetry.lines) = {}
    BY <1>a, <1>5, NothingSpent DEF UnseenIn
  <2>2. /\ Cardinality(UnseenIn(acked, telemetry.lines)) = 0
        /\ Cardinality(TornIn(telemetry.lines)) = 0
    BY <2>1, FS_EmptySet, Zenon
  <2>3. OpenTail(telemetry) = 0 /\ Killed = 0
    BY <1>a, <1>5 DEF OpenTail, Killed
  <2> QED BY <1>a, <2>2, <2>3 DEF TelemetryTears
<1>7. \A l \in Layers : SeenIn(telemetry, l) = 0 /\ Pending(l) = 0 /\ Uncounted(l) = 0
  BY <1>a, <1>5, <1>c, NothingSpent, Unweighed DEF SeenIn, Pending, Uncounted
<1>8. CountedOnce
  <2>1. Total(tokensByLayer) = 0 /\ Total(billed) = 0
    BY <1>a DEF Total, Layers
  <2> QED BY <1>a, <1>c, <1>7, <2>1 DEF CountedOnce
<1>9. CountedAll
  <2>1. Cardinality(TornIn(telemetry.lines)) = 0
    BY <1>5, NothingSpent, FS_EmptySet
  <2> QED BY <1>a, <1>5, <1>c, <1>7, <2>1 DEF CountedAll
<1> QED BY <1>1, <1>2, <1>3, <1>4, <1>6, <1>8, <1>9 DEF SessionInv

LEMMA NextSession == SessionInv /\ [SNext]_svars => SessionInv'
<1> SUFFICES ASSUME SessionInv, [SNext]_svars PROVE SessionInv'
  OBVIOUS
<1>a. /\ SessionTypes /\ Positions /\ JournalClean /\ JournalHeals
      /\ TelemetryTears /\ CountedOnce /\ CountedAll
  BY DEF SessionInv
<1>1. SessionTypes' /\ Positions'
  BY <1>a, TypesStep, PositionsStep
<1>2. JournalClean' /\ JournalHeals'
  BY <1>a, <1>1, CleanStep, HealsStep
<1>3. TelemetryTears'
  BY <1>a, TearsStep
<1>4. CountedOnce' /\ CountedAll'
  BY <1>a, <1>1, OnceStep, AllStep
<1> QED BY <1>1, <1>2, <1>3, <1>4 DEF SessionInv

\* The invariants of a session hold at every moment of it.
THEOREM SessionInvariance == SSpec => []SessionInv
BY InitSession, NextSession, PTL DEF SSpec

-----------------------------------------------------------------------------
\* session.ts:301-303: without a throw, a kill loses no more than the turn in
\* flight, however many turns and /clear came before.
THEOREM KillIsBounded == SSpec => []KillLosesOnlyTheTurn
<1>1. SessionInv => KillLosesOnlyTheTurn
  <2> SUFFICES ASSUME SessionInv, faults = 0, NEW k \in 1..returned
               PROVE  Len(journal.lines) >= k /\ journal.lines[k] = k
    BY DEF KillLosesOnlyTheTurn
  <2>1. returned \in Nat /\ journal.lines \in Seq(Nat \cup {Garbled})
    BY DEF SessionInv, SessionTypes, FileOf
  <2>2. /\ \A j \in DOMAIN journal.lines : journal.lines[j] = j
        /\ returned =< Len(journal.lines)
    BY DEF SessionInv, JournalClean
  <2>3. k \in 1..Len(journal.lines) /\ DOMAIN journal.lines = 1..Len(journal.lines)
    BY <2>1, <2>2
  <2> QED BY <2>2, <2>3
<1> QED BY <1>1, SessionInvariance, PTL

\* Every readable line of the journal is in what a reader gets of it.
LEMMA LinesAreReadBack ==
  ASSUME NEW f \in FileOf(Nat), NEW k \in DOMAIN f.lines, f.lines[k] # Garbled
  PROVE  f.lines[k] \in ReadBack(f)
<1>1. k \in DOMAIN AllLines(f) /\ AllLines(f)[k] = f.lines[k]
  BY DEF FileOf, AllLines
<1> QED BY <1>1 DEF ReadBack, IntactAt

\* session.ts:304-305: a turn whose journalling threw is journalled by the
\* next, which loses at most the one message glued to each torn line.
THEOREM NextTurnCatchesUp == SSpec => []NextTurnHeals
<1>1. SessionInv => NextTurnHeals
  <2> SUFFICES ASSUME SessionInv, journaled = Len(transcript)
               PROVE  Cardinality({transcript[i].id : i \in DOMAIN transcript}
                                    \ ReadBack(journal)) =< faults
    BY DEF NextTurnHeals
  <2> DEFINE M == MissingIn(transcript, journal.lines, Through)
             H == {transcript[i].id : i \in DOMAIN transcript} \ ReadBack(journal)
  <2>1. /\ journal \in FileOf(Nat) /\ transcript \in Seq(TranscriptMessage)
        /\ faults \in Nat /\ journaled \in Nat
    BY DEF SessionInv, SessionTypes
  <2>2. pc # "journal"
    BY <2>1 DEF SessionInv, Positions
  <2>3. Through = Len(transcript)
    BY <2>2 DEF Through
  <2>4. DOMAIN transcript = 1..Len(transcript)
    BY <2>1
  <2>5. \A i \in DOMAIN transcript : transcript[i].id \in Nat
    <3>1. \A i \in DOMAIN transcript : transcript[i] \in TranscriptMessage
      BY <2>1
    <3>2. \A m \in TranscriptMessage : m.id \in Nat
      BY DEF TranscriptMessage
    <3> QED BY <3>1, <3>2, Zenon
  <2>6. H \subseteq M
    <3> SUFFICES ASSUME NEW i \in DOMAIN transcript, transcript[i].id \notin ReadBack(journal)
                 PROVE  transcript[i].id \in M
      OBVIOUS
    <3>1. transcript[i].id # Garbled /\ i \in 1..Through
      BY <2>3, <2>4, <2>5, LinesDiffer
    <3>2. ASSUME NEW k \in DOMAIN journal.lines PROVE transcript[i].id # journal.lines[k]
      BY <2>1, <3>1, LinesAreReadBack
    <3> QED BY <3>1, <3>2 DEF MissingIn
  <2>7. IsFiniteSet(M) /\ Cardinality(M) + OpenJournal =< faults
    BY DEF SessionInv, JournalHeals
  <2>8. OpenJournal \in Nat
    BY DEF OpenJournal, OpenTail
  <2> HIDE DEF M, H
  <2>9. /\ IsFiniteSet(H) /\ Cardinality(H) =< Cardinality(M)
        /\ Cardinality(M) \in Nat /\ Cardinality(H) \in Nat
    <3>1. IsFiniteSet(H) /\ Cardinality(H) =< Cardinality(M)
      BY <2>6, <2>7, FS_Subset
    <3> QED BY <3>1, <2>7, FS_CardinalityType
  <2>10. Cardinality(H) =< faults
    BY <2>1, <2>7, <2>8, <2>9
  <2> QED BY <2>10 DEF H
<1> QED BY <1>1, SessionInvariance, PTL

\* cost.ts:105-110: a report that shrank says so.
THEOREM ShrinkingIsTold == SSpec => []ShrinkingIsSurfaced
<1>1. SessionInv => ShrinkingIsSurfaced
  <2> SUFFICES ASSUME SessionInv PROVE ShrinkingIsSurfaced
    OBVIOUS
  <2> DEFINE v == AllLines(telemetry)
             u == telemetry.lines
             seen == {e.id : e \in Range(readEvents(telemetry).events)}
  <2>1. /\ telemetry \in TelemetryFile /\ acked \in SUBSET Nat /\ IsFiniteSet(acked)
        /\ faults \in Nat
    BY DEF SessionInv, SessionTypes
  <2>2. /\ Cardinality(UnseenIn(acked, u)) =< Cardinality(TornIn(u))
        /\ Cardinality(TornIn(u)) + OpenTail(telemetry) =< faults + Killed
    BY DEF SessionInv, TelemetryTears
  <2>3. readEvents(telemetry).events = [i \in DOMAIN v \ TornIn(v) |-> v[i]]
    BY <2>1, CostReported
  <2>4. seen = {v[i].id : i \in DOMAIN v \ TornIn(v)}
    BY <2>3 DEF Range
  <2>5. Report.skipped = Cardinality(TornIn(v))
    BY <2>1, CostReported DEF Report
  <2>6. /\ u \in Seq(AnyLine) /\ v \in Seq(AnyLine)
        /\ telemetry.tail # NoTail => telemetry.tail \in AnyLine
                                      /\ v = Append(u, telemetry.tail)
        /\ telemetry.tail = NoTail => v = u
    BY <2>1, ViewOfFile
  <2> HIDE DEF v, u
  <2>7. Cardinality(TornIn(u)) \in Nat /\ Cardinality(TornIn(v)) \in Nat
    BY <2>6, TornFinite
  <2>8. /\ Cardinality(TornIn(u)) =< Cardinality(TornIn(v))
        /\ Cardinality(TornIn(v)) =< Cardinality(TornIn(u)) + OpenTail(telemetry)
    <3>1. CASE telemetry.tail = NoTail
      <4>1. v = u /\ OpenTail(telemetry) = 0
        BY <2>6, <3>1 DEF OpenTail
      <4> QED BY <2>7, <4>1
    <3>2. CASE telemetry.tail # NoTail
      <4>1. /\ v = Append(u, telemetry.tail) /\ telemetry.tail \in AnyLine
            /\ OpenTail(telemetry) = 1
        BY <2>6, <3>2 DEF OpenTail
      <4>2. Cardinality(TornIn(v)) = Cardinality(TornIn(u))
                                       + (IF telemetry.tail = Garbled THEN 1 ELSE 0)
        BY <2>6, <4>1, TornMore
      <4> QED BY <2>7, <4>1, <4>2
    <3> QED BY <3>1, <3>2
  <2>9. acked \ seen \subseteq UnseenIn(acked, u)
    <3>1. \A i \in DOMAIN u \ TornIn(u) : i \in DOMAIN v \ TornIn(v) /\ v[i] = u[i]
      <4>1. CASE telemetry.tail = NoTail
        BY <2>6, <4>1
      <4>2. CASE telemetry.tail # NoTail
        BY <2>6, <4>2, OneMoreLine DEF TornIn
      <4> QED BY <4>1, <4>2
    <3> QED BY <2>4, <3>1 DEF UnseenIn
  <2>10. IsFiniteSet(UnseenIn(acked, u))
    <3>1. UnseenIn(acked, u) \subseteq acked
      BY DEF UnseenIn
    <3> QED BY <2>1, <3>1, FS_Subset
  <2> DEFINE hidden == acked \ seen
  <2> HIDE DEF seen, hidden
  <2>11. /\ Cardinality(hidden) =< Cardinality(UnseenIn(acked, u))
         /\ Cardinality(hidden) \in Nat /\ Cardinality(UnseenIn(acked, u)) \in Nat
    <3>1. IsFiniteSet(hidden) /\ Cardinality(hidden) =< Cardinality(UnseenIn(acked, u))
      BY <2>9, <2>10, FS_Subset DEF hidden
    <3> QED BY <3>1, <2>10, FS_CardinalityType
  <2>12. Cardinality(hidden) =< Report.skipped
    BY <2>2, <2>5, <2>7, <2>8, <2>11
  <2>13. Report.skipped =< faults + Killed
    <3>1. OpenTail(telemetry) \in Nat /\ Killed \in Nat
      BY DEF OpenTail, Killed
    <3> QED BY <2>1, <2>2, <2>5, <2>7, <2>8, <3>1
  <2> QED BY <2>12, <2>13 DEF ShrinkingIsSurfaced, hidden, seen, Killed
<1> QED BY <1>1, SessionInvariance, PTL

\* What `/cost` says of the session, layer by layer.
LEMMA Reported ==
  ASSUME SessionTypes
  PROVE  /\ \A l \in Layers : Report.session.byLayer[l] = SeenIn(telemetry, l)
         /\ Report.session.byLayer = [l \in Layers |-> SeenIn(telemetry, l)]
<1>1. telemetry \in TelemetryFile
  BY DEF SessionTypes
<1>2. Report.session.byLayer = [l \in LAYERS |-> Spent(AllLines(telemetry), l)]
  BY <1>1, CostReported DEF Report
<1>3. \A l : Spent(AllLines(telemetry), l) = SeenIn(telemetry, l)
  BY <1>1, SpentInView DEF SeenIn
<1> QED BY <1>2, <1>3, SameLayers

\* session.ts:307-340: whatever throws, no request is counted twice.
THEOREM CountedAtMostOnce == SSpec => []NothingCountedTwice
<1>1. SessionInv => NothingCountedTwice
  <2> SUFFICES ASSUME SessionInv PROVE NothingCountedTwice
    OBVIOUS
  <2>1. /\ SessionTypes /\ Positions /\ CountedOnce /\ telemetry \in TelemetryFile
        /\ tokensByLayer \in [Layers -> Nat] /\ billed \in [Layers -> Nat]
    BY DEF SessionInv, SessionTypes, TypeOK
  <2>2. ASSUME NEW l \in Layers
        PROVE  Report.session.byLayer[l] =< tokensByLayer[l]
    <3>1. Report.session.byLayer[l] = SeenIn(telemetry, l)
      BY <2>1, Reported
    <3>2. /\ SeenIn(telemetry, l) \in Nat /\ Pending(l) \in Nat
          /\ tokensByLayer[l] \in Nat
      BY <2>1, SeenIsNat, WeightIsNat DEF Pending
    <3>3. SeenIn(telemetry, l) + Pending(l) =< tokensByLayer[l]
      BY <2>1 DEF CountedOnce
    <3> QED BY <3>1, <3>2, <3>3
  <2>3. Total(tokensByLayer) =< Total(billed)
    <3>1. Fresh \in Nat /\ Total(tokensByLayer) + Fresh =< Total(billed)
      BY <2>1, FreshIsNat DEF CountedOnce
    <3>2. Total(tokensByLayer) \in Nat /\ Total(billed) \in Nat
      BY <2>1, TotalAdds DEF Layers
    <3> QED BY <3>1, <3>2
  <2> QED BY <2>2, <2>3 DEF NothingCountedTwice
<1> QED BY <1>1, SessionInvariance, PTL

\* session.ts:305-341: without a throw, every request is counted once on the
\* layer it ran on, by the router and by `/cost`.
THEOREM AllSpendingCounted == SSpec => []SpendingIsCounted
<1>1. SessionInv => SpendingIsCounted
  <2> SUFFICES ASSUME SessionInv, pc = "idle", faults = 0
               PROVE  /\ tokensByLayer = billed
                      /\ Report.session.byLayer = billed /\ Report.skipped = 0
    BY DEF SpendingIsCounted
  <2>1. /\ SessionTypes /\ Positions /\ telemetry \in TelemetryFile
        /\ tokensByLayer \in [Layers -> Nat] /\ billed \in [Layers -> Nat]
    BY DEF SessionInv, SessionTypes, TypeOK
  <2>2. /\ telemetry.tail = NoTail /\ Cardinality(TornIn(telemetry.lines)) = 0
        /\ Fresh = 0
        /\ \A l \in Layers : /\ billed[l] = tokensByLayer[l] + Uncounted(l)
                             /\ tokensByLayer[l] = SeenIn(telemetry, l) + Pending(l)
    BY DEF SessionInv, CountedAll
  <2>3. \A l \in Layers : Uncounted(l) = 0 /\ Pending(l) = 0
    BY <2>2 DEF Uncounted, Pending
  <2>4. \A l \in Layers : billed[l] = tokensByLayer[l]
    BY <2>1, <2>2, <2>3
  <2>5. \A l \in Layers : tokensByLayer[l] = SeenIn(telemetry, l)
    BY <2>1, <2>2, <2>3, SeenIsNat
  <2>6. tokensByLayer = billed
    BY <2>1, <2>4
  <2>7. Report.session.byLayer = billed
    BY <2>1, <2>4, <2>5, Reported
  <2>8. Report.skipped = 0
    <3>1. AllLines(telemetry) = telemetry.lines
      BY <2>1, <2>2, ViewOfFile
    <3> QED BY <2>1, <2>2, <3>1, CostReported DEF Report
  <2> QED BY <2>6, <2>7, <2>8
<1> QED BY <1>1, SessionInvariance, PTL
=============================================================================
