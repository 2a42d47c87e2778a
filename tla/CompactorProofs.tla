--------------------------- MODULE CompactorProofs ---------------------------
(***************************************************************************)
(* Proofs about Compactor, for every set of messages, every limit and any  *)
(* number of faults, sessions and messages.  IInv is about what is frozen  *)
(* and what was sent.  BatchInv is about a batch under way: the tokens it  *)
(* counts are those of the transcript under its replacements, it takes the *)
(* largest outputs first, and it passes nothing over that it needs.        *)
(***************************************************************************)
EXTENDS Compactor, SumLemmas

-----------------------------------------------------------------------------
(* Lemmas about the operators.                                             *)

\* The message sent at an index is a message.
LEMMA ApplyFrozenType ==
    ASSUME NEW tr \in Seq(Message), NEW fz,
           \A i \in DOMAIN fz : fz[i] \in Message
    PROVE  /\ ApplyFrozen(tr, fz) \in Seq(Message)
           /\ Len(ApplyFrozen(tr, fz)) = Len(tr)
           /\ \A i \in 1..Len(tr) :
                ApplyFrozen(tr, fz)[i] = IF i \in DOMAIN fz THEN fz[i] ELSE tr[i]
BY DEF ApplyFrozen

\* A message outside the recent turns stays outside when the transcript grows
\* (compaction.ts:250-259).
LEMMA RecentShrinks ==
    ASSUME NEW tr \in Seq(Message), NEW m \in Message,
           NEW i \in 1..Len(tr), ~Recent(tr, i)
    PROVE  ~Recent(Append(tr, m), i)
<1> DEFINE Old == {j \in i..Len(tr) : tr[j].role = "assistant"}
           New == {j \in i..Len(Append(tr, m)) : Append(tr, m)[j].role = "assistant"}
<1>1. Old \subseteq New
  OBVIOUS
<1>2. New \subseteq i..(Len(tr) + 1)
  OBVIOUS
<1>3. IsFiniteSet(i..(Len(tr) + 1))
  BY FS_Interval
<1>4. IsFiniteSet(New)
  BY <1>2, <1>3, FS_Subset
<1>5. Cardinality(Old) =< Cardinality(New)
  BY <1>1, <1>4, FS_Subset
<1>6. Cardinality(Old) \in Nat /\ Cardinality(New) \in Nat
  BY <1>1, <1>4, FS_Subset, FS_CardinalityType
<1>7. ~(Cardinality(Old) =< KeepRecentTurns)
  BY DEF Recent
<1>8. ~(Cardinality(New) =< KeepRecentTurns)
  <2> HIDE DEF Old, New
  <2> QED BY <1>5, <1>6, <1>7, LimitsAssumption
<1> QED BY <1>8 DEF Recent

\* A placeholder is a message, compactable messages are not placeholders.
LEMMA PlaceholderType ==
    ASSUME NEW m \in Message
    PROVE  /\ Placeholder(m) \in Message /\ Placeholder(m).content = m.content
           /\ Placeholder(m).tokens = PlaceholderTokens[m.content]
           /\ PlaceholderTokens[m.content] \in Nat
BY LimitsAssumption DEF Placeholder, Message, Forms

LEMMA TranscriptType == Seq(Messages) \subseteq Seq(Message)
BY MessagesAssumption

-----------------------------------------------------------------------------
(* The inductive invariant.                                                *)

\* The candidates still to be examined are what the scan selected.
TodoOK ==
    pc = "batch" =>
        \A c \in todo :
            Compactable(transcript[c.index]) /\ ~Recent(transcript, c.index)

\* What is frozen was a candidate, and still qualifies as one.
FrozenOK ==
    \A i \in DOMAIN frozen :
        Compactable(transcript[i]) /\ ~Recent(transcript, i)

\* What was sent differs from the transcript at frozen indexes only.
SentOK ==
    /\ Len(decision.messages) =< Len(transcript)
    /\ \A i \in 1..Len(decision.messages) :
          decision.messages[i] = transcript[i] \/ i \in DOMAIN frozen

IInv == StateTypeOK /\ FrozenIsReversible /\ TodoOK /\ FrozenOK /\ SentOK

LEMMA NoDecisionType ==
    /\ NoDecision \in [messages : Seq(Message), mode : Modes,
                       compacted : BOOLEAN, reason : Reasons]
    /\ NoDecision.messages = <<>>
<1>1. <<>> \in Seq(Message)
  OBVIOUS
<1>2. "append-only" \in Modes /\ "none" \in Reasons
  BY DEF Modes, Reasons
<1> QED BY <1>1, <1>2 DEF NoDecision

\* A conversation starts in the invariant, whatever the cache holds.
LEMMA FreshIInv ==
    ASSUME CacheTypeOK', transcript' = <<>>, frozen' = <<>>, frozenThrough' = 0,
           batches' = 0, pc' = "ready", mandatory' = FALSE, todo' = {},
           compactedAny' = FALSE, kept' = {}, decision' = NoDecision, promised' \subseteq Contents,
           faults' \in 0..MaxFaults, sessions' \in 0..MaxSessions
    PROVE  IInv'
<1>1. /\ <<>> \in Seq(Messages)
      /\ Len(<<>>) = 0
      /\ DOMAIN <<>> = {}
  OBVIOUS
<1>2. StateTypeOK'
  BY <1>1, NoDecisionType DEF StateTypeOK
<1>3. FrozenIsReversible' /\ TodoOK' /\ FrozenOK'
  BY <1>1 DEF FrozenIsReversible, TodoOK, FrozenOK
<1>4. SentOK'
  BY <1>1, NoDecisionType DEF SentOK
<1> QED BY <1>2, <1>3, <1>4 DEF IInv

LEMMA InitIInv == Init => IInv
<1> SUFFICES ASSUME Init PROVE IInv
  OBVIOUS
<1>1. /\ <<>> \in Seq(Messages)
      /\ Len(<<>>) = 0
      /\ DOMAIN <<>> = {}
  OBVIOUS
<1>2. StateTypeOK
  <2>1. CacheTypeOK /\ faults \in 0..MaxFaults /\ sessions \in 0..MaxSessions
    BY LimitsAssumption DEF Init, CacheTypeOK
  <2>2. transcript \in Seq(Messages) /\ DOMAIN frozen = {} /\ todo = {}
    BY <1>1 DEF Init
  <2> QED BY <2>1, <2>2, NoDecisionType DEF Init, StateTypeOK
<1>3. FrozenIsReversible /\ TodoOK /\ FrozenOK
  BY <1>1 DEF Init, FrozenIsReversible, TodoOK, FrozenOK
<1>4. SentOK
  BY <1>1, NoDecisionType DEF Init, SentOK
<1> QED BY <1>2, <1>3, <1>4 DEF IInv

\* Growing the transcript by one message keeps the invariant.
LEMMA AppendIInv ==
    ASSUME IInv, NEW m \in Messages, Append1(m), pc # "batch",
           pc' \in {"ready", "sent"}
    PROVE  IInv'
<1> USE DEF IInv, Append1, cacheVars, batchVars
<1>1. transcript \in Seq(Message) /\ m \in Message
  BY TranscriptType, MessagesAssumption DEF StateTypeOK
<1>2. /\ transcript' \in Seq(Messages)
      /\ Len(transcript') = Len(transcript) + 1
      /\ \A i \in 1..Len(transcript) : transcript'[i] = transcript[i]
  BY DEF StateTypeOK
<1>3. StateTypeOK'
  BY <1>2 DEF StateTypeOK, CacheTypeOK
<1>4. FrozenIsReversible'
  BY <1>2 DEF FrozenIsReversible, StateTypeOK
<1>5. TodoOK'
  BY DEF TodoOK
<1>6. FrozenOK'
  BY <1>1, <1>2, RecentShrinks DEF FrozenOK, StateTypeOK
<1>7. SentOK'
  BY <1>2 DEF SentOK, StateTypeOK
<1> QED BY <1>3, <1>4, <1>5, <1>6, <1>7

\* Handing the current view to the provider keeps the invariant.
LEMMA DecideIInv ==
    ASSUME IInv, NEW mode \in Modes, NEW compacted \in BOOLEAN, NEW reason \in Reasons,
           Decide(mode, compacted, reason),
           UNCHANGED <<cacheVars, transcript, frozen, frozenThrough, batchVars,
                       faults, sessions>>,
           batches' \in Nat
    PROVE  IInv'
<1> USE DEF IInv, Decide, cacheVars, batchVars
<1>1. transcript \in Seq(Message)
  BY TranscriptType DEF StateTypeOK
<1>2. /\ decision'.messages = ApplyFrozen(transcript, frozen)
      /\ decision'.messages \in Seq(Message)
      /\ Len(decision'.messages) = Len(transcript)
      /\ \A i \in 1..Len(transcript) :
            decision'.messages[i] = IF i \in DOMAIN frozen THEN frozen[i] ELSE transcript[i]
  BY <1>1, ApplyFrozenType DEF StateTypeOK
<1>3. {frozen[i].content : i \in DOMAIN frozen} \subseteq Contents
  BY DEF StateTypeOK, Message
<1>4. StateTypeOK'
  BY <1>2, <1>3 DEF StateTypeOK, CacheTypeOK
<1>5. FrozenIsReversible' /\ TodoOK' /\ FrozenOK'
  BY DEF FrozenIsReversible, TodoOK, FrozenOK
<1>6. SentOK'
  BY <1>2 DEF SentOK, StateTypeOK
<1> QED BY <1>4, <1>5, <1>6

\* A put answers with the content in the memo, whichever way it goes.
LEMMA PutMemo ==
    ASSUME CacheTypeOK, NEW c \in Contents, Put(c) \/ PutFails(c)
    PROVE  CacheTypeOK' /\ memo \subseteq memo' /\ c \in memo'
BY DEF CacheTypeOK, Put, PutHits, PutStores, PutFails, cacheVars

\* Examining one candidate keeps the invariant.
LEMMA BatchStepIInv ==
    ASSUME IInv, NEW c \in todo, BatchStep(c)
    PROVE  IInv'
<1> USE DEF IInv, Examined, WorthPutting, NextUp, cacheVars, sessionVars, batchVars
<1>1. /\ pc = "batch"
      /\ c.index \in 1..Len(transcript)
      /\ Compactable(transcript[c.index])
      /\ ~Recent(transcript, c.index)
  BY DEF BatchStep, SkipUneconomic, SkipTooSmall, Freeze, PutThrows, StateTypeOK, TodoOK
<1>2. transcript[c.index] \in Message /\ ContentOf(c) \in Contents
  <2>1. transcript[c.index] \in Message
    <3>1. transcript \in Seq(Message)
      BY TranscriptType DEF StateTypeOK
    <3> QED BY <1>1, <3>1
  <2> QED BY <2>1 DEF ContentOf, Message
<1>3. CASE SkipUneconomic(c)
  BY <1>3 DEF SkipUneconomic, StateTypeOK, CacheTypeOK, FrozenIsReversible, TodoOK,
              FrozenOK, SentOK
<1>4. CASE SkipTooSmall(c)
  <2>1. CacheTypeOK' /\ memo \subseteq memo'
    BY <1>2, <1>4, PutMemo DEF SkipTooSmall, StateTypeOK
  <2> QED BY <1>4, <2>1 DEF SkipTooSmall, StateTypeOK, FrozenIsReversible, TodoOK,
                            FrozenOK, SentOK
<1>5. CASE PutThrows(c)
  <2>1. CacheTypeOK' /\ memo \subseteq memo'
    BY <1>2, <1>5, PutMemo DEF PutThrows, StateTypeOK
  <2>2. faults' \in 0..MaxFaults
    BY <1>5, LimitsAssumption DEF PutThrows, StateTypeOK
  <2> QED BY <1>5, <2>1, <2>2 DEF PutThrows, StateTypeOK, FrozenIsReversible, TodoOK,
                                  FrozenOK, SentOK
<1>6. CASE Freeze(c)
  <2>1. CacheTypeOK' /\ memo \subseteq memo' /\ ContentOf(c) \in memo'
    BY <1>2, <1>6, PutMemo DEF Freeze, StateTypeOK
  <2>2. /\ DOMAIN frozen' = DOMAIN frozen \cup {c.index}
        /\ frozen'[c.index] = Placeholder(transcript[c.index])
        /\ \A i \in DOMAIN frozen : i # c.index => frozen'[i] = frozen[i]
    BY <1>6 DEF Freeze
  <2>3. /\ Placeholder(transcript[c.index]) \in Message
        /\ Placeholder(transcript[c.index]).content = ContentOf(c)
    BY <1>2, PlaceholderType DEF ContentOf
  <2>4. frozenThrough' \in Nat
    BY <1>1, <1>6 DEF Freeze, StateTypeOK
  <2>5. StateTypeOK'
    BY <1>1, <1>6, <2>1, <2>2, <2>3, <2>4 DEF Freeze, StateTypeOK
  <2>6. FrozenIsReversible'
    BY <1>1, <1>6, <2>1, <2>2, <2>3 DEF Freeze, FrozenIsReversible, StateTypeOK
  <2>7. FrozenOK'
    BY <1>1, <1>6, <2>2 DEF Freeze, FrozenOK
  <2>8. TodoOK' /\ SentOK'
    BY <1>6, <2>2 DEF Freeze, TodoOK, SentOK
  <2> QED BY <2>5, <2>6, <2>7, <2>8
<1> QED BY <1>3, <1>4, <1>5, <1>6 DEF BatchStep

LEMMA NextIInv == IInv /\ [Next]_vars => IInv'
<1> SUFFICES ASSUME IInv, [Next]_vars PROVE IInv'
  OBVIOUS
<1> USE DEF IInv
<1>1. CASE UserPrompts
  BY <1>1, AppendIInv DEF UserPrompts
<1>2. CASE ToolFinishes
  BY <1>2, AppendIInv DEF ToolFinishes
<1>3. CASE ModelReplies
  BY <1>3, AppendIInv DEF ModelReplies
<1>4. CASE RequestFails
  BY <1>4 DEF RequestFails, StateTypeOK, CacheTypeOK, FrozenIsReversible, TodoOK,
              FrozenOK, SentOK, cacheVars, sessionVars, batchVars
<1>5. CASE StartSession
  <2>1. CacheTypeOK' /\ promised' \subseteq Contents /\ faults' \in 0..MaxFaults
    BY <1>5 DEF StartSession, Reopen, StateTypeOK, CacheTypeOK
  <2>2. sessions' \in 0..MaxSessions
    BY <1>5, LimitsAssumption DEF StartSession, StateTypeOK
  <2> QED BY <1>5, <2>1, <2>2, FreshIInv DEF StartSession
<1>6. CASE Expand
  <2>1. CacheTypeOK' /\ memo \subseteq memo'
    BY <1>6 DEF Expand, Get, StateTypeOK, CacheTypeOK
  <2> QED BY <1>6, <2>1 DEF Expand, StateTypeOK, FrozenIsReversible, TodoOK, FrozenOK,
                            SentOK, sessionVars, batchVars
<1>7. CASE AppendOnly
  BY <1>7, DecideIInv DEF AppendOnly, Modes, Reasons, StateTypeOK, sessionVars
<1>8. CASE BeginBatch
  <2>1. \A c \in todo' : /\ c.index \in 1..Len(transcript)
                         /\ Compactable(transcript[c.index])
                         /\ ~Recent(transcript, c.index)
    BY <1>8 DEF BeginBatch, Candidates, CandidateIndexes
  <2>2. mandatory' \in BOOLEAN
    <3>1. (Used >= HardLimit) \in BOOLEAN
      OBVIOUS
    <3> QED BY <1>8, <3>1 DEF BeginBatch
  <2>3. StateTypeOK'
    <3>1. kept' \subseteq Nat
      BY <1>8 DEF BeginBatch, StateTypeOK
    <3> QED BY <1>8, <2>1, <2>2, <3>1
        DEF BeginBatch, StateTypeOK, CacheTypeOK, cacheVars, sessionVars
  <2>4. TodoOK'
    BY <1>8, <2>1 DEF BeginBatch, TodoOK, sessionVars
  <2>5. FrozenIsReversible' /\ FrozenOK' /\ SentOK'
    BY <1>8 DEF BeginBatch, FrozenIsReversible, FrozenOK, SentOK, cacheVars, sessionVars
  <2> QED BY <2>3, <2>4, <2>5
<1>9. CASE \E c \in todo : BatchStep(c)
  BY <1>9, BatchStepIInv
<1>10. CASE EndBatch
  <2>1. batches' \in Nat
    <3>1. batches' \in {batches, batches + 1}
      BY <1>10, Zenon DEF EndBatch
    <3> QED BY <3>1 DEF StateTypeOK
  <2> DEFINE mode == IF mandatory THEN "mandatory" ELSE "opportunistic"
             reason == IF compactedAny THEN "batch"
                       ELSE IF mandatory THEN "nothing compactable" ELSE "nothing pays off"
  <2>2. mode \in Modes /\ reason \in Reasons /\ compactedAny \in BOOLEAN
    BY DEF Modes, Reasons, StateTypeOK
  <2>3. /\ Decide(mode, compactedAny, reason)
        /\ UNCHANGED <<cacheVars, transcript, frozen, frozenThrough, batchVars,
                       faults, sessions>>
    BY <1>10 DEF EndBatch
  <2> HIDE DEF mode, reason, IInv
  <2> QED BY <2>1, <2>2, <2>3, DecideIInv
<1>11. CASE UNCHANGED vars
  BY <1>11 DEF vars, StateTypeOK, CacheTypeOK, FrozenIsReversible, TodoOK, FrozenOK,
               SentOK, cacheVars, sessionVars, batchVars
<1> QED BY <1>1, <1>2, <1>3, <1>4, <1>5, <1>6, <1>7, <1>8, <1>9, <1>10, <1>11 DEF Next

\* The invariant holds in every reachable state.
THEOREM Invariance == Spec => []IInv
BY InitIInv, NextIInv, PTL DEF Spec

-----------------------------------------------------------------------------
(* The theorems.                                                           *)

\* Every state is well typed: in particular no step of the batch loop freezes
\* an index outside the transcript.
THEOREM TypeCorrect == Spec => []StateTypeOK
<1>1. IInv => StateTypeOK
  BY DEF IInv
<1> QED BY Invariance, <1>1, PTL

\* What is masked can be expanded within the session (compaction.ts:306-321).
THEOREM Reversibility == Spec => []FrozenIsReversible
<1>1. IInv => FrozenIsReversible
  BY DEF IInv
<1> QED BY Invariance, <1>1, PTL

\* Failures, images, user and assistant messages and the recent turns reach the
\* provider verbatim (SPEC 4.4 rule 5).
THEOREM Protection == Spec => []ProtectedSurvive
<1>1. IInv => ProtectedSurvive
  <2> SUFFICES ASSUME IInv, NEW i \in 1..Len(decision.messages),
                      decision.messages[i] # transcript[i]
               PROVE  /\ Compactable(transcript[i])
                      /\ Cardinality({j \in i..Len(transcript) :
                                        transcript[j].role = "assistant"}) > KeepRecentTurns
    BY DEF ProtectedSurvive, Compactable
  <2> DEFINE turns == {j \in i..Len(transcript) : transcript[j].role = "assistant"}
  <2>1. Compactable(transcript[i]) /\ ~(Cardinality(turns) =< KeepRecentTurns)
    BY DEF IInv, SentOK, FrozenOK, Recent
  <2>2. Cardinality(turns) \in Nat
    <3>1. i \in Nat /\ Len(transcript) \in Nat
      BY DEF IInv, StateTypeOK
    <3>2. IsFiniteSet(i..Len(transcript))
      BY <3>1, FS_Interval
    <3> QED BY <3>2, FS_Subset, FS_CardinalityType
  <2> HIDE DEF turns
  <2>3. Cardinality(turns) > KeepRecentTurns
    BY <2>1, <2>2, LimitsAssumption
  <2> QED BY <2>1, <2>3 DEF turns
<1> QED BY Invariance, <1>1, PTL

\* A frozen replacement never changes within a session, also across batches
\* that were cut short (compaction.ts:24-28).
THEOREM Stability == Spec => FrozenNeverChanges
<1> DEFINE Kept == sessions' = sessions =>
                     \A i \in DOMAIN frozen : i \in DOMAIN frozen' /\ frozen'[i] = frozen[i]
<1>1. IInv /\ [Next]_vars => [Kept]_vars
  <2> SUFFICES ASSUME IInv, Next PROVE Kept
    BY DEF Kept
  <2>1. CASE UNCHANGED frozen
    BY <2>1
  <2>2. CASE \E c \in todo : Freeze(c)
    <3>1. PICK c \in todo : Freeze(c)
      BY <2>2
    <3>2. c.index \in 1..Len(transcript) /\ transcript \in Seq(Message)
      BY TranscriptType DEF IInv, StateTypeOK
    <3>3. frozen' = [i \in DOMAIN frozen \cup {c.index} |->
                       IF i = c.index THEN Placeholder(transcript[i]) ELSE frozen[i]]
      BY <3>1 DEF Freeze
    <3>4. \A i \in DOMAIN frozen : frozen[i] = Placeholder(transcript[i])
      BY DEF IInv, FrozenIsReversible
    <3> QED BY <3>3, <3>4
  <2>3. CASE StartSession
    BY <2>3, LimitsAssumption DEF StartSession, IInv, StateTypeOK
  <2> QED BY <2>1, <2>2, <2>3
          DEF Next, UserPrompts, ToolFinishes, ModelReplies, Append1, RequestFails, Expand,
              AppendOnly, BeginBatch, BatchStep, SkipUneconomic, SkipTooSmall, PutThrows,
              EndBatch, sessionVars
<1> QED BY Invariance, <1>1, PTL DEF Spec, FrozenNeverChanges

-----------------------------------------------------------------------------
(* Outputs lost by failed puts.                                            *)

\* Contents that this or an earlier session holds a placeholder for, or may
\* answer a put with, although the disk does not have them.
Doubtful == (memo \cup promised) \ disk

LossBound == IsFiniteSet(Doubtful) /\ Cardinality(Doubtful) =< faults

\* A step that adds nothing to the doubtful contents keeps the bound.
LEMMA NoNewDoubt ==
    ASSUME LossBound, Doubtful' \subseteq Doubtful, UNCHANGED faults, faults \in Nat
    PROVE  LossBound'
<1>1. IsFiniteSet(Doubtful') /\ Cardinality(Doubtful') =< Cardinality(Doubtful)
  BY FS_Subset DEF LossBound
<1>2. Cardinality(Doubtful') \in Nat /\ Cardinality(Doubtful) \in Nat
  BY <1>1, FS_CardinalityType DEF LossBound
<1> QED BY <1>1, <1>2 DEF LossBound

LEMMA NextLoss == IInv /\ LossBound /\ [Next]_vars => LossBound'
<1> SUFFICES ASSUME IInv, LossBound, [Next]_vars PROVE LossBound'
  OBVIOUS
<1> faults \in Nat
  BY LimitsAssumption DEF IInv, StateTypeOK
<1>1. CASE \E c \in todo : PutThrows(c)
  <2>1. PICK c \in todo : PutThrows(c)
    BY <1>1
  <2> DEFINE k == ContentOf(c)
  <2>2. faults' = faults + 1 /\ faults \in Nat
    BY <2>1, LimitsAssumption DEF PutThrows, IInv, StateTypeOK
  <2>3. Doubtful' \subseteq Doubtful \cup {k}
    BY <2>1 DEF PutThrows, PutFails, Doubtful
  <2>4. /\ IsFiniteSet(Doubtful \cup {k})
        /\ Cardinality(Doubtful \cup {k}) =< Cardinality(Doubtful) + 1
    <3>1. IsFiniteSet(Doubtful) /\ Cardinality(Doubtful) \in Nat
      BY FS_CardinalityType DEF LossBound
    <3> HIDE DEF k
    <3> QED BY <3>1, FS_AddElement
  <2>5. /\ IsFiniteSet(Doubtful')
        /\ Cardinality(Doubtful') =< Cardinality(Doubtful \cup {k})
    BY <2>3, <2>4, FS_Subset
  <2>6. /\ Cardinality(Doubtful') \in Nat
        /\ Cardinality(Doubtful \cup {k}) \in Nat
        /\ Cardinality(Doubtful) \in Nat
    BY <2>4, <2>5, FS_CardinalityType DEF LossBound
  <2>7. Cardinality(Doubtful) =< faults
    BY DEF LossBound
  <2>8. Cardinality(Doubtful') =< faults'
    <3> HIDE DEF k
    <3> QED BY <2>2, <2>4, <2>5, <2>6, <2>7
  <2> QED BY <2>5, <2>8 DEF LossBound
<1>2. CASE AppendOnly \/ EndBatch
  <2>1. {frozen[i].content : i \in DOMAIN frozen} \subseteq memo
    BY DEF IInv, FrozenIsReversible
  <2>2. UNCHANGED <<memo, disk, faults>>
    BY <1>2 DEF AppendOnly, EndBatch, cacheVars
  <2>3. promised' = promised \cup {frozen[i].content : i \in DOMAIN frozen}
    BY <1>2 DEF AppendOnly, EndBatch, Decide
  <2> QED BY <2>1, <2>2, <2>3, NoNewDoubt DEF Doubtful
<1>3. CASE \E c \in todo : SkipTooSmall(c) \/ Freeze(c)
  BY <1>3, NoNewDoubt
     DEF SkipTooSmall, Freeze, Put, PutHits, PutStores, cacheVars, Doubtful
<1>4. CASE StartSession \/ Expand
  BY <1>4, NoNewDoubt DEF StartSession, Reopen, Expand, Get, Doubtful
<1>5. CASE UNCHANGED <<memo, disk, promised, faults>>
  BY <1>5, NoNewDoubt DEF Doubtful
<1> QED BY <1>1, <1>2, <1>3, <1>4, <1>5
        DEF Next, UserPrompts, ToolFinishes, ModelReplies, Append1, RequestFails,
            BeginBatch, BatchStep, SkipUneconomic, cacheVars, vars

\* Over any number of sessions and restarts, each put that throws makes at most
\* one promised output unreadable from disk (cache.ts:71-83).
THEOREM BoundedLoss == Spec => []OnlyFaultsLoseOutputs
<1>1. Init => LossBound
  <2> SUFFICES ASSUME Init PROVE LossBound
    OBVIOUS
  <2>1. Doubtful = {} /\ faults = 0
    BY DEF Init, Doubtful
  <2> QED BY <2>1, FS_EmptySet DEF LossBound
<1>2. IInv /\ LossBound => OnlyFaultsLoseOutputs
  <2> SUFFICES ASSUME IInv, LossBound PROVE OnlyFaultsLoseOutputs
    OBVIOUS
  <2>1. promised \ disk \subseteq Doubtful
    BY DEF Doubtful
  <2>2. /\ Cardinality(promised \ disk) =< Cardinality(Doubtful)
        /\ Cardinality(promised \ disk) \in Nat
        /\ Cardinality(Doubtful) \in Nat
    BY <2>1, FS_Subset, FS_CardinalityType DEF LossBound
  <2>3. Cardinality(Doubtful) =< faults /\ faults \in Nat
    BY LimitsAssumption DEF LossBound, IInv, StateTypeOK
  <2> QED BY <2>2, <2>3 DEF OnlyFaultsLoseOutputs
<1> QED BY Invariance, NextLoss, <1>1, <1>2, PTL DEF Spec

-----------------------------------------------------------------------------
(* The prompt view.                                                        *)

\* What was sent is the current view, except that batches since then may
\* already have masked some of it.
ViewOK ==
    \A i \in 1..Len(decision.messages) :
        ApplyFrozen(transcript, frozen)[i]
            \in {decision.messages[i], Placeholder(decision.messages[i])}

LEMMA DecideSends ==
    ASSUME NEW mode, NEW compacted, NEW reason, Decide(mode, compacted, reason)
    PROVE  decision'.messages = ApplyFrozen(transcript, frozen)
BY DEF Decide

LEMMA DecisionSends ==
    ASSUME AppendOnly \/ EndBatch
    PROVE  /\ decision'.messages = ApplyFrozen(transcript, frozen)
           /\ UNCHANGED <<transcript, frozen>>
<1>1. UNCHANGED <<transcript, frozen>>
  BY DEF AppendOnly, EndBatch, sessionVars
<1>2. \E mode, compacted, reason : Decide(mode, compacted, reason)
  BY Zenon DEF AppendOnly, EndBatch
<1> QED BY <1>1, <1>2, DecideSends

\* A step of the agent loop leaves the view of what was sent as it is.
LEMMA AppendKeepsView ==
    ASSUME IInv, IInv', UserPrompts \/ ToolFinishes \/ ModelReplies
    PROVE  /\ UNCHANGED decision
           /\ \A i \in 1..Len(decision.messages) :
                ApplyFrozen(transcript', frozen')[i] = ApplyFrozen(transcript, frozen)[i]
<1> USE DEF IInv
<1>1. transcript \in Seq(Message) /\ transcript' \in Seq(Message)
  BY TranscriptType DEF StateTypeOK
<1>2. Len(decision.messages) =< Len(transcript)
  BY DEF SentOK
<1>3. /\ \A i \in 1..Len(transcript) : transcript'[i] = transcript[i]
      /\ Len(transcript) =< Len(transcript')
      /\ UNCHANGED <<frozen, decision>>
  BY <1>1, MessagesAssumption DEF UserPrompts, ToolFinishes, ModelReplies, Append1
<1> QED BY <1>1, <1>2, <1>3 DEF ApplyFrozen, StateTypeOK

LEMMA NextView ==
    ASSUME IInv, IInv', ViewOK, [Next]_vars
    PROVE  ViewOK'
<1> USE DEF IInv
<1>1. transcript \in Seq(Message) /\ transcript' \in Seq(Message)
  BY TranscriptType DEF StateTypeOK
<1>2. /\ \A i \in 1..Len(transcript) : ApplyFrozen(transcript, frozen)[i] =
            IF i \in DOMAIN frozen THEN frozen[i] ELSE transcript[i]
      /\ \A i \in 1..Len(transcript') : ApplyFrozen(transcript', frozen')[i] =
            IF i \in DOMAIN frozen' THEN frozen'[i] ELSE transcript'[i]
  BY DEF ApplyFrozen
<1>3. Len(decision.messages) =< Len(transcript) /\ Len(decision'.messages) =< Len(transcript')
  BY DEF SentOK
<1>4. CASE UserPrompts \/ ToolFinishes \/ ModelReplies
  BY <1>4, AppendKeepsView DEF ViewOK
<1>5. CASE AppendOnly \/ EndBatch
  <2>1. /\ decision'.messages = ApplyFrozen(transcript, frozen)
        /\ UNCHANGED <<transcript, frozen>>
    BY <1>5, DecisionSends
  <2> QED BY <2>1 DEF ViewOK
<1>6. CASE BeginBatch
  BY <1>6 DEF BeginBatch, ViewOK, sessionVars
<1>7. CASE \E c \in todo : Freeze(c)
  <2>1. PICK c \in todo : Freeze(c)
    BY <1>7
  <2>2. /\ UNCHANGED <<transcript, decision>>
        /\ frozen' = [i \in DOMAIN frozen \cup {c.index} |->
                        IF i = c.index THEN Placeholder(transcript[i]) ELSE frozen[i]]
    BY <2>1 DEF Freeze, WorthPutting, NextUp
  <2> SUFFICES ASSUME NEW i \in 1..Len(decision.messages)
               PROVE  ApplyFrozen(transcript', frozen')[i]
                        \in {decision.messages[i], Placeholder(decision.messages[i])}
    BY <2>2 DEF ViewOK
  <2>3. i \in 1..Len(transcript) /\ i \in 1..Len(transcript')
    BY <1>1, <1>3, <2>2 DEF StateTypeOK
  <2>4. CASE i # c.index
    <3>1. ApplyFrozen(transcript', frozen')[i] = ApplyFrozen(transcript, frozen)[i]
      BY <1>2, <2>2, <2>3, <2>4
    <3> QED BY <3>1 DEF ViewOK
  <2>5. CASE i = c.index
    <3>1. ApplyFrozen(transcript', frozen')[i] = Placeholder(transcript[i])
      BY <1>2, <2>2, <2>3, <2>5
    <3>2. CASE i \in DOMAIN frozen
      <4>1. ApplyFrozen(transcript, frozen)[i] = Placeholder(transcript[i])
        BY <1>2, <2>3, <3>2 DEF FrozenIsReversible
      <4> QED BY <3>1, <4>1 DEF ViewOK
    <3>3. CASE i \notin DOMAIN frozen
      BY <3>1, <3>3 DEF SentOK
    <3> QED BY <3>2, <3>3
  <2> QED BY <2>4, <2>5
<1>8. CASE \E c \in todo : SkipUneconomic(c) \/ SkipTooSmall(c) \/ PutThrows(c)
  BY <1>8 DEF SkipUneconomic, SkipTooSmall, PutThrows, ViewOK, sessionVars
<1>9. CASE StartSession
  BY <1>9 DEF StartSession, NoDecision, ViewOK
<1>10. CASE RequestFails \/ Expand \/ UNCHANGED vars
  BY <1>10 DEF RequestFails, Expand, ViewOK, vars, sessionVars, batchVars
<1> QED BY <1>4, <1>5, <1>6, <1>7, <1>8, <1>9, <1>10 DEF Next, BatchStep

\* A decision extends the view it replaces, rewrites it, or shows what was owed.
LEMMA DecisionIsViewStep ==
    ASSUME IInv, ViewOK, AppendOnly \/ EndBatch
    PROVE  View!Extend \/ View!Rewrite \/ View!Settle
<1> USE DEF IInv
<1> DEFINE old == decision.messages
           new == ApplyFrozen(transcript, frozen)
<1>1. /\ decision'.messages = new
      /\ Len(old) \in Nat /\ Len(new) = Len(transcript) /\ Len(old) =< Len(new)
      /\ old \in Seq(Message) /\ new \in Seq(Message)
  <2>1. decision'.messages = new
    BY DecisionSends
  <2>2. transcript \in Seq(Message) /\ old \in Seq(Message) /\ Len(old) =< Len(transcript)
    BY TranscriptType DEF StateTypeOK, SentOK
  <2>3. new \in Seq(Message) /\ Len(new) = Len(transcript)
    BY <2>2, ApplyFrozenType DEF StateTypeOK
  <2> QED BY <2>1, <2>2, <2>3
<1>2. View!Masks
  <2>1. \A i \in 1..Len(old) : new[i] \in {old[i], Placeholder(old[i])}
    BY DEF ViewOK
  <2> QED BY <1>1, <2>1 DEF View!Masks
<1>3. Owed' = FALSE /\ UNCHANGED faults
  <2>1. ApplyFrozen(transcript', frozen') = decision'.messages
    BY <1>1, DecisionSends
  <2> QED BY <2>1 DEF Owed, AppendOnly, EndBatch
<1>4. CASE EndBatch /\ compactedAny
  <2>1. batches' = batches + 1
    BY <1>4 DEF EndBatch
  <2> QED BY <1>2, <1>3, <2>1 DEF View!Rewrite
<1>5. CASE (AppendOnly \/ ~compactedAny) /\ Owed
  <2>1. UNCHANGED batches
    BY <1>5 DEF AppendOnly, EndBatch, sessionVars
  <2> QED BY <1>2, <1>3, <1>5, <2>1 DEF View!Settle
<1>6. CASE (AppendOnly \/ ~compactedAny) /\ ~Owed
  <2>1. UNCHANGED batches
    BY <1>6 DEF AppendOnly, EndBatch, sessionVars
  <2>2. \A i \in 1..Len(old) : new[i] = old[i]
    BY <1>6 DEF Owed, AppendOnly, AwaitsRequest
  <2>3. View!IsPrefix(old, new)
    <3>1. SubSeq(old, 1, Len(old)) = SubSeq(new, 1, Len(old))
      <4> HIDE DEF old, new
      <4> QED BY <1>1, <2>2
    <3> QED BY <1>1, <3>1 DEF View!IsPrefix
  <2>4. Owed = FALSE
    BY <1>6 DEF Owed
  <2> QED BY <1>1, <1>3, <2>1, <2>3, <2>4 DEF View!Extend
<1> QED BY <1>4, <1>5, <1>6

\* Masking inside a batch shows nothing yet, and takes over what was owed.
LEMMA FreezeIsViewStep ==
    ASSUME IInv, NEW c \in todo, Freeze(c)
    PROVE  View!Settle \/ UNCHANGED View!viewVars
<1>1. Owed' = FALSE /\ UNCHANGED <<decision, batches, faults>>
  BY DEF Freeze, WorthPutting, NextUp, Owed
<1>2. View!Masks
  <2>1. decision.messages \in Seq(Message)
    BY DEF IInv, StateTypeOK
  <2> QED BY <1>1, <2>1 DEF View!Masks
<1>3. Owed \in BOOLEAN
  BY DEF Owed
<1> QED BY <1>1, <1>2, <1>3 DEF View!Settle, View!viewVars

\* The provider sees an append-only conversation but for counted batches, each
\* of which masks messages and changes nothing else, and for at most one
\* uncounted rewrite per put that threw (compaction.ts:20-28).
THEOREM PromptViewRefinement == Spec => ImplementsPromptView
<1>1. Init => View!ViewInit /\ ViewOK
  BY DEF Init, NoDecision, View!ViewInit, ViewOK, Owed
<1>2. IInv /\ IInv' /\ ViewOK /\ [Next]_vars => ViewOK'
  BY NextView
<1>3. IInv /\ IInv' /\ ViewOK /\ [Next]_vars => [View!ViewNext]_(View!viewVars)
  <2> SUFFICES ASSUME IInv, IInv', ViewOK, [Next]_vars
               PROVE View!ViewNext \/ UNCHANGED View!viewVars
    OBVIOUS
  <2>1. CASE AppendOnly \/ EndBatch
    BY <2>1, DecisionIsViewStep DEF View!ViewNext
  <2>2. CASE StartSession
    <3>1. Owed' = FALSE
      BY <2>2 DEF StartSession, NoDecision, Owed
    <3> QED BY <2>2, <3>1 DEF StartSession, NoDecision, View!NewConversation, View!ViewNext
  <2>3. CASE \E c \in todo : Freeze(c)
    BY <2>3, FreezeIsViewStep DEF View!ViewNext
  <2>4. CASE \E c \in todo : PutThrows(c)
    <3>1. Owed' \in BOOLEAN
      BY DEF Owed
    <3> QED BY <2>4, <3>1 DEF PutThrows, sessionVars, View!Cut, View!ViewNext
  <2>5. CASE UserPrompts \/ ToolFinishes \/ ModelReplies
    <3>1. /\ UNCHANGED <<decision, batches, faults>>
          /\ pc # "batch" /\ pc' # "batch"
      BY <2>5 DEF UserPrompts, ToolFinishes, ModelReplies, Append1
    <3>2. UNCHANGED Owed
      BY <2>5, <3>1, AppendKeepsView DEF Owed
    <3> QED BY <3>1, <3>2 DEF View!viewVars
  <2>6. CASE BeginBatch
    <3>1. UNCHANGED Owed
      BY <2>6 DEF BeginBatch, AwaitsRequest, sessionVars, Owed
    <3> QED BY <2>6, <3>1 DEF BeginBatch, sessionVars, View!viewVars
  <2>7. CASE RequestFails \/ Expand \/ UNCHANGED vars
             \/ \E c \in todo : SkipUneconomic(c) \/ SkipTooSmall(c)
    <3>1. /\ UNCHANGED <<decision, batches, faults, transcript, frozen, compactedAny>>
          /\ pc' = pc \/ (pc # "batch" /\ pc' # "batch")
      BY <2>7 DEF RequestFails, Expand, SkipUneconomic, SkipTooSmall, sessionVars,
                  batchVars, vars
    <3>2. UNCHANGED Owed
      BY <3>1 DEF Owed
    <3> QED BY <3>1, <3>2 DEF View!viewVars
  <2> QED BY <2>1, <2>2, <2>3, <2>4, <2>5, <2>6, <2>7 DEF Next, BatchStep
<1> QED BY Invariance, <1>1, <1>2, <1>3, PTL DEF Spec, ImplementsPromptView, View!ViewSpec

-----------------------------------------------------------------------------
(* What a batch leaves of the transcript.                                  *)

\* What a running batch counts, and what it has still to look at.
Counted ==
    pc = "batch" =>
        /\ remaining = Used
        /\ \A c \in todo : /\ c.index \notin DOMAIN frozen
                           /\ c.tokens = transcript[c.index].tokens
                           /\ \A d \in todo : d.index = c.index => d = c

\* A mandatory batch overlooks nothing that a placeholder could make smaller.
NothingOverlooked ==
    pc = "batch" /\ mandatory =>
        \A i \in CandidateIndexes(transcript, frozen) :
            \/ \E c \in todo : c.index = i
            \/ transcript[i].tokens =< PlaceholderTokens[transcript[i].content]

\* What it has rewritten is larger than what is left.
LargestFirst ==
    pc = "batch" /\ mandatory =>
        /\ kept \subseteq DOMAIN frozen
        /\ \A i \in DOMAIN frozen \ kept :
              \A c \in todo : Larger(transcript, i, c.index)

BatchInv == Counted /\ NothingOverlooked /\ LargestFirst /\ NoExtraRewrites
            /\ MandatoryFits

\* Two views of one length that differ in one message.
LEMMA OneMessageChanged ==
    ASSUME NEW v \in Seq(Message), NEW w \in Seq(Message), Len(w) = Len(v),
           NEW k \in 1..Len(v), \A i \in 1..Len(v) : i # k => w[i] = v[i]
    PROVE  /\ TotalTokens(v) \in Nat /\ TotalTokens(w) \in Nat
           /\ TotalTokens(w) + v[k].tokens = TotalTokens(v) + w[k].tokens
<1> DEFINE c == [i \in 1..Len(v) |-> v[i].tokens]
           d == [i \in 1..Len(w) |-> w[i].tokens]
<1>1. Len(v) \in Nat /\ IsFiniteSet(1..Len(v))
  <2>1. Len(v) \in Nat
    OBVIOUS
  <2> QED BY <2>1, FS_Interval
<1>2. \A i \in 1..Len(v) : v[i] \in Message /\ w[i] \in Message
  OBVIOUS
<1>3. \A m \in Message : m.tokens \in Nat
  BY DEF Message
<1>4. /\ \A i \in 1..Len(v) : c[i] \in Nat /\ d[i] \in Nat
      /\ \A i \in 1..Len(v) : i # k => d[i] = c[i]
  BY <1>2, <1>3
<1>5. c[k] = v[k].tokens /\ d[k] = w[k].tokens
  OBVIOUS
<1>6. /\ TotalTokens(v) = SumFunctionOnSet(c, 1..Len(v))
      /\ TotalTokens(w) = SumFunctionOnSet(d, 1..Len(v))
  BY DEF TotalTokens, TokensOf
<1> HIDE DEF c, d
<1>7. /\ SumFunctionOnSet(c, 1..Len(v)) \in Nat /\ SumFunctionOnSet(d, 1..Len(v)) \in Nat
      /\ SumFunctionOnSet(d, 1..Len(v)) + c[k] = SumFunctionOnSet(c, 1..Len(v)) + d[k]
  <2>1. DifferAt(c, d, 1..Len(v), k)
    BY <1>1, <1>4 DEF DifferAt
  <2>2. SumsDifferAt(c, d, 1..Len(v), k)
    BY <2>1, SumOfChanged
  <2> QED BY <2>2 DEF SumsDifferAt
<1> QED BY <1>5, <1>6, <1>7

\* gz freezes message k as m on top of fz, and what the view counts then.
FreezesOne(tr, fz, gz, k, m) ==
    /\ tr \in Seq(Message) /\ k \in 1..Len(tr) /\ k \notin DOMAIN fz /\ m \in Message
    /\ \A i \in DOMAIN fz : fz[i] \in Message
    /\ gz = [i \in DOMAIN fz \cup {k} |-> IF i = k THEN m ELSE fz[i]]

ReplacesTokens(tr, fz, gz, k, m) ==
    /\ TotalTokens(ApplyFrozen(tr, fz)) \in Nat
    /\ TotalTokens(ApplyFrozen(tr, gz)) \in Nat
    /\ TotalTokens(ApplyFrozen(tr, gz)) + tr[k].tokens
         = TotalTokens(ApplyFrozen(tr, fz)) + m.tokens

\* Freezing one more message replaces its tokens in the total.
LEMMA FreezingFrees ==
    ASSUME NEW tr, NEW fz, NEW gz, NEW k, NEW m, FreezesOne(tr, fz, gz, k, m)
    PROVE  ReplacesTokens(tr, fz, gz, k, m)
<1> USE DEF FreezesOne, ReplacesTokens
<1> DEFINE v == ApplyFrozen(tr, fz)
           w == ApplyFrozen(tr, gz)
<1>1. \A i \in DOMAIN gz : gz[i] \in Message
  OBVIOUS
<1>2. /\ v \in Seq(Message) /\ Len(v) = Len(tr)
      /\ \A i \in 1..Len(tr) : v[i] = IF i \in DOMAIN fz THEN fz[i] ELSE tr[i]
  BY ApplyFrozenType
<1>3. /\ w \in Seq(Message) /\ Len(w) = Len(tr)
      /\ \A i \in 1..Len(tr) : w[i] = IF i \in DOMAIN gz THEN gz[i] ELSE tr[i]
  BY <1>1, ApplyFrozenType
<1> HIDE DEF v, w
<1>4. v[k] = tr[k] /\ w[k] = m
  BY <1>2, <1>3
<1>5. \A i \in 1..Len(v) : i # k => w[i] = v[i]
  BY <1>2, <1>3
<1>6. /\ TotalTokens(v) \in Nat /\ TotalTokens(w) \in Nat
      /\ TotalTokens(w) + v[k].tokens = TotalTokens(v) + w[k].tokens
  BY <1>2, <1>3, <1>5, OneMessageChanged
<1> QED BY <1>4, <1>6 DEF v, w

\* The view depends on what is frozen and as what.
LEMMA SameView ==
    ASSUME NEW tr, NEW fz, NEW gz, DOMAIN gz = DOMAIN fz,
           \A i \in DOMAIN fz : gz[i] = fz[i]
    PROVE  ApplyFrozen(tr, gz) = ApplyFrozen(tr, fz)
<1>1. \A i \in 1..Len(tr) :
         (IF i \in DOMAIN gz THEN gz[i] ELSE tr[i])
           = (IF i \in DOMAIN fz THEN fz[i] ELSE tr[i])
  OBVIOUS
<1> QED BY <1>1 DEF ApplyFrozen

\* k, which is frozen next, is no larger than what the batch has frozen so far.
\* Without it and whatever else is no larger, the view is the one it found.
LEMMA LastIsSmallest ==
    ASSUME NEW tr, NEW fz, NEW gz, NEW old, NEW k, k \in 1..Len(tr), k \notin DOMAIN fz,
           tr[k].tokens \in Nat, old \subseteq DOMAIN fz,
           \A j \in DOMAIN fz \ old : Larger(tr, j, k),
           DOMAIN gz = DOMAIN fz \cup {k}, \A j \in DOMAIN fz : gz[j] = fz[j]
    PROVE  OnlyLarger(tr, gz, old, k) = ApplyFrozen(tr, fz)
<1> DEFINE S == {j \in DOMAIN gz : j \in old \/ Larger(tr, j, k)}
           hz == Restrict(gz, S)
<1>1. ~Larger(tr, k, k) /\ k \notin old
  <2>1. k \in Nat
    BY DEF Larger
  <2> QED BY <2>1 DEF Larger
<1>2. S = DOMAIN fz
  BY <1>1
<1> HIDE DEF S
<1>3. DOMAIN hz = DOMAIN fz /\ \A j \in DOMAIN fz : hz[j] = fz[j]
  BY <1>2 DEF Restrict
<1> HIDE DEF hz
<1>4. ApplyFrozen(tr, hz) = ApplyFrozen(tr, fz)
  BY <1>3, SameView
<1> QED BY <1>4 DEF OnlyLarger, S, hz

\* Freezing a smaller one leaves the view without the smaller ones as it was.
LEMMA SmallerIsLeftOut ==
    ASSUME NEW tr, NEW fz, NEW gz, NEW old, NEW i, NEW k, i \in Nat, k \in Nat,
           tr[i].tokens \in Nat, tr[k].tokens \in Nat, k \notin DOMAIN fz,
           k \notin old, Larger(tr, i, k),
           DOMAIN gz = DOMAIN fz \cup {k}, \A j \in DOMAIN fz : gz[j] = fz[j]
    PROVE  OnlyLarger(tr, gz, old, i) = OnlyLarger(tr, fz, old, i)
<1> DEFINE S == {j \in DOMAIN fz : j \in old \/ Larger(tr, j, i)}
           T == {j \in DOMAIN gz : j \in old \/ Larger(tr, j, i)}
           hz == Restrict(fz, S)
           lz == Restrict(gz, T)
<1>1. ~Larger(tr, k, i)
  BY DEF Larger
<1>2. T = S /\ S \subseteq DOMAIN fz
  BY <1>1
<1> HIDE DEF S, T
<1>3. DOMAIN lz = DOMAIN hz /\ \A j \in DOMAIN hz : lz[j] = hz[j]
  BY <1>2 DEF Restrict
<1> HIDE DEF hz, lz
<1>4. ApplyFrozen(tr, lz) = ApplyFrozen(tr, hz)
  BY <1>3, SameView
<1> QED BY <1>4 DEF OnlyLarger, S, T, hz, lz

LEMMA InitBatchInv == Init => BatchInv
BY DEF Init, BatchInv, Counted, NothingOverlooked, LargestFirst, NoExtraRewrites,
       MandatoryFits

\* Whatever is outside a batch and sends nothing keeps what a batch keeps.
LEMMA OutsideBatches ==
    ASSUME BatchInv, pc' # "batch",
           \/ pc' # "sent"
           \/ pc = "sent" /\ UNCHANGED <<decision, transcript, frozen>>
           \/ decision'.mode # "mandatory"
    PROVE  BatchInv'
<1>1. MandatoryFits'
  BY DEF BatchInv, MandatoryFits
<1> QED BY <1>1 DEF BatchInv, Counted, NothingOverlooked, LargestFirst, NoExtraRewrites

\* One candidate for each index, with the tokens of its message.
LEMMA CandidateShape ==
    ASSUME NEW tr, NEW fz
    PROVE  /\ \A c \in Candidates(tr, fz) : /\ c.index \in CandidateIndexes(tr, fz)
                                         /\ c.tokens = tr[c.index].tokens
           /\ \A c, d \in Candidates(tr, fz) : d.index = c.index => d = c
           /\ \A i \in CandidateIndexes(tr, fz) : \E c \in Candidates(tr, fz) : c.index = i
<1> DEFINE S(i) == TokensOf(ApplyFrozen(tr, fz), i + 1, Len(tr))
           C(i) == [index |-> i, tokens |-> tr[i].tokens, suffix |-> S(i)]
<1>1. Candidates(tr, fz) = {C(i) : i \in CandidateIndexes(tr, fz)}
  BY Zenon DEF Candidates
<1> HIDE DEF S
<1>2. \A i : C(i).index = i /\ C(i).tokens = tr[i].tokens
  OBVIOUS
<1> HIDE DEF C
<1> QED BY <1>1, <1>2

LEMMA BeginBatchInv ==
    ASSUME BatchInv, BeginBatch
    PROVE  BatchInv'
<1>1. /\ pc' = "batch" /\ todo' = Candidates(transcript, frozen) /\ remaining' = Used
      /\ kept' = DOMAIN frozen
      /\ UNCHANGED <<transcript, frozen>>
  BY DEF BeginBatch, sessionVars
<1>2. /\ \A c \in todo' : /\ c.index \in CandidateIndexes(transcript, frozen)
                          /\ c.tokens = transcript[c.index].tokens
                          /\ \A d \in todo' : d.index = c.index => d = c
      /\ \A i \in CandidateIndexes(transcript, frozen) : \E c \in todo' : c.index = i
  BY <1>1, CandidateShape
<1>3. Used' = Used
  BY <1>1 DEF Used
<1>4. Counted'
  <2>1. \A i \in CandidateIndexes(transcript, frozen) : i \notin DOMAIN frozen
    BY DEF CandidateIndexes
  <2> QED BY <1>1, <1>2, <1>3, <2>1 DEF Counted
<1>5. NothingOverlooked'
  BY <1>1, <1>2 DEF NothingOverlooked
<1>6. LargestFirst' /\ NoExtraRewrites'
  BY <1>1 DEF LargestFirst, NoExtraRewrites
<1>7. MandatoryFits'
  BY <1>1 DEF MandatoryFits
<1> QED BY <1>4, <1>5, <1>6, <1>7 DEF BatchInv

LEMMA CandidateFacts ==
    ASSUME IInv, BatchInv, NEW c \in todo, NextUp(c)
    PROVE  /\ pc = "batch" /\ remaining = Used
           /\ transcript \in Seq(Message) /\ c.index \in 1..Len(transcript)
           /\ c.index \notin DOMAIN frozen
           /\ c.tokens = transcript[c.index].tokens /\ c.tokens \in Nat
           /\ \A i \in 1..Len(transcript) : transcript[i].tokens \in Nat
           /\ \A d \in todo : d.tokens \in Nat
           /\ mandatory => \A d \in todo \ {c} : Larger(transcript, c.index, d.index)
           /\ mandatory => ~(remaining =< HardLimit)
           /\ TokensAfter(c) = PlaceholderTokens[transcript[c.index].content]
           /\ TokensAfter(c) \in Nat
<1>1. pc = "batch" /\ ~Fits /\ \A d \in todo : d # c => Before(c, d)
  BY DEF NextUp
<1>2. /\ remaining = Used
      /\ \A d \in todo : d.index \notin DOMAIN frozen /\ d.tokens = transcript[d.index].tokens
  BY <1>1 DEF BatchInv, Counted
<1>3. transcript \in Seq(Message) /\ \A d \in todo : d.index \in 1..Len(transcript)
  BY TranscriptType DEF IInv, StateTypeOK
<1>4. \A i \in 1..Len(transcript) : transcript[i].tokens \in Nat
  <2>1. \A i \in 1..Len(transcript) : transcript[i] \in Message
    BY <1>3
  <2>2. \A m \in Message : m.tokens \in Nat
    BY DEF Message
  <2> QED BY <2>1, <2>2
<1>5. \A d \in todo : d.tokens \in Nat
  BY <1>2, <1>3, <1>4
<1>6. ASSUME mandatory, NEW d \in todo \ {c} PROVE Larger(transcript, c.index, d.index)
  <2>1. Before(c, d)
    BY <1>1
  <2>2. c.tokens = transcript[c.index].tokens /\ d.tokens = transcript[d.index].tokens
    BY <1>2
  <2> QED BY <1>6, <2>1, <2>2 DEF Before, Larger
<1>7. mandatory => ~(remaining =< HardLimit)
  BY <1>1 DEF Fits
<1>8. /\ TokensAfter(c) = PlaceholderTokens[transcript[c.index].content]
      /\ TokensAfter(c) \in Nat
  <2>1. transcript[c.index] \in Message
    BY <1>3
  <2> QED BY <2>1, PlaceholderType DEF TokensAfter, ContentOf
<1> QED BY <1>1, <1>2, <1>3, <1>4, <1>5, <1>6, <1>7, <1>8

LEMMA BatchStepBatchInv ==
    ASSUME IInv, BatchInv, NEW c \in todo, BatchStep(c)
    PROVE  BatchInv'
<1>1. CASE PutThrows(c)
  <2>1. pc' = "ready"
    BY <1>1 DEF PutThrows
  <2> QED BY <2>1, OutsideBatches
<1>2. CASE SkipUneconomic(c)
  <2>1. /\ ~mandatory /\ todo' = todo \ {c}
        /\ UNCHANGED <<transcript, frozen, pc, mandatory, remaining, kept, decision>>
    BY <1>2 DEF SkipUneconomic, Examined, sessionVars
  <2>2. Used' = Used
    BY <2>1 DEF Used
  <2> QED BY <2>1, <2>2 DEF BatchInv, Counted, NothingOverlooked, LargestFirst,
                            NoExtraRewrites, MandatoryFits
<1>3. CASE SkipTooSmall(c)
  <2>1. /\ NextUp(c) /\ TokensAfter(c) >= c.tokens /\ todo' = todo \ {c}
        /\ UNCHANGED <<transcript, frozen, pc, mandatory, remaining, kept, decision>>
    BY <1>3 DEF SkipTooSmall, WorthPutting, Examined, sessionVars
  <2>2. Used' = Used
    BY <2>1 DEF Used
  <2>3. /\ pc = "batch" /\ c.tokens = transcript[c.index].tokens /\ c.tokens \in Nat
        /\ TokensAfter(c) = PlaceholderTokens[transcript[c.index].content]
        /\ TokensAfter(c) \in Nat
    BY <2>1, CandidateFacts
  <2>4. transcript[c.index].tokens =< PlaceholderTokens[transcript[c.index].content]
    BY <2>1, <2>3
  <2>5. Counted' /\ LargestFirst' /\ NoExtraRewrites' /\ MandatoryFits'
    BY <2>1, <2>2, <2>3
       DEF BatchInv, Counted, LargestFirst, NoExtraRewrites, MandatoryFits
  <2>6. NothingOverlooked'
    BY <2>1, <2>4 DEF BatchInv, NothingOverlooked
  <2> QED BY <2>5, <2>6 DEF BatchInv
<1>4. CASE Freeze(c)
  <2> DEFINE k == c.index
             m == Placeholder(transcript[k])
  <2>1. /\ NextUp(c) /\ TokensAfter(c) < c.tokens /\ todo' = todo \ {c}
        /\ frozen' = [i \in DOMAIN frozen \cup {k} |-> IF i = k THEN m ELSE frozen[i]]
        /\ remaining' = remaining - (c.tokens - TokensAfter(c))
        /\ UNCHANGED <<transcript, pc, mandatory, kept, decision>>
    BY <1>4 DEF Freeze, WorthPutting, Examined
  <2>2. /\ pc = "batch" /\ remaining = Used
        /\ transcript \in Seq(Message) /\ k \in 1..Len(transcript)
        /\ k \notin DOMAIN frozen
        /\ c.tokens = transcript[k].tokens /\ c.tokens \in Nat
        /\ \A i \in 1..Len(transcript) : transcript[i].tokens \in Nat
        /\ \A d \in todo : d.tokens \in Nat
        /\ mandatory => \A d \in todo \ {c} : Larger(transcript, k, d.index)
        /\ mandatory => ~(remaining =< HardLimit)
        /\ TokensAfter(c) = PlaceholderTokens[transcript[k].content]
        /\ TokensAfter(c) \in Nat
    BY <2>1, CandidateFacts
  <2>3. m \in Message /\ m.tokens = TokensAfter(c)
    <3>1. transcript[k] \in Message
      BY <2>2
    <3> QED BY <2>2, <3>1, PlaceholderType
  <2>4. \A i \in DOMAIN frozen : frozen[i] \in Message /\ i \in 1..Len(transcript)
    BY DEF IInv, StateTypeOK
  <2> HIDE DEF k, m
  <2>5. /\ Used \in Nat /\ Used' \in Nat
        /\ Used' + transcript[k].tokens = Used + TokensAfter(c)
    <3>1. /\ TotalTokens(ApplyFrozen(transcript, frozen)) \in Nat
          /\ TotalTokens(ApplyFrozen(transcript, frozen')) \in Nat
          /\ TotalTokens(ApplyFrozen(transcript, frozen')) + transcript[k].tokens
               = TotalTokens(ApplyFrozen(transcript, frozen)) + m.tokens
      <4>1. \A i \in DOMAIN frozen : frozen[i] \in Message
        BY <2>4
      <4>2. /\ transcript \in Seq(Message) /\ k \in 1..Len(transcript)
            /\ k \notin DOMAIN frozen /\ m \in Message
            /\ frozen' = [i \in DOMAIN frozen \cup {k} |-> IF i = k THEN m ELSE frozen[i]]
        BY <2>1, <2>2, <2>3
      <4>3. FreezesOne(transcript, frozen, frozen', k, m)
        BY <4>1, <4>2 DEF FreezesOne
      <4> QED BY <4>3, FreezingFrees DEF ReplacesTokens
    <3> QED BY <2>1, <2>3, <3>1 DEF Used
  <2>6. DOMAIN frozen' = DOMAIN frozen \cup {k}
    BY <2>1
  <2>7. Counted'
    <3>1. remaining' = Used'
      <4>1. remaining' = remaining - (c.tokens - TokensAfter(c))
        BY <2>1
      <4>2. /\ transcript[k].tokens = c.tokens /\ c.tokens \in Nat
            /\ TokensAfter(c) \in Nat /\ remaining = Used
        BY <2>2
      <4>3. Used \in Nat /\ Used' \in Nat /\ Used' + c.tokens = Used + TokensAfter(c)
        BY <2>5, <4>2
      <4> QED BY <4>1, <4>2, <4>3
    <3>2. ASSUME NEW d \in todo'
          PROVE  /\ d.index \notin DOMAIN frozen'
                 /\ d.tokens = transcript[d.index].tokens
                 /\ \A e \in todo' : e.index = d.index => e = d
      <4>1. /\ d \in todo /\ d # c
            /\ d.index \notin DOMAIN frozen /\ d.tokens = transcript[d.index].tokens
            /\ \A e \in todo : e.index = d.index => e = d
        BY <2>1, <2>2, <3>2 DEF BatchInv, Counted
      <4>2. d.index # k
        BY <4>1 DEF k
      <4> QED BY <2>1, <2>6, <4>1, <4>2
    <3> QED BY <2>1, <3>1, <3>2 DEF Counted
  <2>8. NothingOverlooked'
    <3> SUFFICES ASSUME mandatory, NEW i \in CandidateIndexes(transcript, frozen')
                 PROVE  \/ \E d \in todo' : d.index = i
                        \/ transcript[i].tokens =< PlaceholderTokens[transcript[i].content]
      BY <2>1 DEF NothingOverlooked
    <3>1. i \in CandidateIndexes(transcript, frozen) /\ i # k
      BY <2>6 DEF CandidateIndexes
    <3>2. CASE transcript[i].tokens =< PlaceholderTokens[transcript[i].content]
      BY <3>2
    <3>3. CASE \E d \in todo : d.index = i
      BY <2>1, <3>1, <3>3 DEF k
    <3> QED BY <2>2, <3>1, <3>2, <3>3 DEF BatchInv, NothingOverlooked
  <2>9. LargestFirst' /\ NoExtraRewrites'
    <3> SUFFICES ASSUME mandatory
                 PROVE  /\ kept \subseteq DOMAIN frozen'
                        /\ \A i \in DOMAIN frozen' \ kept :
                              /\ \A d \in todo' : Larger(transcript, i, d.index)
                              /\ TotalTokens(OnlyLarger(transcript, frozen', kept, i))
                                   > HardLimit
      BY <2>1 DEF LargestFirst, NoExtraRewrites
    <3>1. /\ kept \subseteq DOMAIN frozen
          /\ \A i \in DOMAIN frozen \ kept :
                /\ \A d \in todo : Larger(transcript, i, d.index)
                /\ TotalTokens(OnlyLarger(transcript, frozen, kept, i)) > HardLimit
      BY <2>2 DEF BatchInv, LargestFirst, NoExtraRewrites
    <3>2. \A j \in DOMAIN frozen \ kept : Larger(transcript, j, k)
      BY <3>1 DEF k
    <3>3. \A j \in DOMAIN frozen : frozen'[j] = frozen[j]
      BY <2>1, <2>2
    <3>4. kept \subseteq DOMAIN frozen' /\ k \notin kept
      BY <2>2, <2>6, <3>1
    <3>5. ASSUME NEW i \in DOMAIN frozen' \ kept, NEW d \in todo'
          PROVE  Larger(transcript, i, d.index)
      BY <2>1, <2>2, <2>6, <3>1
    <3>6. TotalTokens(OnlyLarger(transcript, frozen', kept, k)) > HardLimit
      <4>1. OnlyLarger(transcript, frozen', kept, k) = ApplyFrozen(transcript, frozen)
        BY <2>2, <2>6, <3>1, <3>2, <3>3, LastIsSmallest
      <4>2. Used > HardLimit
        BY <2>2, <2>5, LimitsAssumption
      <4> QED BY <4>1, <4>2 DEF Used
    <3>7. ASSUME NEW i \in DOMAIN frozen \ kept
          PROVE  TotalTokens(OnlyLarger(transcript, frozen', kept, i)) > HardLimit
      <4>1. i \in 1..Len(transcript)
        BY <2>4
      <4>2. /\ i \in Nat /\ k \in Nat
            /\ transcript[i].tokens \in Nat /\ transcript[k].tokens \in Nat
        BY <2>2, <4>1
      <4>3. OnlyLarger(transcript, frozen', kept, i) = OnlyLarger(transcript, frozen, kept, i)
        BY <2>2, <2>6, <3>2, <3>3, <3>4, <4>2, SmallerIsLeftOut
      <4> QED BY <3>1, <4>3
    <3> QED BY <2>6, <3>4, <3>5, <3>6, <3>7
  <2>10. MandatoryFits'
    BY <2>1, <2>2 DEF MandatoryFits
  <2> QED BY <2>7, <2>8, <2>9, <2>10 DEF BatchInv
<1> QED BY <1>1, <1>2, <1>3, <1>4 DEF BatchStep

LEMMA EndBatchInv ==
    ASSUME IInv, BatchInv, EndBatch
    PROVE  BatchInv'
<1>1. /\ pc = "batch" /\ pc' = "sent" /\ (todo = {} \/ Fits)
      /\ decision'.messages = ApplyFrozen(transcript, frozen)
      /\ decision'.mode = IF mandatory THEN "mandatory" ELSE "opportunistic"
      /\ UNCHANGED <<transcript, frozen>>
  BY DEF EndBatch, Decide
<1>2. MandatoryFits'
  <2> SUFFICES ASSUME decision'.mode = "mandatory"
               PROVE  \/ TotalTokens(decision'.messages) =< HardLimit
                      \/ \A i \in CandidateIndexes(transcript, frozen) :
                            transcript[i].tokens =< PlaceholderTokens[transcript[i].content]
    BY <1>1 DEF MandatoryFits
  <2>1. mandatory
    BY <1>1
  <2>2. CASE todo = {}
    BY <1>1, <2>1, <2>2 DEF BatchInv, NothingOverlooked
  <2>3. CASE Fits
    <3>1. remaining =< HardLimit
      BY <2>3 DEF Fits
    <3>2. remaining = TotalTokens(decision'.messages)
      BY <1>1 DEF BatchInv, Counted, Used
    <3> QED BY <3>1, <3>2
  <2> QED BY <1>1, <2>2, <2>3
<1> QED BY <1>1, <1>2
       DEF BatchInv, Counted, NothingOverlooked, LargestFirst, NoExtraRewrites

LEMMA NextBatchInv == IInv /\ BatchInv /\ [Next]_vars => BatchInv'
<1> SUFFICES ASSUME IInv, BatchInv, [Next]_vars PROVE BatchInv'
  OBVIOUS
<1>1. CASE UserPrompts \/ ToolFinishes \/ ModelReplies \/ RequestFails \/ StartSession
  <2>1. pc' = "ready"
    BY <1>1 DEF UserPrompts, ToolFinishes, ModelReplies, RequestFails, StartSession
  <2> QED BY <2>1, OutsideBatches
<1>2. CASE Expand
  <2>1. pc # "batch" /\ UNCHANGED <<pc, decision, transcript, frozen>>
    BY <1>2 DEF Expand, sessionVars
  <2> QED BY <2>1, OutsideBatches
<1>3. CASE AppendOnly
  <2>1. pc' = "sent" /\ decision'.mode = "append-only"
    BY <1>3 DEF AppendOnly, Decide
  <2> QED BY <2>1, OutsideBatches
<1>4. CASE UNCHANGED vars
  <2>1. /\ UNCHANGED <<pc, decision, transcript, frozen, mandatory, todo, remaining, kept>>
    BY <1>4 DEF vars, sessionVars, batchVars
  <2>2. Used' = Used
    BY <2>1 DEF Used
  <2> QED BY <2>1, <2>2
      DEF BatchInv, Counted, NothingOverlooked, LargestFirst, NoExtraRewrites,
          MandatoryFits
<1> QED BY <1>1, <1>2, <1>3, <1>4, BeginBatchInv, BatchStepBatchInv, EndBatchInv DEF Next

THEOREM BatchInvariance == Spec => [](IInv /\ BatchInv)
<1>1. Init => IInv /\ BatchInv
  BY InitIInv, InitBatchInv
<1>2. (IInv /\ BatchInv) /\ [Next]_vars => (IInv /\ BatchInv)'
  BY NextIInv, NextBatchInv
<1> QED BY <1>1, <1>2, PTL DEF Spec

\* compaction.ts:294-327: a mandatory batch fits or has nothing left to mask,
\* for every set of messages, every limit and any number of failed puts.
THEOREM MandatoryBatchesFit == Spec => []MandatoryFits
<1>1. IInv /\ BatchInv => MandatoryFits
  BY DEF BatchInv
<1> QED BY <1>1, BatchInvariance, PTL

\* compaction.ts:286-299: a mandatory batch spends its cache invalidation on the
\* largest outputs and masks none after the point where the transcript fits,
\* whatever each placeholder costs.
THEOREM EveryRewriteCounts == Spec => []NoExtraRewrites
<1>1. IInv /\ BatchInv => NoExtraRewrites
  BY DEF BatchInv
<1> QED BY <1>1, BatchInvariance, PTL
=============================================================================
