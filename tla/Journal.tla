------------------------------ MODULE Journal -------------------------------
(***************************************************************************)
(* The conversation journal (packages/cli/src/journal.ts): append numbers  *)
(* a record before it writes it, read skips what it cannot parse, resume   *)
(* numbers on from the last record that parses.  The n-th message handed   *)
(* to append is the number n.                                              *)
(***************************************************************************)
EXTENDS LineFile

CONSTANTS
    MaxMessages,     \* bound: calls of append
    MaxCuts          \* bound: writes that throw, and kills

ASSUME JournalBounds == MaxMessages \in Nat /\ MaxCuts \in Nat

JournalRecord == [seq : Nat, message : Nat]

ASSUME LinesDiffer ==
    Garbled \notin JournalRecord /\ NoTail \notin JournalRecord /\ Garbled # NoTail

Files == [lines : Seq(JournalRecord \cup {Garbled}),
          tail : JournalRecord \cup {Garbled, NoTail}]

VARIABLES
    file,            \* the JSONL file
    seq,             \* the writer's counter
    running,         \* a process has the journal open
    sent,            \* messages handed to append so far
    acked,           \* history: records append returned
    cuts             \* writes that threw, and kills, so far

vars == <<file, seq, running, sent, acked, cuts>>

TypeOK ==
    /\ file \in Files
    /\ seq \in Nat
    /\ running \in BOOLEAN
    /\ sent \in Nat
    /\ acked \in SUBSET JournalRecord
    /\ cuts \in Nat

Init ==
    /\ file = EmptyFile
    /\ seq = 0
    /\ running = TRUE
    /\ sent = 0
    /\ acked = {}
    /\ cuts = 0

NextRecord == [seq |-> seq + 1, message |-> sent + 1]

CanAppend == running /\ sent < MaxMessages

CanCut == cuts < MaxCuts

-----------------------------------------------------------------------------
append ==
    /\ CanAppend
    /\ seq' = seq + 1
    /\ file' = AppendLine(file, NextRecord)
    /\ sent' = sent + 1
    /\ acked' = acked \cup {NextRecord}
    /\ UNCHANGED <<running, cuts>>

\* Mutant: the failed write is swallowed and the record returned.
AppendSwallows ==
    /\ CanAppend /\ CanCut
    /\ seq' = seq + 1
    /\ file' \in CutAppends(file, NextRecord)
    /\ sent' = sent + 1
    /\ cuts' = cuts + 1
    /\ acked' = acked \cup {NextRecord}
    /\ UNCHANGED running

\* mkdir or the write throws: append throws, its number is spent.
AppendThrows ==
    /\ CanAppend /\ CanCut
    /\ seq' = seq + 1
    /\ file' \in CutAppends(file, NextRecord)
    /\ sent' = sent + 1
    /\ cuts' = cuts + 1
    /\ UNCHANGED <<running, acked>>

\* kill -9, between two appends or anywhere in one.
Kill ==
    /\ running /\ CanCut
    /\ running' = FALSE
    /\ cuts' = cuts + 1
    /\ \/ UNCHANGED <<file, sent>>
       \/ /\ CanAppend
          /\ sent' = sent + 1
          /\ file' \in CutAppends(file, NextRecord) \cup {AppendLine(file, NextRecord)}
    /\ UNCHANGED <<seq, acked>>

LastIntact == CHOOSE i \in IntactAt(file) : \A j \in IntactAt(file) : j =< i

\* Mutant: numbering goes on from the number of records.
ResumeByCounting ==
    /\ ~running
    /\ running' = TRUE
    /\ seq' = Cardinality(IntactAt(file))
    /\ UNCHANGED <<file, sent, acked, cuts>>

resume ==
    /\ ~running
    /\ running' = TRUE
    /\ seq' = IF IntactAt(file) = {} THEN 0 ELSE AllLines(file)[LastIntact].seq
    /\ UNCHANGED <<file, sent, acked, cuts>>

Done == sent = MaxMessages /\ UNCHANGED vars

Next == append \/ AppendThrows \/ Kill \/ resume \/ Done

Spec == Init /\ [][Next]_vars

-----------------------------------------------------------------------------
(* Properties.                                                             *)

\* Whatever was cut or resumed, the records a reader gets are in the order in
\* which they were appended and numbered upwards (journal.ts:33-39, 67-72).
RecordsInOrder ==
    \A i, j \in IntactAt(file) :
        i < j => /\ AllLines(file)[i].seq < AllLines(file)[j].seq
                 /\ AllLines(file)[i].message < AllLines(file)[j].message

Lost == acked \ ReadBack(file)

\* No record is lost in silence: for every record that append returned and
\* that read no longer gets, read reports a torn line (journal.ts:53-61).
LossesAreReported == Cardinality(Lost) =< Cardinality(TornAt(file))

\* Each kill or failed write costs at most one record that append had returned
\* and tears at most one line (journal.ts:9-13).
EachCutLosesOne == Cardinality(Lost) =< cuts /\ Cardinality(TornAt(file)) =< cuts
=============================================================================
