------------------------------ MODULE LineFile ------------------------------
(***************************************************************************)
(* An append-only file of JSON lines, as the journal                       *)
(* (packages/cli/src/journal.ts) and the telemetry sink                    *)
(* (packages/telemetry/src/sink.ts) write and read it.  A file is its      *)
(* complete lines and what follows the last newline.  An append that a     *)
(* kill or a full disk cuts short leaves that tail open, and the next      *)
(* append, which starts with no newline, continues it: no reader can parse *)
(* the line that results.                                                  *)
(***************************************************************************)
EXTENDS Naturals, Sequences, FiniteSets

CONSTANTS
    Garbled,         \* a line, or an open tail, that does not parse
    NoTail           \* nothing after the last newline

EmptyFile == [lines |-> <<>>, tail |-> NoTail]

\* What the bytes of record r make of the open tail they are written to.
Glue(tail, r) == IF tail = NoTail THEN r ELSE Garbled

\* Mutant: the newline is forgotten.
AppendOpen(f, r) == [f EXCEPT !.tail = Glue(f.tail, r)]

\* The whole of `${JSON.stringify(r)}\n` is written.
AppendLine(f, r) == [lines |-> Append(f.lines, Glue(f.tail, r)), tail |-> NoTail]

\* Nothing, a part, or all of the line but its newline is written.
CutAppends(f, r) ==
    {f, [f EXCEPT !.tail = Garbled], [f EXCEPT !.tail = Glue(f.tail, r)]}

\* The lines a reader sees: an open tail is the last element of the split.
AllLines(f) == IF f.tail = NoTail THEN f.lines ELSE Append(f.lines, f.tail)

IntactAt(f) == {i \in DOMAIN AllLines(f) : AllLines(f)[i] # Garbled}

TornAt(f) == DOMAIN AllLines(f) \ IntactAt(f)

ReadBack(f) == {AllLines(f)[i] : i \in IntactAt(f)}
=============================================================================
