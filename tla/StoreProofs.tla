---------------------------- MODULE StoreProofs ----------------------------
(***************************************************************************)
(* Proofs about the two stores under .relush.  Journal: order, bounded     *)
(* loss and no silent loss, for any number of messages, writes cut short,  *)
(* kills and resumes.  ContentCache: whole entries, the atomic cache and   *)
(* bounded doubt, for every set of processes and contents and any number   *)
(* of kills and failed system calls.                                       *)
(***************************************************************************)
EXTENDS Journal, ContentCache, FiniteSetTheorems, TLAPS

-----------------------------------------------------------------------------
(* What one write does to the lines a reader sees: a line is added, or the *)
(* open tail is spoiled.                                                   *)
Views == Seq(JournalRecord \cup {Garbled})

Longer(v, w, x) ==
    /\ Len(w) = Len(v) + 1
    /\ \A i \in 1..Len(v) : w[i] = v[i]
    /\ w[Len(v) + 1] = x

Spoiled(v, w) ==
    /\ Len(v) > 0
    /\ Len(w) = Len(v)
    /\ \A i \in 1..(Len(v) - 1) : w[i] = v[i]
    /\ w[Len(v)] = Garbled

LEMMA ViewType == ASSUME NEW f \in Files PROVE AllLines(f) \in Views
  BY LinesDiffer DEF Files, AllLines, Views

LEMMA AppendView ==
    ASSUME NEW f \in Files, NEW r \in JournalRecord
    PROVE  LET g == AppendLine(f, r) IN
           /\ g \in Files
           /\ g.tail = NoTail
           /\ f.tail = NoTail => /\ Longer(AllLines(f), AllLines(g), r)
                                 /\ Longer(f.lines, g.lines, r)
           /\ f.tail # NoTail => /\ Spoiled(AllLines(f), AllLines(g))
                                 /\ Longer(f.lines, g.lines, Garbled)
<1> DEFINE g == AppendLine(f, r)
<1>1. /\ f.lines \in Views /\ f.tail \in JournalRecord \cup {Garbled, NoTail}
      /\ Len(f.lines) \in Nat
  BY DEF Files, Views
<1>2. g.lines = Append(f.lines, Glue(f.tail, r)) /\ g.tail = NoTail
  BY DEF AppendLine
<1>3. Glue(f.tail, r) \in JournalRecord \cup {Garbled}
  BY DEF Glue
<1>4. g \in Files
  BY <1>1, <1>3 DEF AppendLine, Files, Views
<1>5. AllLines(g) = g.lines
  BY <1>2 DEF AllLines
<1>6. Longer(f.lines, g.lines, Glue(f.tail, r))
  BY <1>1, <1>2, <1>3 DEF Longer, Views
<1>7. CASE f.tail = NoTail
  BY <1>2, <1>4, <1>5, <1>6, <1>7 DEF AllLines, Glue
<1>8. CASE f.tail # NoTail
  <2>1. AllLines(f) = Append(f.lines, f.tail)
    BY <1>8 DEF AllLines
  <2>2. Longer(f.lines, AllLines(f), f.tail)
    BY <1>1, <1>8, <2>1 DEF Longer, Views
  <2>3. Longer(f.lines, g.lines, Garbled)
    BY <1>6, <1>8 DEF Glue
  <2>4. Spoiled(AllLines(f), AllLines(g))
    BY <1>1, <1>5, <2>2, <2>3 DEF Longer, Spoiled
  <2> QED
    BY <1>2, <1>4, <1>8, <2>3, <2>4
<1> QED
  BY <1>7, <1>8

LEMMA CutView ==
    ASSUME NEW f \in Files, NEW r \in JournalRecord, NEW g \in CutAppends(f, r)
    PROVE  /\ g \in Files
           /\ g.lines = f.lines
           /\ g.tail \in {f.tail, Garbled, r}
           /\ \/ g = f
              \/ f.tail = NoTail /\ Longer(AllLines(f), AllLines(g), Garbled)
              \/ f.tail = NoTail /\ g.tail = r /\ Longer(AllLines(f), AllLines(g), r)
              \/ f.tail # NoTail /\ Spoiled(AllLines(f), AllLines(g))
<1>1. /\ f.lines \in Views /\ f.tail \in JournalRecord \cup {Garbled, NoTail}
      /\ Len(f.lines) \in Nat /\ f = [lines |-> f.lines, tail |-> f.tail]
  BY DEF Files, Views
<1>2. \/ g = f
      \/ g = [lines |-> f.lines, tail |-> Garbled]
      \/ f.tail = NoTail /\ g = [lines |-> f.lines, tail |-> r]
  BY <1>1 DEF CutAppends, Glue
<1>3. g \in Files /\ g.lines = f.lines /\ g.tail \in {f.tail, Garbled, r}
  BY <1>1, <1>2 DEF Files, Views
<1>4. ASSUME NEW x \in JournalRecord \cup {Garbled}, g = [lines |-> f.lines, tail |-> x]
      PROVE  /\ AllLines(g) = Append(f.lines, x)
             /\ Longer(f.lines, AllLines(g), x)
  <2>1. AllLines(g) = Append(f.lines, x)
    BY <1>4, LinesDiffer DEF AllLines
  <2> QED
    BY <1>1, <2>1 DEF Longer, Views
<1>5. CASE f.tail = NoTail
  BY <1>2, <1>3, <1>4, <1>5 DEF AllLines
<1>6. CASE f.tail # NoTail
  <2>1. Longer(f.lines, AllLines(f), f.tail)
    <3>1. AllLines(f) = Append(f.lines, f.tail)
      BY <1>6 DEF AllLines
    <3> QED
      BY <1>1, <1>6, <3>1 DEF Longer, Views
  <2>2. CASE g = [lines |-> f.lines, tail |-> Garbled]
    <3>1. Longer(f.lines, AllLines(g), Garbled)
      BY <1>4, <2>2
    <3>2. Spoiled(AllLines(f), AllLines(g))
      BY <1>1, <2>1, <3>1 DEF Longer, Spoiled
    <3> QED
      BY <1>3, <1>6, <3>2
  <2> QED
    BY <1>2, <1>3, <1>6, <2>2
<1> QED
  BY <1>5, <1>6

-----------------------------------------------------------------------------
(* What those changes do to order, to the bound on numbers and to the last *)
(* intact line of every prefix, on which resume depends.                   *)
Intact(v, i) == v[i] # Garbled

InOrder(v) ==
    \A i, j \in 1..Len(v) :
        i < j /\ Intact(v, i) /\ Intact(v, j)
            => v[i].seq < v[j].seq /\ v[i].message < v[j].message

Below(v, s, m) ==
    \A i \in 1..Len(v) : Intact(v, i) => v[i].seq =< s /\ v[i].message =< m

EveryPrefixHasLast(v) ==
    \A n \in 0..Len(v) :
        \/ \A i \in 1..n : ~Intact(v, i)
        \/ \E i \in 1..n : Intact(v, i) /\ \A j \in (i + 1)..n : ~Intact(v, j)

Good(v, s, m) == InOrder(v) /\ Below(v, s, m) /\ EveryPrefixHasLast(v)

LEMMA GoodSpoiled ==
    ASSUME NEW v \in Views, NEW w \in Views, NEW s \in Nat, NEW m \in Nat,
           Good(v, s, m), Spoiled(v, w)
    PROVE  Good(w, s, m)
<1>1. Len(v) \in Nat /\ Len(w) = Len(v)
  BY DEF Views, Spoiled
<1>2. \A i \in 1..Len(w) : Intact(w, i) => i < Len(v) /\ w[i] = v[i] /\ Intact(v, i)
  BY <1>1 DEF Spoiled, Intact
<1>3. InOrder(w) /\ Below(w, s, m)
  BY <1>1, <1>2 DEF Good, InOrder, Below
<1>4. ASSUME NEW n \in 0..Len(w), n < Len(v)
      PROVE  \/ \A i \in 1..n : ~Intact(w, i)
             \/ \E i \in 1..n : Intact(w, i) /\ \A j \in (i + 1)..n : ~Intact(w, j)
  <2>1. \A i \in 1..n : Intact(w, i) <=> Intact(v, i)
    BY <1>1, <1>4 DEF Spoiled, Intact
  <2>2. \/ \A i \in 1..n : ~Intact(v, i)
        \/ \E i \in 1..n : Intact(v, i) /\ \A j \in (i + 1)..n : ~Intact(v, j)
    BY <1>1, <1>4 DEF Good, EveryPrefixHasLast
  <2> QED
    BY <2>1, <2>2
<1>5. \/ \A i \in 1..Len(w) : ~Intact(w, i)
      \/ \E i \in 1..Len(w) : Intact(w, i) /\ \A j \in (i + 1)..Len(w) : ~Intact(w, j)
  <2>1. Len(v) - 1 \in 0..Len(w) /\ Len(v) - 1 < Len(v) /\ ~Intact(w, Len(w))
    BY <1>1 DEF Spoiled, Intact
  <2>2. \/ \A i \in 1..(Len(v) - 1) : ~Intact(w, i)
        \/ \E i \in 1..(Len(v) - 1) :
              Intact(w, i) /\ \A j \in (i + 1)..(Len(v) - 1) : ~Intact(w, j)
    BY <1>4, <2>1
  <2> QED
    BY <1>1, <2>1, <2>2
<1>6. EveryPrefixHasLast(w)
  <2> SUFFICES ASSUME NEW n \in 0..Len(w)
               PROVE  \/ \A i \in 1..n : ~Intact(w, i)
                      \/ \E i \in 1..n : Intact(w, i) /\ \A j \in (i + 1)..n : ~Intact(w, j)
    BY DEF EveryPrefixHasLast
  <2>1. CASE n = Len(w)
    BY <1>5, <2>1
  <2>2. CASE n # Len(w)
    <3>1. n < Len(v)
      BY <1>1, <2>2
    <3> QED
      BY <1>4, <3>1
  <2> QED
    BY <2>1, <2>2
<1> QED
  BY <1>3, <1>6 DEF Good

LEMMA GoodLonger ==
    ASSUME NEW v \in Views, NEW w \in Views, NEW s \in Nat, NEW m \in Nat,
           NEW x \in JournalRecord \cup {Garbled}, Good(v, s, m), Longer(v, w, x),
           NEW t \in Nat, NEW k \in Nat, s =< t, m =< k,
           x # Garbled => s < x.seq /\ m < x.message /\ x.seq =< t /\ x.message =< k
    PROVE  Good(w, t, k)
<1>1. Len(v) \in Nat /\ Len(w) = Len(v) + 1 /\ w[Len(w)] = x
  BY DEF Views, Longer
<1>2. \A i \in 1..Len(v) : w[i] = v[i] /\ (Intact(w, i) <=> Intact(v, i))
  BY DEF Longer, Intact
<1>3. \A i \in 1..Len(v) : Intact(v, i) => /\ v[i].seq \in Nat /\ v[i].message \in Nat
                                           /\ v[i].seq =< s /\ v[i].message =< m
  BY DEF Views, Intact, JournalRecord, Good, Below
<1>4. Below(w, t, k)
  <2> SUFFICES ASSUME NEW i \in 1..Len(w), Intact(w, i)
               PROVE  w[i].seq =< t /\ w[i].message =< k
    BY DEF Below
  <2>1. CASE i = Len(w)
    BY <1>1, <2>1 DEF Intact
  <2>2. CASE i # Len(w)
    BY <1>1, <1>2, <1>3, <2>2
  <2> QED
    BY <2>1, <2>2
<1>5. InOrder(w)
  <2> SUFFICES ASSUME NEW i \in 1..Len(w), NEW j \in 1..Len(w), i < j,
                      Intact(w, i), Intact(w, j)
               PROVE  w[i].seq < w[j].seq /\ w[i].message < w[j].message
    BY DEF InOrder
  <2>1. i \in 1..Len(v)
    BY <1>1
  <2>2. CASE j = Len(w)
    <3>1. x \in JournalRecord /\ x.seq \in Nat /\ x.message \in Nat
      BY <1>1, <2>2 DEF Intact, JournalRecord
    <3>2. w[i] = v[i] /\ Intact(v, i) /\ w[j] = x
      BY <1>1, <1>2, <2>1, <2>2
    <3>3. v[i].seq =< s /\ v[i].message =< m /\ s < x.seq /\ m < x.message
      BY <1>1, <1>2, <1>3, <2>1, <2>2, <3>1, <3>2 DEF Intact
    <3>4. v[i] \in JournalRecord
      BY <2>1, <3>2 DEF Views, Intact
    <3> QED
      BY <3>1, <3>2, <3>3, <3>4 DEF JournalRecord
  <2>3. CASE j # Len(w)
    BY <1>1, <1>2, <2>1, <2>3 DEF Good, InOrder
  <2> QED
    BY <2>2, <2>3
<1>6. EveryPrefixHasLast(w)
  <2> SUFFICES ASSUME NEW n \in 0..Len(w)
               PROVE  \/ \A i \in 1..n : ~Intact(w, i)
                      \/ \E i \in 1..n :
                            Intact(w, i) /\ \A j \in (i + 1)..n : ~Intact(w, j)
    BY DEF EveryPrefixHasLast
  <2>1. ASSUME NEW p \in 0..Len(v)
        PROVE  \/ \A i \in 1..p : ~Intact(w, i)
               \/ \E i \in 1..p : Intact(w, i) /\ \A j \in (i + 1)..p : ~Intact(w, j)
    <3>1. \/ \A i \in 1..p : ~Intact(v, i)
          \/ \E i \in 1..p : Intact(v, i) /\ \A j \in (i + 1)..p : ~Intact(v, j)
      BY DEF Good, EveryPrefixHasLast
    <3>2. \A i \in 1..p : Intact(w, i) <=> Intact(v, i)
      BY <1>1, <1>2
    <3>3. CASE \A i \in 1..p : ~Intact(v, i)
      BY <3>2, <3>3
    <3>4. ASSUME NEW i \in 1..p, Intact(v, i), \A j \in (i + 1)..p : ~Intact(v, j)
          PROVE  \E h \in 1..p : Intact(w, h) /\ \A j \in (h + 1)..p : ~Intact(w, j)
      <4>1. \A j \in (i + 1)..p : j \in 1..p
        BY <1>1
      <4> QED
        BY <3>2, <3>4, <4>1
    <3> QED
      BY <3>1, <3>3, <3>4
  <2>2. CASE n = Len(w) /\ Intact(w, n)
    <3>1. n \in 1..n /\ (n + 1)..n = {}
      BY <1>1, <2>2
    <3> QED
      BY <2>2, <3>1
  <2>3. CASE n = Len(w) /\ ~Intact(w, n)
    <3>1. \/ \A i \in 1..Len(v) : ~Intact(w, i)
          \/ \E i \in 1..Len(v) :
                Intact(w, i) /\ \A j \in (i + 1)..Len(v) : ~Intact(w, j)
      <4>1. Len(v) \in 0..Len(v)
        BY <1>1
      <4> QED BY <4>1, <2>1, Zenon
    <3>2. CASE \A i \in 1..Len(v) : ~Intact(w, i)
      BY <1>1, <2>3, <3>2
    <3>3. ASSUME NEW i \in 1..Len(v), Intact(w, i),
                 \A j \in (i + 1)..Len(v) : ~Intact(w, j)
          PROVE  \E h \in 1..n : Intact(w, h) /\ \A j \in (h + 1)..n : ~Intact(w, j)
      <4>1. i \in 1..n /\ \A j \in (i + 1)..n : j = n \/ j \in (i + 1)..Len(v)
        BY <1>1, <2>3
      <4> QED
        BY <2>3, <3>3, <4>1
    <3> QED
      BY <3>1, <3>2, <3>3
  <2>4. CASE n # Len(w)
    <3>1. n \in 0..Len(v)
      BY <1>1, <2>4
    <3> QED
      BY <2>1, <3>1
  <2> QED
    BY <2>2, <2>3, <2>4
<1> QED
  BY <1>4, <1>5, <1>6 DEF Good

-----------------------------------------------------------------------------
(* What a reader gets, and the lines it reports, in terms of the file.     *)
Reads(f) ==
    ({f.lines[i] : i \in 1..Len(f.lines)} \cup {f.tail}) \ {Garbled, NoTail}

GarbledLines(f) == {i \in 1..Len(f.lines) : f.lines[i] = Garbled}

OpenTail(f) == IF f.tail = NoTail THEN 0 ELSE 1

LEMMA ReadsIsReadBack == ASSUME NEW f \in Files PROVE ReadBack(f) = Reads(f)
<1>1. /\ f.lines \in Views /\ Len(f.lines) \in Nat
      /\ f.tail \in JournalRecord \cup {Garbled, NoTail}
      /\ \A i \in 1..Len(f.lines) : f.lines[i] # NoTail
  BY LinesDiffer DEF Files, Views
<1>2. CASE f.tail = NoTail
  <2>1. AllLines(f) = f.lines /\ DOMAIN AllLines(f) = 1..Len(f.lines)
    BY <1>1, <1>2 DEF AllLines, Views
  <2> QED
    BY <1>1, <1>2, <2>1 DEF ReadBack, IntactAt, Reads
<1>3. CASE f.tail # NoTail
  <2>1. AllLines(f) = Append(f.lines, f.tail)
    BY <1>3 DEF AllLines
  <2>2. /\ DOMAIN AllLines(f) = 1..(Len(f.lines) + 1)
        /\ \A i \in 1..Len(f.lines) : AllLines(f)[i] = f.lines[i]
        /\ AllLines(f)[Len(f.lines) + 1] = f.tail
    BY <1>1, <1>3, <2>1 DEF Views
  <2>3. ASSUME NEW x \in ReadBack(f) PROVE x \in Reads(f)
    <3>1. PICK i \in 1..(Len(f.lines) + 1) : x = AllLines(f)[i] /\ x # Garbled
      BY <2>2 DEF ReadBack, IntactAt
    <3>2. CASE i = Len(f.lines) + 1
      BY <1>3, <2>2, <3>1, <3>2 DEF Reads
    <3>3. CASE i \in 1..Len(f.lines)
      BY <1>1, <2>2, <3>1, <3>3 DEF Reads
    <3> QED
      BY <1>1, <3>2, <3>3
  <2>4. ASSUME NEW x \in Reads(f) PROVE x \in ReadBack(f)
    <3>1. CASE x = f.tail
      <4>1. Len(f.lines) + 1 \in 1..(Len(f.lines) + 1) /\ x # Garbled
        BY <1>1 DEF Reads
      <4> QED
        BY <2>2, <3>1, <4>1 DEF ReadBack, IntactAt
    <3>2. CASE x # f.tail
      <4>1. PICK i \in 1..Len(f.lines) : x = f.lines[i] /\ x # Garbled
        BY <3>2 DEF Reads
      <4>2. i \in 1..(Len(f.lines) + 1)
        BY <1>1
      <4> QED
        BY <2>2, <4>1, <4>2 DEF ReadBack, IntactAt
    <3> QED
      BY <3>1, <3>2
  <2> QED
    BY <2>3, <2>4
<1> QED
  BY <1>2, <1>3

LEMMA GarbledFinite ==
    ASSUME NEW f \in Files
    PROVE  IsFiniteSet(GarbledLines(f)) /\ Cardinality(GarbledLines(f)) \in Nat
<1>1. Len(f.lines) \in Nat
  BY DEF Files
<1>2. IsFiniteSet(1..Len(f.lines))
  BY <1>1, FS_Interval
<1>3. IsFiniteSet(GarbledLines(f))
  BY <1>2, FS_Subset DEF GarbledLines
<1> QED
  BY <1>3, FS_CardinalityType

(* The lines read reports are the garbled lines and perhaps the open tail. *)
LEMMA TornBounds ==
    ASSUME NEW f \in Files
    PROVE  /\ Cardinality(TornAt(f)) \in Nat
           /\ Cardinality(GarbledLines(f)) =< Cardinality(TornAt(f))
           /\ Cardinality(TornAt(f)) =< Cardinality(GarbledLines(f)) + OpenTail(f)
<1> DEFINE n == Len(f.lines) + 1
<1>1. /\ f.lines \in Views /\ Len(f.lines) \in Nat /\ n \in Nat
      /\ n \notin GarbledLines(f)
  BY DEF Files, Views, GarbledLines
<1>2. IsFiniteSet(GarbledLines(f)) /\ Cardinality(GarbledLines(f)) \in Nat
  BY GarbledFinite
<1>3. /\ IsFiniteSet(GarbledLines(f) \cup {n})
      /\ Cardinality(GarbledLines(f) \cup {n}) = Cardinality(GarbledLines(f)) + 1
  BY <1>1, <1>2, FS_AddElement, Zenon
<1>4. CASE f.tail = NoTail
  <2>1. TornAt(f) = GarbledLines(f)
    BY <1>1, <1>4 DEF TornAt, IntactAt, AllLines, GarbledLines, Views
  <2> QED
    BY <1>2, <1>4, <2>1 DEF OpenTail
<1>5. CASE f.tail # NoTail
  <2>1. AllLines(f) = Append(f.lines, f.tail)
    BY <1>5 DEF AllLines
  <2>2. /\ DOMAIN AllLines(f) = 1..n
        /\ \A i \in 1..Len(f.lines) : AllLines(f)[i] = f.lines[i]
    <3>1. f.tail \in JournalRecord \cup {Garbled}
      BY <1>5 DEF Files
    <3> QED
      BY <1>1, <2>1, <3>1 DEF Views
  <2>3. TornAt(f) = {i \in 1..n : AllLines(f)[i] = Garbled}
    BY <2>2 DEF TornAt, IntactAt
  <2>4. GarbledLines(f) \subseteq TornAt(f) /\ TornAt(f) \subseteq GarbledLines(f) \cup {n}
    BY <1>1, <2>2, <2>3 DEF GarbledLines
  <2>5. /\ IsFiniteSet(TornAt(f))
        /\ Cardinality(TornAt(f)) =< Cardinality(GarbledLines(f) \cup {n})
    BY <1>3, <2>4, FS_Subset
  <2>6. Cardinality(GarbledLines(f)) =< Cardinality(TornAt(f))
    BY <2>4, <2>5, FS_Subset
  <2>7. Cardinality(TornAt(f)) \in Nat
    BY <2>5, FS_CardinalityType
  <2> HIDE DEF n
  <2> QED
    BY <1>2, <1>3, <1>5, <2>5, <2>6, <2>7 DEF OpenTail
<1> QED
  BY <1>4, <1>5

(* One append garbles one line if a tail was open, and closes the tail.    *)
LEMMA AppendTears ==
    ASSUME NEW f \in Files, NEW r \in JournalRecord
    PROVE  LET g == AppendLine(f, r) IN
           /\ Cardinality(GarbledLines(g)) + OpenTail(g)
                = Cardinality(GarbledLines(f)) + OpenTail(f)
           /\ Reads(f) \ {f.tail} \subseteq Reads(g)
           /\ f.tail = NoTail => r \in Reads(g)
<1> DEFINE g == AppendLine(f, r)  n == Len(f.lines) + 1
<1>1. g \in Files /\ g.tail = NoTail
  BY AppendView
<1>2. Longer(f.lines, g.lines, IF f.tail = NoTail THEN r ELSE Garbled)
  BY AppendView
<1>3. f.lines \in Views /\ Len(f.lines) \in Nat /\ n \notin GarbledLines(f)
  BY DEF Files, Views, GarbledLines
<1>4. IsFiniteSet(GarbledLines(f)) /\ Cardinality(GarbledLines(f)) \in Nat
  BY GarbledFinite
<1>5. Cardinality(GarbledLines(f) \cup {n}) = Cardinality(GarbledLines(f)) + 1
  BY <1>3, <1>4, FS_AddElement, Zenon
<1>6. f.tail = NoTail => GarbledLines(g) = GarbledLines(f)
  BY <1>2, <1>3, LinesDiffer DEF Longer, GarbledLines
<1>7. f.tail # NoTail => GarbledLines(g) = GarbledLines(f) \cup {n}
  BY <1>2, <1>3 DEF Longer, GarbledLines
<1>8. \A i \in 1..Len(f.lines) : i \in 1..Len(g.lines) /\ g.lines[i] = f.lines[i]
  BY <1>2, <1>3 DEF Longer
<1>9. Reads(f) \ {f.tail} \subseteq Reads(g)
  BY <1>8 DEF Reads
<1>10. f.tail = NoTail => r \in Reads(g)
  <2> SUFFICES ASSUME f.tail = NoTail PROVE r \in Reads(g)
    OBVIOUS
  <2>1. n \in 1..Len(g.lines) /\ g.lines[n] = r
    BY <1>2, <1>3 DEF Longer
  <2> QED
    BY <2>1, LinesDiffer DEF Reads
<1>11. Cardinality(GarbledLines(g)) + OpenTail(g)
          = Cardinality(GarbledLines(f)) + OpenTail(f)
  <2>1. OpenTail(g) = 0
    BY <1>1 DEF OpenTail
  <2> HIDE DEF g, n
  <2>2. CASE f.tail = NoTail
    <3>1. OpenTail(f) = 0
      BY <2>2 DEF OpenTail
    <3> QED
      BY <1>6, <2>1, <2>2, <3>1
  <2>3. CASE f.tail # NoTail
    <3>1. OpenTail(f) = 1
      BY <2>3 DEF OpenTail
    <3>2. Cardinality(GarbledLines(g)) = Cardinality(GarbledLines(f)) + 1
      BY <1>5, <1>7, <2>3
    <3> QED
      BY <1>4, <2>1, <3>1, <3>2
  <2> QED
    BY <2>2, <2>3
<1> QED
  BY <1>9, <1>10, <1>11

(* A write cut short garbles no line and spoils at most the open tail.     *)
LEMMA CutTears ==
    ASSUME NEW f \in Files, NEW r \in JournalRecord, NEW g \in CutAppends(f, r)
    PROVE  /\ GarbledLines(g) = GarbledLines(f)
           /\ Reads(f) \ {f.tail} \subseteq Reads(g)
<1>1. g.lines = f.lines
  BY CutView
<1> QED
  BY <1>1 DEF GarbledLines, Reads

-----------------------------------------------------------------------------
(* The inductive invariant.  A killed writer may have written one record   *)
(* more than its counter says; an open tail is a record nobody was told    *)
(* of, so gluing to it loses only the record that is being appended.       *)
Top == IF running THEN seq ELSE seq + 1

LinesGood == Good(AllLines(file), Top, sent)

AckedOK == file.tail \notin acked /\ \A r \in acked : r.message =< sent

LossBound == IsFiniteSet(Lost) /\ Cardinality(Lost) =< Cardinality(GarbledLines(file))

TearBound == Cardinality(GarbledLines(file)) + OpenTail(file) =< cuts

IInv == TypeOK /\ LinesGood /\ AckedOK /\ LossBound /\ TearBound

LEMMA InitIInv == Init => IInv
<1> SUFFICES ASSUME Init PROVE IInv
  OBVIOUS
<1>1. file = [lines |-> <<>>, tail |-> NoTail] /\ AllLines(file) = <<>>
  BY DEF Init, EmptyFile, AllLines
<1>2. TypeOK
  BY <1>1 DEF Init, TypeOK, Files
<1>3. LinesGood
  BY <1>1 DEF LinesGood, Good, InOrder, Below, EveryPrefixHasLast
<1>4. AckedOK
  BY DEF Init, AckedOK
<1>5. Lost = {} /\ GarbledLines(file) = {}
  BY <1>1 DEF Init, Lost, GarbledLines
<1>6. LossBound /\ TearBound
  BY <1>1, <1>5, FS_EmptySet DEF Init, LossBound, TearBound, OpenTail
<1> QED
  BY <1>2, <1>3, <1>4, <1>6 DEF IInv

LEMMA NextRecordFacts ==
    ASSUME IInv
    PROVE  /\ NextRecord \in JournalRecord
           /\ NextRecord.seq = seq + 1 /\ NextRecord.message = sent + 1
           /\ NextRecord \notin acked
           /\ file \in Files /\ AllLines(file) \in Views
           /\ seq \in Nat /\ sent \in Nat /\ cuts \in Nat
           /\ file.tail \in JournalRecord \cup {Garbled, NoTail}
<1>1. seq \in Nat /\ sent \in Nat /\ cuts \in Nat /\ file \in Files
  BY DEF IInv, TypeOK
<1>2. NextRecord \in JournalRecord /\ NextRecord.seq = seq + 1
      /\ NextRecord.message = sent + 1
  BY <1>1 DEF NextRecord, JournalRecord
<1>3. NextRecord \notin acked
  BY <1>1, <1>2 DEF IInv, AckedOK
<1> QED
  BY <1>1, <1>2, <1>3, ViewType DEF Files

(* Writing the next record, whole or cut short, keeps the lines good.      *)
LEMMA WriteGood ==
    ASSUME IInv, running,
           NEW g \in CutAppends(file, NextRecord) \cup {AppendLine(file, NextRecord)}
    PROVE  g \in Files /\ Good(AllLines(g), seq + 1, sent + 1)
<1> DEFINE v == AllLines(file)  w == AllLines(g)
<1>1. Good(v, seq, sent)
  BY DEF IInv, LinesGood, Top
<1>2. g \in Files
  BY NextRecordFacts, CutView, AppendView
<1>3. w \in Views /\ v \in Views
  BY <1>2, NextRecordFacts, ViewType
<1>4. \/ g = file
      \/ Longer(v, w, Garbled)
      \/ Longer(v, w, NextRecord)
      \/ Spoiled(v, w)
  <2>1. CASE g \in CutAppends(file, NextRecord)
    BY <2>1, NextRecordFacts, CutView
  <2>2. CASE g = AppendLine(file, NextRecord)
    BY <2>2, NextRecordFacts, AppendView
  <2> QED
    BY <2>1, <2>2
<1>5. seq \in Nat /\ sent \in Nat /\ seq + 1 \in Nat /\ sent + 1 \in Nat
      /\ NextRecord.seq = seq + 1 /\ NextRecord.message = sent + 1
      /\ NextRecord \in JournalRecord
  BY NextRecordFacts
<1> HIDE DEF v, w
<1>6. ASSUME NEW u \in Views, Good(u, seq, sent) PROVE Good(u, seq + 1, sent + 1)
  BY <1>5, <1>6 DEF Good, Below, Views, JournalRecord, Intact
<1>7. CASE g = file
  BY <1>1, <1>2, <1>3, <1>6, <1>7 DEF v
<1>8. CASE Longer(v, w, Garbled)
  <2>1. Good(w, seq + 1, sent + 1)
    BY <1>1, <1>3, <1>5, <1>8, GoodLonger
  <2> QED
    BY <1>2, <2>1 DEF w
<1>9. CASE Longer(v, w, NextRecord)
  <2>1. Good(w, seq + 1, sent + 1)
    BY <1>1, <1>3, <1>5, <1>9, GoodLonger
  <2> QED
    BY <1>2, <2>1 DEF w
<1>10. CASE Spoiled(v, w)
  <2>1. Good(w, seq, sent)
    BY <1>1, <1>3, <1>5, <1>10, GoodSpoiled
  <2> QED
    BY <1>2, <1>3, <1>6, <2>1 DEF w
<1> QED
  BY <1>4, <1>7, <1>8, <1>9, <1>10

(* Fewer lost records, no fewer garbled lines: the bound stays.            *)
LEMMA LossStays ==
    ASSUME IInv, file' \in Files, Lost' \subseteq Lost,
           Cardinality(GarbledLines(file)) =< Cardinality(GarbledLines(file'))
    PROVE  LossBound'
<1>1. IsFiniteSet(Lost) /\ Cardinality(Lost) =< Cardinality(GarbledLines(file))
  BY DEF IInv, LossBound
<1>2. IsFiniteSet(Lost') /\ Cardinality(Lost') =< Cardinality(Lost)
  BY <1>1, FS_Subset
<1>3. Cardinality(Lost') \in Nat /\ Cardinality(Lost) \in Nat
  BY <1>1, <1>2, FS_CardinalityType
<1>4. Cardinality(GarbledLines(file)) \in Nat /\ Cardinality(GarbledLines(file')) \in Nat
  BY GarbledFinite DEF IInv, TypeOK
<1>5. Cardinality(Lost') =< Cardinality(GarbledLines(file'))
  BY <1>1, <1>2, <1>3, <1>4
<1> QED
  BY <1>2, <1>5 DEF LossBound, GarbledLines

LEMMA AppendIInv == ASSUME IInv, append PROVE IInv'
<1> DEFINE r == NextRecord
<1>1. /\ running /\ running' = running /\ cuts' = cuts
      /\ seq' = seq + 1 /\ sent' = sent + 1
      /\ file' = AppendLine(file, r) /\ acked' = acked \cup {r}
  BY DEF append, CanAppend
<1>2. file' \in Files /\ file'.tail = NoTail
  BY <1>1, NextRecordFacts, AppendView
<1>3. TypeOK'
  BY <1>1, <1>2, NextRecordFacts DEF IInv, TypeOK
<1>4. LinesGood'
  <2>1. Good(AllLines(file'), seq', sent')
    BY <1>1, WriteGood
  <2> QED
    BY <1>1, <2>1 DEF LinesGood, Top, AllLines, Good, InOrder, Below, EveryPrefixHasLast,
                      Intact
<1>5. AckedOK'
  <2>1. NoTail \notin acked'
    BY <1>1, NextRecordFacts, LinesDiffer DEF IInv, TypeOK
  <2>2. \A q \in acked' : q.message =< sent'
    <3>1. \A q \in acked : q.message \in Nat /\ q.message =< sent
      BY DEF IInv, TypeOK, AckedOK, JournalRecord
    <3> QED
      BY <1>1, <3>1, NextRecordFacts
  <2> QED
    BY <1>2, <2>1, <2>2 DEF AckedOK
<1>6. /\ Cardinality(GarbledLines(file')) + OpenTail(file')
           = Cardinality(GarbledLines(file)) + OpenTail(file)
      /\ Reads(file) \ {file.tail} \subseteq Reads(file')
      /\ file.tail = NoTail => r \in Reads(file')
  BY <1>1, NextRecordFacts, AppendTears
<1>7. /\ Cardinality(GarbledLines(file)) \in Nat
      /\ Cardinality(GarbledLines(file')) \in Nat
  BY <1>2, NextRecordFacts, GarbledFinite
<1>8. TearBound'
  BY <1>1, <1>6 DEF IInv, TearBound, GarbledLines, OpenTail
<1>9. Lost = acked \ Reads(file) /\ Lost' = acked' \ Reads(file')
  <2>1. Reads(file) = ReadBack(file) /\ Reads(file') = ReadBack(file')
    BY <1>2, NextRecordFacts, ReadsIsReadBack
  <2> QED
    BY <2>1 DEF Lost, ReadBack, IntactAt, AllLines
<1>10. LossBound'
  <2>1. file.tail \notin acked
    BY DEF IInv, AckedOK
  <2>2. Lost' \subseteq Lost \cup {r}
    BY <1>1, <1>6, <1>9, <2>1
  <2>3. CASE file.tail = NoTail
    <3>1. Lost' \subseteq Lost
      BY <1>6, <2>2, <2>3, <1>9
    <3>2. OpenTail(file) = 0 /\ OpenTail(file') = 0
      BY <1>2, <2>3 DEF OpenTail
    <3>3. Cardinality(GarbledLines(file)) =< Cardinality(GarbledLines(file'))
      BY <1>6, <1>7, <3>2
    <3> QED
      BY <1>2, <3>1, <3>3, LossStays
  <2>4. CASE file.tail # NoTail
    <3>1. OpenTail(file) = 1 /\ OpenTail(file') = 0
      BY <1>2, <2>4 DEF OpenTail
    <3>2. IsFiniteSet(Lost) /\ Cardinality(Lost) =< Cardinality(GarbledLines(file))
      BY DEF IInv, LossBound
    <3>3. Cardinality(Lost) \in Nat
      BY <3>2, FS_CardinalityType
    <3> HIDE DEF r
    <3>4. /\ IsFiniteSet(Lost \cup {r})
          /\ Cardinality(Lost \cup {r})
                = IF r \in Lost THEN Cardinality(Lost) ELSE Cardinality(Lost) + 1
      BY <3>2, FS_AddElement, Zenon
    <3>5. IsFiniteSet(Lost') /\ Cardinality(Lost') =< Cardinality(Lost \cup {r})
      BY <2>2, <3>4, FS_Subset
    <3>6. Cardinality(Lost') \in Nat
      BY <3>5, FS_CardinalityType
    <3>7. Cardinality(Lost') =< Cardinality(GarbledLines(file'))
      BY <1>6, <1>7, <3>1, <3>2, <3>3, <3>4, <3>5, <3>6
    <3> QED
      BY <3>5, <3>7 DEF LossBound, GarbledLines
  <2> QED
    BY <2>3, <2>4
<1> QED
  BY <1>3, <1>4, <1>5, <1>8, <1>10 DEF IInv

(* A write that is not acknowledged tears at most one line and loses at    *)
(* most a record nobody was told of.                                       *)
LEMMA UnackedWrite ==
    ASSUME IInv, running, acked' = acked, cuts' = cuts + 1, sent' = sent + 1,
           NEW g \in CutAppends(file, NextRecord) \cup {AppendLine(file, NextRecord)},
           file' = g, running' \in BOOLEAN, seq' \in Nat, Top' = seq + 1
    PROVE  IInv'
<1>1. g \in Files /\ Good(AllLines(g), seq + 1, sent + 1)
  BY WriteGood
<1>2. TypeOK'
  BY <1>1, NextRecordFacts DEF IInv, TypeOK
<1>3. LinesGood'
  BY <1>1, ZenonT(60) DEF LinesGood, AllLines, Good, InOrder, Below, EveryPrefixHasLast, Intact
<1>4. g.tail \in {file.tail, Garbled, NextRecord, NoTail}
  <2>1. CASE g \in CutAppends(file, NextRecord)
    BY <2>1, NextRecordFacts, CutView
  <2>2. CASE g = AppendLine(file, NextRecord)
    BY <2>2, NextRecordFacts, AppendView
  <2> QED
    BY <2>1, <2>2
<1>5. AckedOK'
  <2>1. g.tail \notin acked
    BY <1>4, NextRecordFacts, LinesDiffer DEF IInv, TypeOK, AckedOK
  <2>2. \A r \in acked : r.message \in Nat /\ r.message =< sent
    BY DEF IInv, TypeOK, AckedOK, JournalRecord
  <2> QED
    BY <2>1, <2>2, NextRecordFacts DEF AckedOK
<1>6. /\ Cardinality(GarbledLines(file)) \in Nat
      /\ Cardinality(GarbledLines(g)) \in Nat
      /\ OpenTail(g) \in 0..1 /\ OpenTail(file) \in 0..1
  BY <1>1, NextRecordFacts, GarbledFinite DEF OpenTail
<1>7. /\ Reads(file) \ {file.tail} \subseteq Reads(g)
      /\ Cardinality(GarbledLines(file)) =< Cardinality(GarbledLines(g))
      /\ Cardinality(GarbledLines(g)) + OpenTail(g)
           =< Cardinality(GarbledLines(file)) + OpenTail(file) + 1
  <2>1. CASE g \in CutAppends(file, NextRecord)
    <3>1. GarbledLines(g) = GarbledLines(file) /\ Reads(file) \ {file.tail} \subseteq Reads(g)
      BY <2>1, NextRecordFacts, CutTears
    <3> QED
      BY <1>6, <3>1
  <2>2. CASE g = AppendLine(file, NextRecord)
    <3>1. /\ Cardinality(GarbledLines(g)) + OpenTail(g)
               = Cardinality(GarbledLines(file)) + OpenTail(file)
          /\ Reads(file) \ {file.tail} \subseteq Reads(g)
          /\ g.tail = NoTail
      BY <2>2, NextRecordFacts, AppendTears, AppendView
    <3>2. OpenTail(g) = 0
      BY <3>1 DEF OpenTail
    <3> QED
      BY <1>6, <3>1, <3>2
  <2> QED
    BY <2>1, <2>2
<1>8. TearBound'
  <2>1. Cardinality(GarbledLines(g)) + OpenTail(g) =< cuts + 1
    BY <1>6, <1>7, NextRecordFacts DEF IInv, TearBound
  <2> QED
    BY <2>1 DEF TearBound, GarbledLines, OpenTail
<1>9. LossBound'
  <2>1. Reads(file) = ReadBack(file) /\ Reads(file') = ReadBack(file')
    BY <1>1, NextRecordFacts, ReadsIsReadBack
  <2>2. Lost = acked \ Reads(file) /\ Lost' = acked \ Reads(file')
    BY <2>1 DEF Lost, ReadBack, IntactAt, AllLines
  <2>3. Lost' \subseteq Lost
    BY <1>7, <2>2 DEF IInv, AckedOK
  <2> QED
    BY <1>1, <1>7, <2>3, LossStays
<1> QED
  BY <1>2, <1>3, <1>5, <1>8, <1>9 DEF IInv

(* A step that writes nothing keeps all but the bound on numbers as it is. *)
LEMMA NoWrite ==
    ASSUME IInv, TypeOK', UNCHANGED <<file, acked, sent>>, cuts =< cuts', LinesGood'
    PROVE  IInv'
<1>1. cuts \in Nat /\ cuts' \in Nat /\ Cardinality(GarbledLines(file)) \in Nat
      /\ OpenTail(file) \in 0..1
  BY GarbledFinite DEF IInv, TypeOK, OpenTail
<1>2. TearBound'
  <2>1. Cardinality(GarbledLines(file)) + OpenTail(file) =< cuts'
    BY <1>1 DEF IInv, TearBound
  <2> QED
    BY <2>1 DEF TearBound, GarbledLines, OpenTail
<1>3. LossBound' /\ AckedOK'
  BY DEF IInv, LossBound, AckedOK, Lost, ReadBack, IntactAt, AllLines, GarbledLines
<1> QED
  BY <1>2, <1>3 DEF IInv

LEMMA KillIInv == ASSUME IInv, Kill PROVE IInv'
<1>1. running /\ running' = FALSE /\ cuts' = cuts + 1 /\ seq' = seq /\ acked' = acked
      /\ seq \in Nat /\ cuts \in Nat
  BY DEF Kill, IInv, TypeOK
<1>2. Top' = seq + 1 /\ Top = seq
  BY <1>1 DEF Top
<1>3. CASE UNCHANGED <<file, sent>>
  <2>1. TypeOK'
    <3>1. running' \in BOOLEAN
      BY <1>1, Zenon
    <3>2. cuts' \in Nat /\ file' = file /\ sent' = sent
      BY <1>1, <1>3
    <3> QED
      BY <1>1, <3>1, <3>2 DEF IInv, TypeOK
  <2>2. Good(AllLines(file), seq, sent)
    BY <1>2 DEF IInv, LinesGood
  <2>3. Good(AllLines(file), seq + 1, sent)
    BY <1>1, <2>2, NextRecordFacts DEF Good, Below, Views, JournalRecord, Intact
  <2>4. LinesGood'
    BY <1>2, <1>3, <2>3, ZenonT(60)
    DEF LinesGood, AllLines, Good, InOrder, Below, EveryPrefixHasLast, Intact
  <2> QED
    BY <1>1, <1>3, <2>1, <2>4, NoWrite
<1>4. CASE /\ sent' = sent + 1
           /\ file' \in CutAppends(file, NextRecord) \cup {AppendLine(file, NextRecord)}
  BY <1>1, <1>2, <1>4, UnackedWrite
<1> QED
  BY <1>3, <1>4 DEF Kill

(* resume finds the last intact record, and no intact number exceeds its.  *)
LEMMA ResumeIInv == ASSUME IInv, resume PROVE IInv'
<1> DEFINE v == AllLines(file)
<1>1. ~running /\ running' = TRUE /\ UNCHANGED <<file, sent, acked, cuts>>
  BY DEF resume
<1>2. v \in Views /\ Len(v) \in Nat /\ DOMAIN v = 1..Len(v) /\ cuts \in Nat /\ sent \in Nat
  BY NextRecordFacts DEF Views
<1>3. InOrder(v) /\ EveryPrefixHasLast(v) /\ Below(v, seq + 1, sent)
  BY <1>1 DEF IInv, LinesGood, Top, Good
<1>4. IntactAt(file) = {i \in 1..Len(v) : Intact(v, i)}
  BY <1>2 DEF IntactAt, Intact
<1>5. \A i \in 1..Len(v) : Intact(v, i) => /\ v[i] \in JournalRecord
                                          /\ v[i].seq \in Nat /\ v[i].message =< sent
  BY <1>2, <1>3 DEF Views, Intact, JournalRecord, Below
<1>6. seq' \in Nat /\ Below(v, seq', sent)
  <2>1. CASE IntactAt(file) = {}
    BY <1>4, <2>1 DEF resume, Below
  <2>2. CASE IntactAt(file) # {}
    <3>1. PICK i \in 1..Len(v) : Intact(v, i) /\ \A j \in (i + 1)..Len(v) : ~Intact(v, j)
      BY <1>2, <1>3, <1>4, <2>2, SMTT(30) DEF EveryPrefixHasLast
    <3>2. i \in IntactAt(file) /\ \A j \in IntactAt(file) : j =< i
      BY <1>2, <1>4, <3>1
    <3>3. LastIntact \in IntactAt(file) /\ \A j \in IntactAt(file) : j =< LastIntact
      BY <3>2 DEF LastIntact
    <3>4. seq' = v[LastIntact].seq
      BY <2>2 DEF resume
    <3> HIDE DEF v
    <3>5. ASSUME NEW j \in 1..Len(v), Intact(v, j) PROVE v[j].seq =< v[LastIntact].seq
      <4>1. CASE j = LastIntact
        BY <1>4, <1>5, <3>3, <4>1
      <4>2. CASE j # LastIntact
        <5>1. j < LastIntact /\ LastIntact \in 1..Len(v) /\ Intact(v, LastIntact)
          BY <1>2, <1>4, <3>3, <3>5, <4>2
        <5>2. v[j].seq < v[LastIntact].seq
          BY <1>3, <3>5, <5>1 DEF InOrder
        <5> QED
          BY <1>5, <3>5, <5>1, <5>2
      <4> QED
        BY <4>1, <4>2
    <3>6. v[LastIntact].seq \in Nat
      BY <1>4, <1>5, <3>3
    <3> QED
      BY <1>5, <3>4, <3>5, <3>6 DEF Below
  <2> QED
    BY <2>1, <2>2
<1>7. LinesGood'
  <2>1. Good(v, seq', sent)
    BY <1>3, <1>6 DEF Good
  <2> QED
    BY <1>1, <2>1, ZenonT(60)
    DEF LinesGood, Top, AllLines, Good, InOrder, Below, EveryPrefixHasLast, Intact
<1>8. TypeOK'
  BY <1>1, <1>6 DEF IInv, TypeOK
<1> QED
  BY <1>1, <1>2, <1>7, <1>8, NoWrite

LEMMA NextIInv == IInv /\ [Next]_vars => IInv'
<1> SUFFICES ASSUME IInv, [Next]_vars PROVE IInv'
  OBVIOUS
<1>1. CASE append
  BY <1>1, AppendIInv
<1>2. CASE AppendThrows
  <2>1. /\ running /\ running' = running /\ acked' = acked
        /\ cuts' = cuts + 1 /\ sent' = sent + 1 /\ seq' = seq + 1
        /\ file' \in CutAppends(file, NextRecord)
    BY <1>2 DEF AppendThrows, CanAppend
  <2>2. Top' = seq + 1 /\ seq' \in Nat /\ running' \in BOOLEAN
    BY <2>1, NextRecordFacts DEF Top
  <2> QED
    BY <2>1, <2>2, UnackedWrite
<1>3. CASE Kill
  BY <1>3, KillIInv
<1>4. CASE resume
  BY <1>4, ResumeIInv
<1>5. CASE UNCHANGED vars
  <2>1. TypeOK' /\ LinesGood'
    BY <1>5, ZenonT(60) DEF vars, IInv, TypeOK, LinesGood, Top, AllLines, Good, InOrder, Below,
                EveryPrefixHasLast, Intact
  <2>2. cuts =< cuts'
    BY <1>5 DEF vars, IInv, TypeOK
  <2> QED
    BY <1>5, <2>1, <2>2, NoWrite DEF vars
<1> QED
  BY <1>1, <1>2, <1>3, <1>4, <1>5 DEF Next, Done

(* The invariant holds in every reachable state.                           *)
THEOREM Invariance == Spec => []IInv
<1> QED
  BY InitIInv, NextIInv, PTL DEF Spec

(* What a reader gets is in the order it was appended and numbered upwards *)
(* after any writes cut short, kills and resumes (journal.ts:33-39, 67-72).*)
THEOREM Order == Spec => []RecordsInOrder
<1>1. IInv => RecordsInOrder
  <2> SUFFICES ASSUME IInv PROVE RecordsInOrder
    OBVIOUS
  <2>1. AllLines(file) \in Views /\ InOrder(AllLines(file))
    BY NextRecordFacts DEF IInv, LinesGood, Good
  <2> QED
    BY <2>1 DEF RecordsInOrder, IntactAt, InOrder, Views, Intact
<1> QED
  BY Invariance, <1>1, PTL

(* For every record append returned and read no longer gets, read reports  *)
(* a torn line (journal.ts:53-61).                                         *)
THEOREM NoSilentLoss == Spec => []LossesAreReported
<1>1. IInv => LossesAreReported
  <2> SUFFICES ASSUME IInv PROVE LossesAreReported
    OBVIOUS
  <2>1. IsFiniteSet(Lost) /\ Cardinality(Lost) =< Cardinality(GarbledLines(file))
    BY DEF IInv, LossBound
  <2>2. /\ Cardinality(TornAt(file)) \in Nat
        /\ Cardinality(GarbledLines(file)) =< Cardinality(TornAt(file))
    BY NextRecordFacts, TornBounds
  <2>3. Cardinality(Lost) \in Nat /\ Cardinality(GarbledLines(file)) \in Nat
    BY <2>1, FS_CardinalityType, NextRecordFacts, GarbledFinite
  <2> QED
    BY <2>1, <2>2, <2>3 DEF LossesAreReported
<1> QED
  BY Invariance, <1>1, PTL

(* Each kill or failed write costs at most one acknowledged record and     *)
(* tears at most one line (journal.ts:9-13).                               *)
THEOREM BoundedLoss == Spec => []EachCutLosesOne
<1>1. IInv => EachCutLosesOne
  <2> SUFFICES ASSUME IInv PROVE EachCutLosesOne
    OBVIOUS
  <2>1. IsFiniteSet(Lost) /\ Cardinality(Lost) =< Cardinality(GarbledLines(file))
    BY DEF IInv, LossBound
  <2>2. /\ Cardinality(TornAt(file)) \in Nat
        /\ Cardinality(TornAt(file)) =< Cardinality(GarbledLines(file)) + OpenTail(file)
    BY NextRecordFacts, TornBounds
  <2>3. Cardinality(Lost) \in Nat /\ Cardinality(GarbledLines(file)) \in Nat
    BY <2>1, FS_CardinalityType, NextRecordFacts, GarbledFinite
  <2>4. Cardinality(GarbledLines(file)) + OpenTail(file) =< cuts
    BY DEF IInv, TearBound
  <2>5. OpenTail(file) \in 0..1 /\ cuts \in Nat
    BY NextRecordFacts DEF OpenTail
  <2> QED
    BY <2>1, <2>2, <2>3, <2>4, <2>5 DEF EachCutLosesOne
<1> QED
  BY Invariance, <1>1, PTL

-----------------------------------------------------------------------------
(* The content cache.                                                      *)

\* Entries are whole, a temporary file about to be renamed is whole, and a
\* content being stored is in the memo already.
StoreInv ==
    /\ StoreTypeOK
    /\ EntriesAreWhole
    /\ \A p \in Procs : pc[p] = "rename" => temp[p][cur[p]] = "whole"
    /\ \A p \in Procs : pc[p] # "idle" => cur[p] \in memo[p]

LEMMA InitStoreInv == StoreInit => StoreInv
BY NoContentAssumption DEF StoreInit, StoreInv, StoreTypeOK, FileState, EntriesAreWhole

LEMMA NextStoreInv == StoreInv /\ [StoreNext]_storeVars => StoreInv'
<1> SUFFICES ASSUME StoreInv, [StoreNext]_storeVars PROVE StoreInv'
  OBVIOUS
<1> USE NoContentAssumption DEF StoreInv, StoreTypeOK, FileState, EntriesAreWhole
<1>1. ASSUME NEW p \in Procs, NEW c \in Contents, PutReturnsAtOnce(p, c) PROVE StoreInv'
  BY <1>1 DEF PutReturnsAtOnce
<1>2. ASSUME NEW p \in Procs, NEW c \in Contents, BeginPut(p, c) PROVE StoreInv'
  BY <1>2 DEF BeginPut
<1>3. ASSUME NEW p \in Procs, NEW c \in Contents, GetReadsEntry(p, c) PROVE StoreInv'
  BY <1>3 DEF GetReadsEntry
<1>4. ASSUME NEW p \in Procs, OpenTemp(p) PROVE StoreInv'
  BY <1>4 DEF OpenTemp
<1>5. ASSUME NEW p \in Procs, FinishTemp(p) PROVE StoreInv'
  BY <1>5 DEF FinishTemp
<1>6. ASSUME NEW p \in Procs, RenameTemp(p) PROVE StoreInv'
  BY <1>6 DEF RenameTemp
<1>7. ASSUME NEW p \in Procs, SystemCallFails(p) PROVE StoreInv'
  BY <1>7 DEF SystemCallFails
<1>8. ASSUME NEW p \in Procs, NewInstance(p) PROVE StoreInv'
  BY <1>8 DEF NewInstance
<1>9. ASSUME NEW p \in Procs, KillProcess(p) PROVE StoreInv'
  BY <1>9 DEF KillProcess
<1>10. CASE UNCHANGED storeVars
  BY <1>10 DEF storeVars
<1> QED BY <1>1, <1>2, <1>3, <1>4, <1>5, <1>6, <1>7, <1>8, <1>9, <1>10 DEF StoreNext, PutStep

\* The invariant holds in every reachable state.
THEOREM StoreInvariance == StoreSpec => []StoreInv
BY InitStoreInv, NextStoreInv, PTL DEF StoreSpec

\* No truncated file ever stands under the name of a content: neither a kill in
\* the middle of a write nor a second writer can leave one (cache.ts:77-83).
THEOREM WholeEntries == StoreSpec => []EntriesAreWhole
<1>1. StoreInv => EntriesAreWhole
  BY DEF StoreInv
<1> QED BY StoreInvariance, <1>1, PTL

-----------------------------------------------------------------------------
(* Each process sees the atomic cache.                                     *)

LEMMA StepImplementsContract ==
    ASSUME StoreInv, [StoreNext]_storeVars
    PROVE  [Contract!CacheNext]_(Contract!cacheVars)
<1> DEFINE Step == Contract!CacheNext \/ UNCHANGED <<Settled(Observed), Readable>>
<1> SUFFICES Step
  BY DEF Contract!cacheVars
<1> USE ObservedAssumption, NoContentAssumption DEF StoreInv, StoreTypeOK, Settled, Readable, EntriesAreWhole, FileState
<1>1. ASSUME NEW p \in Procs, NEW c \in Contents, PutReturnsAtOnce(p, c) PROVE Step
  BY <1>1 DEF PutReturnsAtOnce
<1>2. ASSUME NEW p \in Procs, NEW c \in Contents, BeginPut(p, c) PROVE Step
  <2>1. Settled(Observed)' = Settled(Observed)
    BY <1>2 DEF BeginPut
  <2>2. Readable' = Readable
    BY <1>2 DEF BeginPut
  <2> QED BY <2>1, <2>2
<1>3. ASSUME NEW p \in Procs, NEW c \in Contents, GetReadsEntry(p, c) PROVE Step
  <2>1. Readable' = Readable /\ c \in Readable
    BY <1>3 DEF GetReadsEntry
  <2>2. CASE p = Observed
    <3>1. Settled(Observed)' = Settled(Observed) \cup {c}
      BY <1>3, <2>2 DEF GetReadsEntry
    <3>2. Contract!Get(c)
      BY <2>1, <3>1 DEF Contract!Get
    <3> QED BY <3>2 DEF Contract!CacheNext
  <2>3. CASE p # Observed
    BY <1>3, <2>1, <2>3 DEF GetReadsEntry
  <2> QED BY <2>2, <2>3
<1>4. ASSUME NEW p \in Procs, OpenTemp(p) \/ FinishTemp(p) PROVE Step
  <2>1. Settled(Observed)' = Settled(Observed)
    BY <1>4 DEF OpenTemp, FinishTemp
  <2>2. Readable' = Readable
    BY <1>4 DEF OpenTemp, FinishTemp
  <2> QED BY <2>1, <2>2
<1>5. ASSUME NEW p \in Procs, RenameTemp(p) PROVE Step
  <2> DEFINE c == cur[p]
  <2>1. c \in Contents /\ Readable' = Readable \cup {c}
    BY <1>5 DEF RenameTemp
  <2>2. CASE p = Observed
    <3>1. c \notin Settled(Observed) /\ Settled(Observed)' = Settled(Observed) \cup {c}
      BY <1>5, <2>2 DEF RenameTemp
    <3>2. Contract!PutStores(c)
      BY <2>1, <3>1 DEF Contract!PutStores
    <3>3. Contract!Put(c)
      BY <3>2, Zenon DEF Contract!Put
    <3>4. Contract!CacheNext
      <4> HIDE DEF c, StoreInv, StoreTypeOK, Settled, Readable
      <4> QED BY <2>1, <3>3 DEF Contract!CacheNext
    <3> QED BY <3>4
  <2>3. CASE p # Observed
    <3>1. Settled(Observed)' = Settled(Observed)
      BY <1>5, <2>3 DEF RenameTemp
    <3>2. Contract!StoredElsewhere
      BY <2>1, <3>1 DEF Contract!StoredElsewhere
    <3> QED BY <3>2 DEF Contract!CacheNext
  <2> QED BY <2>2, <2>3
<1>6. ASSUME NEW p \in Procs, SystemCallFails(p) PROVE Step
  <2> DEFINE c == cur[p]
  <2>1. c \in Contents /\ Readable' = Readable
    BY <1>6 DEF SystemCallFails
  <2>2. CASE p = Observed
    <3>1. c \notin Settled(Observed) /\ Settled(Observed)' = Settled(Observed) \cup {c}
      BY <1>6, <2>2 DEF SystemCallFails
    <3>2. Contract!PutFails(c)
      BY <2>1, <3>1 DEF Contract!PutFails
    <3> QED BY <2>1, <3>2 DEF Contract!CacheNext
  <2>3. CASE p # Observed
    <3>1. Settled(Observed)' = Settled(Observed)
      BY <1>6, <2>3 DEF SystemCallFails
    <3> QED BY <2>1, <3>1
  <2> QED BY <2>2, <2>3
<1>7. ASSUME NEW p \in Procs, NewInstance(p) \/ KillProcess(p) PROVE Step
  <2>1. Readable' = Readable
    BY <1>7 DEF NewInstance, KillProcess
  <2>2. CASE p = Observed
    <3>1. Settled(Observed)' = {}
      BY <1>7, <2>2 DEF NewInstance, KillProcess
    <3>2. Contract!Reopen
      BY <2>1, <3>1 DEF Contract!Reopen
    <3> QED BY <3>2 DEF Contract!CacheNext
  <2>3. CASE p # Observed
    <3>1. Settled(Observed)' = Settled(Observed)
      BY <1>7, <2>3 DEF NewInstance, KillProcess
    <3> QED BY <2>1, <3>1
  <2> QED BY <2>2, <2>3
<1>8. CASE UNCHANGED storeVars
  BY <1>8 DEF storeVars
<1> QED BY <1>1, <1>2, <1>3, <1>4, <1>5, <1>6, <1>7, <1>8 DEF StoreNext, PutStep

\* put and get are atomic for their caller: whatever the other processes do and
\* wherever a kill or a failed call falls, the observed process sees a hit, a
\* stored content or a throw, and nothing in between (cache.ts:67-101).
THEOREM ContractRefinement == StoreSpec => ImplementsContract
<1>1. StoreInit => Contract!CacheInit
  BY ObservedAssumption DEF StoreInit, Contract!CacheInit, Settled, Readable
<1>2. StoreInv /\ [StoreNext]_storeVars => [Contract!CacheNext]_(Contract!cacheVars)
  BY StepImplementsContract
<1> QED BY StoreInvariance, <1>1, <1>2, PTL DEF StoreSpec, ImplementsContract, Contract!CacheSpec

-----------------------------------------------------------------------------
(* Contents lost by failed system calls.                                   *)

\* Contents that were answered, or that some memo would answer, but that the
\* directory does not have.
Doubtful == (answered \cup UNION {Settled(p) : p \in Procs}) \ Readable

DoubtBound == IsFiniteSet(Doubtful) /\ Cardinality(Doubtful) =< faults

LEMMA AddOne ==
    ASSUME NEW S, IsFiniteSet(S), NEW x
    PROVE  /\ IsFiniteSet(S \cup {x})
           /\ Cardinality(S \cup {x}) =< Cardinality(S) + 1
<1>1. /\ IsFiniteSet(S \cup {x})
      /\ Cardinality(S \cup {x}) = IF x \in S THEN Cardinality(S) ELSE Cardinality(S) + 1
  BY FS_AddElement, Zenon
<1>2. Cardinality(S) \in Nat
  BY FS_CardinalityType
<1> QED BY <1>1, <1>2

LEMMA NoNewDoubt ==
    ASSUME DoubtBound, Doubtful' \subseteq Doubtful, UNCHANGED faults, faults \in Nat
    PROVE  DoubtBound'
<1>1. IsFiniteSet(Doubtful') /\ Cardinality(Doubtful') =< Cardinality(Doubtful)
  BY FS_Subset DEF DoubtBound
<1>2. Cardinality(Doubtful') \in Nat /\ Cardinality(Doubtful) \in Nat
  BY <1>1, FS_CardinalityType DEF DoubtBound
<1> QED BY <1>1, <1>2 DEF DoubtBound

LEMMA NextDoubt == StoreInv /\ DoubtBound /\ [StoreNext]_storeVars => DoubtBound'
<1> SUFFICES ASSUME StoreInv, DoubtBound, [StoreNext]_storeVars PROVE DoubtBound'
  OBVIOUS
<1> USE NoContentAssumption DEF StoreInv, StoreTypeOK, EntriesAreWhole, FileState
<1>1. ASSUME NEW p \in Procs, SystemCallFails(p) PROVE DoubtBound'
  <2> DEFINE k == cur[p]
  <2>1. faults' = faults + 1
    BY <1>1 DEF SystemCallFails
  <2>2. Doubtful' \subseteq Doubtful \cup {k}
    BY <1>1 DEF SystemCallFails, Doubtful, Settled, Readable
  <2>3. IsFiniteSet(Doubtful) /\ Cardinality(Doubtful) \in Nat
    BY FS_CardinalityType DEF DoubtBound
  <2>4. /\ IsFiniteSet(Doubtful \cup {k})
        /\ Cardinality(Doubtful \cup {k}) =< Cardinality(Doubtful) + 1
    BY <2>3, AddOne
  <2>5. /\ IsFiniteSet(Doubtful')
        /\ Cardinality(Doubtful') =< Cardinality(Doubtful \cup {k})
    BY <2>2, <2>4, FS_Subset
  <2>6. Cardinality(Doubtful') \in Nat /\ Cardinality(Doubtful \cup {k}) \in Nat
    BY <2>4, <2>5, FS_CardinalityType
  <2>7. Cardinality(Doubtful) =< faults
    BY DEF DoubtBound
  <2>8. Cardinality(Doubtful') =< faults'
    <3> HIDE DEF k
    <3> QED BY <2>1, <2>3, <2>4, <2>5, <2>6, <2>7
  <2> QED BY <2>5, <2>8 DEF DoubtBound
<1>2. ASSUME NEW p \in Procs, RenameTemp(p) PROVE DoubtBound'
  BY <1>2, NoNewDoubt DEF RenameTemp, Doubtful, Settled, Readable
<1>3. ASSUME NEW p \in Procs, NEW c \in Contents,
             PutReturnsAtOnce(p, c) \/ BeginPut(p, c) \/ GetReadsEntry(p, c)
      PROVE  DoubtBound'
  BY <1>3, NoNewDoubt, SMTT(30)
     DEF PutReturnsAtOnce, BeginPut, GetReadsEntry, Doubtful, Settled, Readable
<1>4. ASSUME NEW p \in Procs, OpenTemp(p) \/ FinishTemp(p) PROVE DoubtBound'
  BY <1>4, NoNewDoubt DEF OpenTemp, FinishTemp, Doubtful, Settled, Readable
<1>5. ASSUME NEW p \in Procs, NewInstance(p) \/ KillProcess(p) PROVE DoubtBound'
  BY <1>5, NoNewDoubt DEF NewInstance, KillProcess, Doubtful, Settled, Readable
<1>6. CASE UNCHANGED storeVars
  BY <1>6, NoNewDoubt DEF storeVars, Doubtful, Settled, Readable
<1> QED BY <1>1, <1>2, <1>3, <1>4, <1>5, <1>6 DEF StoreNext, PutStep

\* Each failed system call can make at most one answered content unreadable
\* for later processes; kills and races between writers lose none (cache.ts:71-83).
THEOREM BoundedDoubt == StoreSpec => []OnlyFaultsLoseContent
<1>1. StoreInit => DoubtBound
  <2> SUFFICES ASSUME StoreInit PROVE DoubtBound
    OBVIOUS
  <2>1. Doubtful = {} /\ faults = 0
    BY DEF StoreInit, Doubtful, Settled
  <2> QED BY <2>1, FS_EmptySet DEF DoubtBound
<1>2. StoreInv /\ DoubtBound => OnlyFaultsLoseContent
  <2> SUFFICES ASSUME StoreInv, DoubtBound PROVE OnlyFaultsLoseContent
    OBVIOUS
  <2>1. answered \ Readable \subseteq Doubtful
    BY DEF Doubtful
  <2>2. /\ Cardinality(answered \ Readable) =< Cardinality(Doubtful)
        /\ Cardinality(answered \ Readable) \in Nat
        /\ Cardinality(Doubtful) \in Nat
    BY <2>1, FS_Subset, FS_CardinalityType DEF DoubtBound
  <2>3. Cardinality(Doubtful) =< faults /\ faults \in Nat
    BY DEF DoubtBound, StoreInv, StoreTypeOK
  <2> QED BY <2>2, <2>3 DEF OnlyFaultsLoseContent
<1> QED BY StoreInvariance, NextDoubt, <1>1, <1>2, PTL DEF StoreSpec
=============================================================================
