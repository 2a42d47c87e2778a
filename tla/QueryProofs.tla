---------------------------- MODULE QueryProofs ----------------------------
(***************************************************************************)
(* What is proved about GraphQueries, BudgetedQuery and Retrieval, for     *)
(* every set of graphs, transactions, requests, budgets and bounds:        *)
(* FoundInv: a query holds nodes, each once, and every committed graph is  *)
(*   made of nodes;                                                        *)
(* FitInv: the totals are sums of the prefixes of the costs; the lines     *)
(*   shown and left out are those looked at, and the shown are within the  *)
(*   budget (BudgetHolds, NothingIsDropped, MapFits);                      *)
(* WalkInv: a query that walks has found only what some graph of its time  *)
(*   leads to, and from the targets done all that every graph of its time  *)
(*   leads to (AnswersAreTrue); the levels of the recursive statement are  *)
(*   the ends of walks;                                                    *)
(* TrackInv: the tracker holds the agent's answers in their order, by      *)
(*   number, and the misses those of the reads (MissesAreTrue).            *)
(***************************************************************************)
EXTENDS Retrieval, SumLemmas

-----------------------------------------------------------------------------
(* Lists.                                                                  *)

\* s lists the elements of S, each once.
Lists(s, S) == s \in Seq(S) /\ IsInjective(s) /\ Range(s) = S

\* A relation by which S can be listed.
OrderOf(before, S) ==
    /\ \A n \in S : <<n, n>> \notin before
    /\ \A l, m, n \in S : <<l, m>> \in before /\ <<m, n>> \in before => <<l, n>> \in before
    /\ \A m, n \in S : m # n => <<m, n>> \in before \/ <<n, m>> \in before

\* What comes before an element tells its place.
LEMMA OrderedLists ==
    ASSUME NEW S, IsFiniteSet(S), NEW before, OrderOf(before, S)
    PROVE  Lists(Ordered(S, before), S)
<1> DEFINE Below(n) == {m \in S : <<m, n>> \in before}
           N == Cardinality(S)
           r == [n \in S |-> Cardinality(Below(n))]
           s == Ordered(S, before)
<1>1. N \in Nat
  BY FS_CardinalityType
<1>2. ASSUME NEW n \in S PROVE IsFiniteSet(Below(n)) /\ r[n] \in 0..(N - 1)
  <2>1. Below(n) \in SUBSET (S \ {n})
    BY DEF OrderOf
  <2>2. IsFiniteSet(S \ {n}) /\ Cardinality(S \ {n}) = N - 1
    BY FS_RemoveElement
  <2>3. /\ IsFiniteSet(Below(n)) /\ Cardinality(Below(n)) =< N - 1
        /\ Cardinality(Below(n)) \in Nat
    <3>1. IsFiniteSet(Below(n)) /\ Cardinality(Below(n)) =< Cardinality(S \ {n})
      BY <2>1, <2>2, FS_Subset
    <3>2. Cardinality(Below(n)) \in Nat
      BY <3>1, FS_CardinalityType
    <3> HIDE DEF Below
    <3> QED BY <2>2, <3>1, <3>2
  <2> HIDE DEF Below
  <2> QED BY <1>1, <2>3
<1>a. \A n \in S : r[n] \in 0..(N - 1) /\ r[n] \in Nat
  <2>1. \A n \in S : r[n] \in 0..(N - 1)
    BY <1>2
  <2> HIDE DEF r, N
  <2> QED BY <1>1, <2>1
<1>3. ASSUME NEW m \in S, NEW n \in S, <<m, n>> \in before PROVE r[m] < r[n]
  <2>1. Below(m) \in SUBSET (Below(n) \ {m}) /\ m \in Below(n)
    BY <1>3 DEF OrderOf
  <2>2. IsFiniteSet(Below(n) \ {m}) /\ Cardinality(Below(n) \ {m}) = r[n] - 1
    <3>1. IsFiniteSet(Below(n))
      BY <1>2
    <3> HIDE DEF Below
    <3> QED BY <2>1, <3>1, FS_RemoveElement
  <2>3. Cardinality(Below(m)) =< r[n] - 1
    <3> HIDE DEF Below
    <3> QED BY <2>1, <2>2, FS_Subset
  <2>4. r[m] = Cardinality(Below(m)) /\ r[m] \in Nat /\ r[n] \in Nat
    BY <1>a
  <2> HIDE DEF Below, r
  <2> QED BY <2>3, <2>4
<1> HIDE DEF r
<1>4. \A m, n \in S : r[m] = r[n] => m = n
  <2> SUFFICES ASSUME NEW m \in S, NEW n \in S, r[m] = r[n], m # n PROVE FALSE
    OBVIOUS
  <2>1. r[m] \in Nat /\ r[n] \in Nat
    BY <1>a
  <2>2. r[m] < r[n] \/ r[n] < r[m]
    BY <1>3 DEF OrderOf
  <2> QED BY <2>1, <2>2
<1>5. \A i \in 1..N : \E n \in S : r[n] = i - 1
  <2>1. r \in Injection(S, 0..(N - 1))
    <3>1. r \in [S -> 0..(N - 1)]
      <4>1. \A n \in S : r[n] \in 0..(N - 1)
        BY <1>a
      <4>2. r = [n \in S |-> r[n]]
        BY DEF r
      <4> QED BY <4>1, <4>2
    <3> QED BY <1>4, <3>1 DEF Injection, IsInjective
  <2>2. IsFiniteSet(0..(N - 1)) /\ Cardinality(0..(N - 1)) = N
    BY <1>1, FS_Interval
  <2>3. r \in Surjection(S, 0..(N - 1))
    BY <2>1, <2>2, FS_Injection
  <2>4. \A k \in 0..(N - 1) : \E n \in S : r[n] = k
    BY <2>3 DEF Surjection
  <2>5. \A i \in 1..N : i - 1 \in 0..(N - 1)
    BY <1>1
  <2> QED BY <2>4, <2>5
<1>6. /\ DOMAIN s = 1..N /\ s = [i \in 1..N |-> s[i]]
      /\ \A i \in 1..N : s[i] = CHOOSE n \in S : r[n] = i - 1
  <2>1. \A i \in 1..N : s[i] = CHOOSE n \in S : Cardinality(Below(n)) = i - 1
    BY DEF Ordered
  <2>2. \A i \in 1..N : (CHOOSE n \in S : Cardinality(Below(n)) = i - 1)
                          = CHOOSE n \in S : r[n] = i - 1
    BY DEF r
  <2>3. DOMAIN s = 1..N
    BY DEF Ordered
  <2>4. s = [i \in 1..N |-> s[i]]
    <3> DEFINE pick(i) == CHOOSE n \in S : Cardinality(Below(n)) = i - 1
    <3>1. s = [i \in 1..N |-> pick(i)]
      BY DEF Ordered
    <3> HIDE DEF pick, s
    <3> QED BY <3>1
  <2> HIDE DEF s, Below, N
  <2> QED BY <2>1, <2>2, <2>3, <2>4
<1>7. \A i \in 1..N : s[i] \in S /\ r[s[i]] = i - 1
  <2> SUFFICES ASSUME NEW i \in 1..N PROVE s[i] \in S /\ r[s[i]] = i - 1
    OBVIOUS
  <2>1. PICK n \in S : r[n] = i - 1
    BY <1>5
  <2>2. s[i] = CHOOSE m \in S : r[m] = i - 1
    BY <1>6
  <2> HIDE DEF s
  <2> QED BY <2>1, <2>2
<1>8. DOMAIN s = 1..N /\ s \in Seq(S)
  BY <1>1, <1>6, <1>7
<1> HIDE DEF s
<1>9. IsInjective(s)
  <2> SUFFICES ASSUME NEW i \in 1..N, NEW j \in 1..N, s[i] = s[j] PROVE i = j
    BY <1>8 DEF IsInjective
  <2>1. i - 1 = j - 1
    BY <1>7
  <2> QED BY <2>1
<1>10. Range(s) = S
  <2>1. ASSUME NEW n \in S PROVE \E i \in 1..N : s[i] = n
    <3>1. r[n] \in 0..(N - 1) /\ r[n] + 1 \in 1..N /\ (r[n] + 1) - 1 = r[n]
      <4> HIDE DEF N
      <4> QED BY <1>1, <1>a
    <3>2. s[r[n] + 1] \in S /\ r[s[r[n] + 1]] = r[n]
      BY <1>7, <3>1
    <3>3. s[r[n] + 1] = n
      BY <1>4, <3>2
    <3> QED BY <3>1, <3>3
  <2> QED BY <1>7, <1>8, <2>1 DEF Range
<1> QED BY <1>8, <1>9, <1>10 DEF Lists, s

\* The rows of a statement are its nodes, each once.
LEMMA RowsList ==
    ASSUME NEW S \in SUBSET Ids
    PROVE  Lists(Rows(S), S)
<1>1. IsFiniteSet(S)
  BY IdsAssumption, FS_Subset
<1>2. \A n \in S : n \in Ids /\ Symbol[n].row \in Int
  BY SymbolAssumption
<1>3. \A m, n \in S : Symbol[m].row = Symbol[n].row => m = n
  BY OrderAssumption
<1>4. \A m, n \in S : <<m, n>> \in RowOrder <=> Symbol[m].row < Symbol[n].row
  BY <1>2 DEF RowOrder
<1>5. OrderOf(RowOrder, S)
  BY <1>2, <1>3, <1>4 DEF OrderOf
<1> QED BY <1>1, <1>5, OrderedLists DEF Rows

LEMMA ScoresAreNumbers ==
    ASSUME NEW phrase \in DOMAIN Words, NEW n
    PROVE  searchScore(n, phrase) \in Nat /\ mapScore(n, phrase) \in Nat
<1>1. \A terms : Cardinality(Words[phrase] \cap terms) \in Nat
  <2> SUFFICES ASSUME NEW terms PROVE Cardinality(Words[phrase] \cap terms) \in Nat
    OBVIOUS
  <2>1. IsFiniteSet(Words[phrase])
    BY WordsAssumption
  <2>2. IsFiniteSet(Words[phrase] \cap terms)
    BY <2>1, FS_Intersection
  <2> QED BY <2>2, FS_CardinalityType
<1>2. searchScore(n, phrase) \in Nat
  <2> DEFINE hits == Cardinality(Words[phrase] \cap (Symbol[n].inName \cup Symbol[n].inSignature
                                        \cup Symbol[n].inDoc))
  <2>1. hits \in Nat
    BY <1>1
  <2> HIDE DEF hits
  <2>2. hits + (IF Symbol[n].name = phrase THEN 10 ELSE 0) \in Nat
    BY <2>1
  <2> QED BY <2>2 DEF searchScore, hits
<1>3. mapScore(n, phrase) \in Nat
  <2> DEFINE In(terms) == Cardinality(Words[phrase] \cap terms)
             name == {Symbol[n].name}
  <2>1. \A terms : In(terms) \in Nat
    BY <1>1
  <2> HIDE DEF In
  <2>2. In(name) \in Nat /\ In(Symbol[n].inName \ name) \in Nat
        /\ In(Symbol[n].inDoc) \in Nat /\ In(Symbol[n].inSignature) \in Nat
    BY <2>1
  <2>3. 10 * In(name) + 4 * In(Symbol[n].inName \ name)
            + 2 * In(Symbol[n].inDoc) + In(Symbol[n].inSignature) \in Nat
    BY <2>2
  <2> QED BY <2>3 DEF mapScore, In
<1> QED BY <1>2, <1>3

\* A search puts the nodes that match in an order.
LEMMA SearchLists ==
    ASSUME NEW phrase \in DOMAIN Words, NEW S \in SUBSET Ids
    PROVE  Lists(Ordered(S, SearchOrder(phrase)), S)
<1> DEFINE score(n) == searchScore(n, phrase)
<1>1. IsFiniteSet(S)
  BY IdsAssumption, FS_Subset
<1>2. \A n \in S : n \in Ids /\ Symbol[n].row \in Int /\ score(n) \in Nat
  BY SymbolAssumption, ScoresAreNumbers
<1>3. \A m, n \in S : Symbol[m].row = Symbol[n].row => m = n
  BY OrderAssumption
<1>4. \A m, n \in S : <<m, n>> \in SearchOrder(phrase) <=>
         \/ score(m) > score(n)
         \/ score(m) = score(n) /\ Symbol[m].row < Symbol[n].row
  BY <1>2 DEF SearchOrder, RowOrder
<1> HIDE DEF score
<1>5. OrderOf(SearchOrder(phrase), S)
  <2>1. \A n \in S : <<n, n>> \notin SearchOrder(phrase)
    BY <1>2, <1>4
  <2>2. \A l, m, n \in S : <<l, m>> \in SearchOrder(phrase) /\ <<m, n>> \in SearchOrder(phrase)
                            => <<l, n>> \in SearchOrder(phrase)
    BY <1>2, <1>4
  <2>3. \A m, n \in S : m # n => \/ <<m, n>> \in SearchOrder(phrase)
                                  \/ <<n, m>> \in SearchOrder(phrase)
    BY <1>2, <1>3, <1>4
  <2> QED BY <2>1, <2>2, <2>3 DEF OrderOf
<1> QED BY <1>1, <1>5, OrderedLists

\* The task map puts them in another.
LEMMA MapLists ==
    ASSUME NEW phrase \in DOMAIN Words, NEW S \in SUBSET Ids
    PROVE  Lists(Ordered(S, MapOrder(phrase)), S)
<1> DEFINE score(n) == mapScore(n, phrase)
<1>1. IsFiniteSet(S)
  BY IdsAssumption, FS_Subset
<1>2. \A n \in S : n \in Ids /\ Symbol[n].rank \in Int /\ score(n) \in Nat
  BY SymbolAssumption, ScoresAreNumbers
<1>3. \A m, n \in S : Symbol[m].rank = Symbol[n].rank => m = n
  BY OrderAssumption
<1>4. \A m, n \in S : <<m, n>> \in MapOrder(phrase) <=>
         \/ score(m) > score(n)
         \/ score(m) = score(n) /\ Symbol[m].rank < Symbol[n].rank
  BY <1>2 DEF MapOrder
<1> HIDE DEF score
<1>5. OrderOf(MapOrder(phrase), S)
  <2>1. \A n \in S : <<n, n>> \notin MapOrder(phrase)
    BY <1>2, <1>4
  <2>2. \A l, m, n \in S : <<l, m>> \in MapOrder(phrase) /\ <<m, n>> \in MapOrder(phrase)
                            => <<l, n>> \in MapOrder(phrase)
    BY <1>2, <1>4
  <2>3. \A m, n \in S : m # n => <<m, n>> \in MapOrder(phrase) \/ <<n, m>> \in MapOrder(phrase)
    BY <1>2, <1>3, <1>4
  <2> QED BY <2>1, <2>2, <2>3 DEF OrderOf
<1> QED BY <1>1, <1>5, OrderedLists

\* A list of nodes.
Listed(s) == s \in Seq(Ids) /\ IsInjective(s)

LEMMA RowsListed ==
    ASSUME NEW S \in SUBSET Ids
    PROVE  Listed(Rows(S)) /\ Range(Rows(S)) = S
<1>1. Lists(Rows(S), S)
  BY RowsList
<1>2. \A s \in Seq(S) : s \in Seq(Ids)
  OBVIOUS
<1> QED BY <1>1, <1>2 DEF Lists, Listed

LEMMA EmptyListed == Listed(<<>>) /\ Range(<<>>) = {}
<1>1. <<>> \in Seq(Ids) /\ DOMAIN <<>> = {}
  OBVIOUS
<1> QED BY <1>1 DEF Listed, IsInjective, Range

LEMMA JoinedLists ==
    ASSUME NEW s, NEW t, Listed(s), Listed(t), Range(s) \cap Range(t) = {}
    PROVE  Listed(s \o t) /\ Range(s \o t) = Range(s) \cup Range(t)
<1> DEFINE st == s \o t
           k == Len(s)
<1>1. /\ s \in Seq(Ids) /\ t \in Seq(Ids) /\ st \in Seq(Ids)
      /\ k \in Nat /\ Len(t) \in Nat /\ Len(st) = k + Len(t)
      /\ DOMAIN s = 1..k /\ DOMAIN t = 1..Len(t) /\ DOMAIN st = 1..(k + Len(t))
      /\ \A i \in 1..k : st[i] = s[i]
      /\ \A i \in 1..(k + Len(t)) : i > k => st[i] = t[i - k]
  BY DEF Listed
<1> HIDE DEF st, k
<1>2. \A i \in DOMAIN s : st[i] = s[i] /\ st[i] \in Range(s)
  BY <1>1 DEF Range
<1>3. \A i \in DOMAIN st : i \notin DOMAIN s => /\ i - k \in DOMAIN t
                                               /\ st[i] = t[i - k] /\ st[i] \in Range(t)
  <2> SUFFICES ASSUME NEW i \in DOMAIN st, i \notin DOMAIN s
               PROVE  i - k \in DOMAIN t /\ st[i] = t[i - k] /\ st[i] \in Range(t)
    OBVIOUS
  <2>1. i > k /\ i - k \in 1..Len(t)
    BY <1>1
  <2> QED BY <1>1, <2>1 DEF Range
<1>4. IsInjective(st)
  <2> SUFFICES ASSUME NEW i \in DOMAIN st, NEW j \in DOMAIN st, st[i] = st[j]
               PROVE  i = j
    BY DEF IsInjective
  <2>1. i \in DOMAIN s <=> j \in DOMAIN s
    BY <1>2, <1>3
  <2>2. CASE i \in DOMAIN s
    BY <1>2, <2>1, <2>2 DEF Listed, IsInjective
  <2>3. CASE i \notin DOMAIN s
    <3>1. t[i - k] = t[j - k] /\ i - k \in DOMAIN t /\ j - k \in DOMAIN t
      BY <1>3, <2>1, <2>3
    <3>2. i - k = j - k
      BY <3>1 DEF Listed, IsInjective
    <3>3. i \in Nat /\ j \in Nat
      BY <1>1
    <3> QED BY <1>1, <3>2, <3>3
  <2> QED BY <2>2, <2>3
<1>5. Range(st) = Range(s) \cup Range(t)
  <2>1. Range(st) \subseteq Range(s) \cup Range(t)
    BY <1>2, <1>3 DEF Range
  <2>2. Range(s) \subseteq Range(st)
    <3>1. DOMAIN s \subseteq DOMAIN st
      BY <1>1
    <3> QED BY <1>2, <3>1 DEF Range
  <2>3. Range(t) \subseteq Range(st)
    <3> SUFFICES ASSUME NEW j \in DOMAIN t PROVE t[j] \in Range(st)
      BY DEF Range
    <3>1. k + j \in DOMAIN st /\ k + j > k /\ (k + j) - k = j
      BY <1>1
    <3>2. st[k + j] = t[j]
      BY <1>1, <3>1
    <3> QED BY <3>1, <3>2 DEF Range
  <2> QED BY <2>1, <2>2, <2>3
<1> QED BY <1>1, <1>4, <1>5 DEF Listed, st

LEMMA AppendedLists ==
    ASSUME NEW s, Listed(s), NEW n \in Ids \ Range(s)
    PROVE  Listed(Append(s, n)) /\ Range(Append(s, n)) = Range(s) \cup {n}
<1> DEFINE t == Append(s, n)
           k == Len(s)
<1>1. /\ s \in Seq(Ids) /\ t \in Seq(Ids) /\ k \in Nat
      /\ DOMAIN s = 1..k /\ DOMAIN t = 1..(k + 1)
      /\ t[k + 1] = n /\ \A i \in 1..k : t[i] = s[i]
  BY DEF Listed
<1> HIDE DEF t, k
<1>2. \A i \in DOMAIN t : IF i = k + 1 THEN t[i] = n
                          ELSE i \in DOMAIN s /\ t[i] = s[i] /\ t[i] # n
  <2> SUFFICES ASSUME NEW i \in DOMAIN t, i # k + 1
               PROVE  i \in DOMAIN s /\ t[i] = s[i] /\ t[i] # n
    BY <1>1
  <2>1. i \in DOMAIN s
    BY <1>1
  <2> QED BY <1>1, <2>1 DEF Range
<1>3. IsInjective(t)
  BY <1>2 DEF IsInjective, Listed
<1>4. Range(t) = Range(s) \cup {n}
  <2>1. Range(t) \subseteq Range(s) \cup {n}
    BY <1>2 DEF Range
  <2>2. n \in Range(t)
    <3>1. k + 1 \in DOMAIN t
      BY <1>1
    <3> QED BY <1>1, <3>1 DEF Range
  <2>3. \A i \in DOMAIN s : i \in DOMAIN t /\ t[i] = s[i]
    BY <1>1
  <2> QED BY <2>1, <2>2, <2>3 DEF Range
<1> QED BY <1>1, <1>3, <1>4 DEF Listed, t

-----------------------------------------------------------------------------
(* Costs.                                                                  *)

LEMMA CostsAreNumbers ==
    ASSUME NEW s \in Seq(Ids)
    PROVE  /\ CostsOf(s) \in Seq(Nat) /\ Len(CostsOf(s)) = Len(s)
           /\ \A i \in 1..Len(s) : CostsOf(s)[i] = Symbol[s[i]].cost /\ CostsOf(s)[i] \in Nat
<1>1. DOMAIN s = 1..Len(s) /\ Len(s) \in Nat /\ \A i \in 1..Len(s) : s[i] \in Ids
  OBVIOUS
<1>2. \A i \in 1..Len(s) : Symbol[s[i]].cost \in Nat
  BY <1>1, SymbolAssumption
<1>3. CostsOf(s) = [i \in 1..Len(s) |-> Symbol[s[i]].cost]
  BY <1>1 DEF CostsOf
<1> QED BY <1>1, <1>2, <1>3

\* The sums of the prefixes of a sequence of costs.
LEMMA SumOfPrefix ==
    ASSUME NEW c \in Seq(Nat), NEW k \in 1..Len(c)
    PROVE  /\ Total(SubSeq(c, 1, k - 1)) \in Nat /\ Total(SubSeq(c, 1, k)) \in Nat
           /\ Total(SubSeq(c, 1, k)) = Total(SubSeq(c, 1, k - 1)) + c[k]
<1> DEFINE p == SubSeq(c, 1, k - 1)
           q == SubSeq(c, 1, k)
<1>1. p \in Seq(Nat) /\ c[k] \in Nat /\ q \in Seq(Nat)
  OBVIOUS
<1>2. q = Append(p, c[k])
  <2>1. Len(p) = k - 1 /\ Len(q) = k /\ Len(Append(p, c[k])) = k
    BY <1>1
  <2>2. \A i \in 1..k : q[i] = Append(p, c[k])[i]
    <3> SUFFICES ASSUME NEW i \in 1..k PROVE q[i] = Append(p, c[k])[i]
      OBVIOUS
    <3>1. q[i] = c[i]
      OBVIOUS
    <3>2. CASE i = k
      BY <1>1, <2>1, <3>1, <3>2
    <3>3. CASE i # k
      <4>1. i \in 1..(k - 1) /\ p[i] = c[i]
        BY <3>3
      <4>2. Append(p, c[k])[i] = p[i]
        BY <1>1, <2>1, <4>1
      <4> QED BY <3>1, <4>1, <4>2
    <3> QED BY <3>2, <3>3
  <2>3. Append(p, c[k]) \in Seq(Nat)
    BY <1>1
  <2> HIDE DEF p, q
  <2>4. \A s, t \in Seq(Nat) :
           Len(s) = k /\ Len(t) = k /\ (\A i \in 1..k : s[i] = t[i]) => s = t
    OBVIOUS
  <2> QED BY <1>1, <2>1, <2>2, <2>3, <2>4, Zenon
<1> HIDE DEF p, q
<1>3. Total(p) \in Nat /\ Total(q) = Total(p) + c[k]
  BY <1>1, <1>2, SumOfAppended DEF Total
<1>4. Total(q) \in Nat
  BY <1>1, <1>3
<1>5. p = SubSeq(c, 1, k - 1) /\ q = SubSeq(c, 1, k)
  BY DEF p, q
<1> QED BY <1>3, <1>4, <1>5, Zenon

LEMMA SumOfPrefixes ==
    ASSUME NEW c \in Seq(Nat)
    PROVE  /\ Total(SubSeq(c, 1, 0)) = 0 /\ SubSeq(c, 1, Len(c)) = c
           /\ \A k \in 0..Len(c) : Total(SubSeq(c, 1, k)) \in Nat
           /\ Total(c) \in Nat
<1>1. Total(SubSeq(c, 1, 0)) = 0
  <2>1. SubSeq(c, 1, 0) = <<>>
    OBVIOUS
  <2> QED BY <2>1, SumOfEmpty DEF Total
<1>2. SubSeq(c, 1, Len(c)) = c
  OBVIOUS
<1>3. ASSUME NEW k \in 0..Len(c) PROVE Total(SubSeq(c, 1, k)) \in Nat
  <2>1. CASE k = 0
    BY <1>1, <2>1
  <2>2. CASE k # 0
    BY <2>2, SumOfPrefix
  <2> QED BY <2>1, <2>2
<1>4. Len(c) \in 0..Len(c)
  OBVIOUS
<1> QED BY <1>1, <1>2, <1>3, <1>4

-----------------------------------------------------------------------------
(* What a query has found.                                                 *)

\* The graph is a committed one, and while a query runs, one of its time.
GraphsOK ==
    /\ graph \in Graphs /\ during \subseteq Graphs
    /\ pc \notin {"idle", "answered"} => graph \in during

RequestOK ==
    /\ request.budget \in Int
    /\ pc \notin {"idle", "answered"} => request \in Requests /\ Legal(request)
    /\ pc = "lookup" => request.op \in Direct
    /\ pc \in {"resolve", "visit"} => request.op \in Walking

\* Nothing is found twice.
FoundOK ==
    /\ Listed(results) /\ Listed(targets)
    /\ pc \in {"idle", "lookup", "resolve"} => results = <<>>
    /\ pc = "visit" => targets # <<>>

FoundInv == GraphsOK /\ RequestOK /\ FoundOK

LEMMA RequestsTyped ==
    \A r \in Requests : /\ r.budget \in Int /\ r.depth \in Int
                        /\ r.op = "search" /\ Legal(r) => r.arg \in DOMAIN Words
                        /\ Legal(r) => r.op \in Direct \cup Walking
<1> SUFFICES ASSUME NEW r \in Requests
             PROVE  /\ r.budget \in Int /\ r.depth \in Int
                    /\ r.op = "search" /\ Legal(r) => r.arg \in DOMAIN Words
                    /\ Legal(r) => r.op \in Direct \cup Walking
  OBVIOUS
<1>1. /\ r.budget \in Int /\ r.depth \in Int
      /\ r.op = "search" => r.arg \in DOMAIN Words \cup {""}
  BY RequestsAssumption, Zenon
<1>2. Legal(r) => r.arg # "" /\ r.op \in Direct \cup Walking
  BY Zenon DEF Legal
<1> QED BY <1>1, <1>2, Zenon

LEMMA FoundInit == Init => FoundInv
<1> SUFFICES ASSUME Init PROVE FoundInv
  OBVIOUS
<1>1. NoRequest.budget \in Int
  BY DEF NoRequest
<1> QED BY <1>1, EmptyListed DEF Init, FoundInv, GraphsOK, RequestOK, FoundOK

LEMMA LookupListed ==
    ASSUME NEW g \in Graphs, NEW r \in Requests, Legal(r), r.op \in Direct
    PROVE  Listed(Lookup(g, r.op, r.arg))
<1>1. g.nodes \subseteq Ids
  BY GraphsAssumption
<1>2. CASE r.op = "overview"
  <2>1. {n \in nodesInFile(g, r.arg) : ~isFile(n)} \in SUBSET Ids
    BY <1>1 DEF nodesInFile
  <2> QED BY <1>2, <2>1, RowsListed DEF Lookup
<1>3. CASE r.op = "symbol"
  <2>1. resolveSymbol(g, r.arg) \in SUBSET Ids
    BY <1>1 DEF resolveSymbol, getNode, findNodes
  <2> QED BY <1>3, <2>1, RowsListed DEF Lookup
<1>4. CASE r.op = "search"
  <2> DEFINE S == {n \in g.nodes : ~isFile(n) /\ searchScore(n, r.arg) > 0}
  <2>1. S \in SUBSET Ids /\ r.arg \in DOMAIN Words
    BY <1>1, <1>4, RequestsTyped
  <2>2. Lookup(g, r.op, r.arg) = Ordered(S, SearchOrder(r.arg))
    BY <1>4 DEF Lookup, search
  <2> HIDE DEF S
  <2>3. Lists(Lookup(g, r.op, r.arg), S)
    BY <2>1, <2>2, SearchLists
  <2>4. \A s \in Seq(S) : s \in Seq(Ids)
    BY <2>1
  <2> QED BY <2>3, <2>4 DEF Lists, Listed
<1>5. CASE r.op = "expand"
  <2>1. getNode(g, r.arg) \in SUBSET Ids
    BY <1>1 DEF getNode
  <2> QED BY <1>5, <2>1, RowsListed DEF Lookup
<1> QED BY <1>2, <1>3, <1>4, <1>5 DEF Direct

LEMMA ReachedNodes ==
    ASSUME NEW g \in Graphs, NEW op \in Walking, NEW id, NEW depth
    PROVE  Reached(g, op, id, depth) \subseteq g.nodes /\ g.nodes \subseteq Ids
<1>1. \A from, to, start, kinds, d : traverse(g, from, to, start, kinds, d) \subseteq g.nodes
  BY DEF traverse
<1> HIDE DEF traverse
<1>2. Reached(g, op, id, depth) \subseteq g.nodes
  BY <1>1 DEF Reached, Walking, dependents, neighbours
<1> QED BY <1>2, GraphsAssumption

LEMMA ResolvedListed ==
    ASSUME NEW g \in Graphs, NEW arg
    PROVE  /\ Listed(Rows(resolveSymbol(g, arg)))
           /\ Range(Rows(resolveSymbol(g, arg))) = resolveSymbol(g, arg)
<1>1. resolveSymbol(g, arg) \in SUBSET Ids
  BY GraphsAssumption DEF resolveSymbol, getNode, findNodes
<1> QED BY <1>1, RowsListed

LEMMA TailListed ==
    ASSUME NEW s, Listed(s), s # <<>>
    PROVE  /\ Head(s) \in Range(s) /\ Listed(Tail(s)) /\ (Len(s) # 1 => Tail(s) # <<>>)
           /\ Range(s) = {Head(s)} \cup Range(Tail(s))
           /\ Range(s) \subseteq Ids /\ (Len(s) = 1 => Tail(s) = <<>>)
<1> DEFINE k == Len(s)
           t == Tail(s)
<1>1. /\ s \in Seq(Ids) /\ t \in Seq(Ids) /\ k \in Nat \ {0} /\ Len(t) = k - 1
      /\ DOMAIN s = 1..k /\ DOMAIN t = 1..(k - 1) /\ Head(s) = s[1]
      /\ \A i \in 1..(k - 1) : t[i] = s[i + 1]
      /\ (Len(t) = 0 => t = <<>>)
  BY DEF Listed
<1> HIDE DEF k, t
<1>2. Listed(t)
  <2> SUFFICES ASSUME NEW i \in 1..(k - 1), NEW j \in 1..(k - 1), t[i] = t[j] PROVE i = j
    BY <1>1 DEF Listed, IsInjective
  <2>1. i + 1 \in 1..k /\ j + 1 \in 1..k /\ s[i + 1] = s[j + 1]
    BY <1>1
  <2>2. i + 1 = j + 1
    BY <1>1, <2>1 DEF Listed, IsInjective
  <2> QED BY <2>2
<1>3. 1 \in DOMAIN s
  BY <1>1
<1>4. Range(s) = {Head(s)} \cup Range(t)
  <2>1. ASSUME NEW i \in 1..k PROVE s[i] \in {s[1]} \cup Range(t)
    <3>1. CASE i = 1
      BY <3>1
    <3>2. CASE i # 1
      <4>1. i - 1 \in 1..(k - 1) /\ (i - 1) + 1 = i
        BY <1>1, <3>2
      <4>2. t[i - 1] = s[i]
        BY <1>1, <4>1
      <4> QED BY <1>1, <4>1, <4>2 DEF Range
    <3> QED BY <3>1, <3>2
  <2>2. ASSUME NEW i \in 1..(k - 1) PROVE t[i] \in Range(s)
    <3>1. i + 1 \in 1..k
      BY <1>1
    <3> QED BY <1>1, <3>1 DEF Range
  <2> QED BY <1>1, <1>3, <2>1, <2>2 DEF Range
<1>5. Len(s) = k /\ (k # 1 => t # <<>>) /\ (k = 1 => t = <<>>)
  <2>1. k # 1 => Len(t) # 0
    BY <1>1
  <2>2. t # <<>> \/ Len(t) = 0
    OBVIOUS
  <2> QED BY <1>1, <2>1, <2>2 DEF k
<1>6. Range(s) \subseteq Ids /\ Head(s) \in Range(s)
  BY <1>1, <1>3 DEF Range
<1> QED BY <1>2, <1>4, <1>5, <1>6 DEF t

\* A visit adds what it reaches that is not there yet.
LEMMA VisitAdds ==
    ASSUME FoundInv, VisitTarget
    PROVE  /\ Listed(results')
           /\ Range(results') = Range(results) \cup
                 Reached(graph, request.op, Head(targets), request.depth)
<1> DEFINE R == Reached(graph, request.op, Head(targets), request.depth)
           new == R \ Range(results)
<1>1. R \in SUBSET Ids
  BY ReachedNodes DEF FoundInv, GraphsOK, RequestOK, VisitTarget
<1>2. results' = results \o Rows(new)
  BY DEF VisitTarget
<1> HIDE DEF R
<1>3. Listed(Rows(new)) /\ Range(Rows(new)) = new
  BY <1>1, RowsListed
<1>4. Listed(results)
  BY DEF FoundInv, FoundOK
<1>5. Listed(results') /\ Range(results') = Range(results) \cup new
  <2>1. Range(results) \cap Range(Rows(new)) = {}
    BY <1>3
  <2> HIDE DEF new
  <2> QED BY <1>2, <1>3, <1>4, <2>1, JoinedLists
<1> QED BY <1>5 DEF R

\* A step that finds nothing.
LEMMA FoundUnchanged ==
    ASSUME FoundInv, UNCHANGED <<graph, request, during, results, targets>>,
           pc' \in {pc, "measure", "sum", "fit", "answered"},
           pc \in {"idle", "answered"} => pc' \in {pc, "answered"}
    PROVE  FoundInv'
BY DEF FoundInv, GraphsOK, RequestOK, FoundOK

LEMMA FoundInductive ==
    ASSUME FoundInv, [Next]_vars
    PROVE  FoundInv'
<1>1. CASE UNCHANGED vars
  BY <1>1, FoundUnchanged DEF vars, asking
<1>2. CASE Write
  <2>1. PICK t \in Transactions :
            /\ t[1] = graph /\ graph' = t[2]
            /\ during' = IF pc \in {"idle", "answered"} THEN during ELSE during \cup {t[2]}
    BY <1>2 DEF Write
  <2>2. t[2] \in Graphs
    BY TransactionsAssumption
  <2>3. GraphsOK'
    BY <1>2, <2>1, <2>2 DEF FoundInv, GraphsOK, Write, asking
  <2> QED BY <1>2, <2>3 DEF Write, asking, FoundInv, RequestOK, FoundOK
<1>3. ASSUME NEW r \in Requests, Refuse(r) PROVE FoundInv'
  BY <1>3, RequestsTyped DEF Refuse, FoundInv, GraphsOK, RequestOK, FoundOK
<1>4. ASSUME NEW r \in Requests, Ask(r) PROVE FoundInv'
  <2>1. r.op \in Direct \cup Walking /\ Direct \cap Walking = {} /\ Legal(r)
    BY <1>4, RequestsTyped DEF Ask, Direct, Walking
  <2> QED BY <1>4, <2>1, RequestsTyped DEF Ask, FoundInv, GraphsOK, RequestOK, FoundOK
<1>5. ASSUME NEW phrase \in DOMAIN Words, NEW budget \in MapBudgets, ShowMap(phrase, budget)
      PROVE  FoundInv'
  <2>1. request'.budget = budget /\ budget \in Int
    BY <1>5, MapBudgetsAssumption DEF ShowMap, NoRequest
  <2> QED BY <1>5, <2>1 DEF ShowMap, Answer, FoundInv, GraphsOK, RequestOK, FoundOK
<1>6. CASE LookUp
  <2>1. Listed(results')
    BY <1>6, LookupListed DEF LookUp, FoundInv, GraphsOK, RequestOK
  <2> QED BY <1>6, <2>1 DEF LookUp, FoundInv, GraphsOK, RequestOK, FoundOK
<1>7. CASE VisitTarget
  <2>1. Listed(targets') /\ (pc' = "visit" => targets' # <<>>)
    BY <1>7, TailListed DEF VisitTarget, FoundInv, FoundOK
  <2> QED BY <1>7, <2>1, VisitAdds DEF VisitTarget, FoundInv, GraphsOK, RequestOK, FoundOK
<1>8. CASE Measure
  BY <1>8, FoundUnchanged DEF Measure
<1>9. CASE AddCost
  BY <1>9, FoundUnchanged DEF AddCost
<1>10. CASE SetBudget
  BY <1>10, FoundUnchanged DEF SetBudget
<1>11. CASE FitLine
  BY <1>11, FoundUnchanged DEF FitLine
<1>12. CASE Deliver
  <2>1. NoRequest.budget \in Int
    BY DEF NoRequest
  <2> QED BY <1>12, <2>1, EmptyListed DEF Deliver, FoundInv, GraphsOK, RequestOK, FoundOK
<1>13. CASE Resolve
  <2>1. Listed(targets')
    BY <1>13, ResolvedListed DEF Resolve, FoundInv, GraphsOK
  <2> QED BY <1>13, <2>1 DEF Resolve, Answer, FoundInv, GraphsOK, RequestOK, FoundOK
<1>14. CASE AnswerNothing
  BY <1>14, FoundUnchanged DEF AnswerNothing, Answer
<1>15. CASE Expand
  BY <1>15, FoundUnchanged DEF Expand, Answer
<1>16. CASE Finish
  BY <1>16, FoundUnchanged DEF Finish, Answer
<1> QED
  BY <1>1, <1>2, <1>3, <1>4, <1>5, <1>6, <1>7, <1>8, <1>9, <1>10, <1>11, <1>12, <1>13, <1>14,
     <1>15, <1>16 DEF Next, Requested, Mapped, Proceeds, Answers

-----------------------------------------------------------------------------
(* fitToBudget.                                                            *)

\* The running total never shrinks: each value is the one before and a cost.
TotalsOK ==
    pc \in {"sum", "fit"} =>
        /\ totals \in Seq(Nat)
        /\ Len(totals) \in 1..(Len(results) + 1)
        /\ everything = HeaderTokens + Total(SubSeq(CostsOf(results), 1, Len(totals) - 1))
        /\ \A i \in 1..(Len(totals) - 1) :
              totals[i + 1] = totals[i] + Symbol[results[i]].cost
        /\ totals[1] = HeaderTokens
        /\ \A i \in 1..Len(totals) : totals[i] =< everything

\* The lists are empty until the loop starts.
NotStarted ==
    pc \notin {"fit", "answered"} => at = 0 /\ shown = <<>> /\ truncated = <<>>

\* The results that the loop has looked at.
Seen == {results[i] : i \in 1..at}

\* Each of them is in one list.  What is shown costs no more than all of them do,
\* and as much if nothing is missing.
LoopOK ==
    pc = "fit" =>
        /\ Len(totals) = Len(results) + 1
        /\ contentBudget = BudgetForLines
        /\ at \in 0..Len(results)
        /\ tokens \in Nat
        /\ tokens =< totals[at + 1]
        /\ Listed(shown) /\ Listed(truncated)
        /\ Range(shown) \cap Range(truncated) = {}
        /\ Range(shown) \cup Range(truncated) = Seen
        /\ everything =< request.budget => truncated = <<>>
        /\ shown # <<>> => tokens =< contentBudget
        /\ truncated = <<>> => tokens = totals[at + 1]

\* NothingIsDropped, but for the type of the results.
NothingMissing ==
    reply.kind = "fitted" =>
        /\ IsInjective(reply.shown \o reply.truncated)
        /\ Range(reply.shown \o reply.truncated) = Range(results)
        /\ reply.total = Len(results)
        /\ reply.truncated = <<>> <=>
              \/ results = <<>>
              \/ HeaderTokens + Total(CostsOf(results)) =< request.budget

ReplyOK ==
    IF pc = "answered" THEN BudgetHolds /\ NothingMissing /\ MapFits ELSE reply = NoReply

FitInv == TotalsOK /\ NotStarted /\ LoopOK /\ ReplyOK

LEMMA FitInit == Init => FitInv
<1> SUFFICES ASSUME Init PROVE FitInv
  OBVIOUS
<1> QED BY DEF Init, FitInv, TotalsOK, NotStarted, LoopOK, ReplyOK

\* A step that leaves the loop and its lists alone.
LEMMA OutsideTheLoop ==
    ASSUME FitInv, UNCHANGED <<at, shown, truncated>>, pc' \notin {"sum", "fit", "answered"},
           pc \notin {"fit", "answered"}, reply' = reply
    PROVE  FitInv'
BY DEF FitInv, TotalsOK, NotStarted, LoopOK, ReplyOK

LEMMA AnsweredOutsideTheLoop ==
    ASSUME pc' = "answered", reply'.kind \notin {"fitted", "map"}
    PROVE  FitInv'
<1>1. ~(pc' \in {"sum", "fit"})
  OBVIOUS
<1>2. BudgetHolds' /\ NothingMissing' /\ MapFits'
  BY DEF BudgetHolds, NothingMissing, MapFits
<1> QED BY <1>1, <1>2 DEF FitInv, TotalsOK, NotStarted, LoopOK, ReplyOK

LEMMA MeasureKeeps ==
    ASSUME FoundInv, FitInv, Measure
    PROVE  FitInv'
<1>1. NotStarted' /\ LoopOK' /\ ReplyOK'
  BY DEF Measure, FitInv, NotStarted, LoopOK, ReplyOK
<1>2. /\ CostsOf(results) \in Seq(Nat) /\ results \in Seq(Ids)
      /\ Total(SubSeq(CostsOf(results), 1, 0)) = 0
  BY CostsAreNumbers, SumOfPrefixes DEF FoundInv, FoundOK, Listed
<1>3. /\ totals' = <<HeaderTokens>> /\ pc' = "sum" /\ results' = results
      /\ HeaderTokens \in Nat /\ Len(results) \in Nat
  BY <1>2, TokensAssumption DEF Measure
<1>4. /\ totals' \in Seq(Nat) /\ Len(totals') = 1 /\ totals'[1] = HeaderTokens
  BY <1>3
<1>5. everything' = HeaderTokens
  BY <1>4 DEF everything
<1>6. everything' = HeaderTokens + Total(SubSeq(CostsOf(results'), 1, Len(totals') - 1))
  <2>1. HeaderTokens + 0 = HeaderTokens /\ 1 - 1 = 0
    BY <1>3
  <2>2. Total(SubSeq(CostsOf(results'), 1, Len(totals') - 1)) = 0
    <3>1. Len(totals') - 1 = 0
      BY <1>4
    <3> QED BY <1>2, <1>3, <3>1, Zenon
  <2> QED BY <1>5, <2>1, <2>2
<1>7. TotalsOK'
  BY <1>3, <1>4, <1>5, <1>6 DEF TotalsOK
<1> QED BY <1>1, <1>7 DEF FitInv

LEMMA AddCostKeeps ==
    ASSUME FoundInv, FitInv, AddCost
    PROVE  FitInv'
<1> DEFINE k == Len(totals)
           cost == Symbol[results[k]].cost
           costs == CostsOf(results)
<1>a. /\ totals \in Seq(Nat) /\ k \in 1..(Len(results) + 1) /\ k =< Len(results)
      /\ \A i \in 1..k : totals[i] =< totals[k]
      /\ \A i \in 1..(k - 1) : totals[i + 1] = totals[i] + Symbol[results[i]].cost
      /\ totals[1] = HeaderTokens
      /\ totals[k] = HeaderTokens + Total(SubSeq(costs, 1, k - 1))
  BY Zenon DEF FitInv, TotalsOK, AddCost, everything
<1>b. Len(results) \in Nat
  BY DEF FoundInv, FoundOK, Listed
<1>1. /\ totals \in Seq(Nat) /\ k \in 1..Len(results) /\ k \in 1..k
      /\ \A i \in 1..k : totals[i] =< totals[k]
      /\ \A i \in 1..(k - 1) : totals[i + 1] = totals[i] + Symbol[results[i]].cost
      /\ totals[1] = HeaderTokens
      /\ totals[k] = HeaderTokens + Total(SubSeq(costs, 1, k - 1))
  BY <1>a, <1>b
<1>2. /\ costs \in Seq(Nat) /\ Len(costs) = Len(results) /\ costs[k] = cost /\ cost \in Nat
  BY <1>1, CostsAreNumbers DEF FoundInv, FoundOK, Listed
<1>3. totals[k] \in Nat
  BY <1>1
<1>4. /\ totals' = Append(totals, totals[k] + cost)
      /\ pc' = pc /\ results' = results /\ pc = "sum"
  BY DEF AddCost, everything
<1>5. /\ totals' \in Seq(Nat) /\ Len(totals') = k + 1
      /\ totals'[k + 1] = totals[k] + cost
      /\ \A i \in 1..k : totals'[i] = totals[i]
  <2> DEFINE more == totals[k] + cost
  <2>1. more \in Nat /\ totals' = Append(totals, more) /\ totals \in Seq(Nat)
    BY <1>1, <1>2, <1>3, <1>4
  <2> HIDE DEF more, cost
  <2>2. /\ totals' \in Seq(Nat) /\ Len(totals') = k + 1
        /\ totals'[k + 1] = more
        /\ \A i \in 1..k : totals'[i] = totals[i]
    BY <2>1
  <2> QED BY <2>2 DEF more
<1> HIDE DEF k, cost, costs
<1>6. Total(SubSeq(costs, 1, k)) = Total(SubSeq(costs, 1, k - 1)) + cost
      /\ Total(SubSeq(costs, 1, k - 1)) \in Nat
  BY <1>1, <1>2, SumOfPrefix
<1>7. \A i \in 1..(k + 1) : totals'[i] =< totals'[k + 1]
  <2> TAKE i \in 1..(k + 1)
  <2>1. CASE i = k + 1
    BY <2>1, <1>2, <1>3, <1>5
  <2>2. CASE i \in 1..k
    <3>1. totals[i] \in Nat
      BY <2>2, <1>1 DEF k
    <3> QED BY <2>2, <3>1, <1>1, <1>2, <1>3, <1>5, SMTT(30)
  <2> QED BY <1>1, <2>1, <2>2
<1>8. \A i \in 1..k : totals'[i + 1] = totals'[i] + Symbol[results[i]].cost
  <2> TAKE i \in 1..k
  <2>1. CASE i = k
    BY <2>1, <1>1, <1>5 DEF cost
  <2>2. CASE i \in 1..(k - 1)
    BY <2>2, <1>1, <1>5
  <2> QED BY <2>1, <2>2, <1>1
<1>9. totals'[k + 1] = HeaderTokens + Total(SubSeq(costs, 1, k))
  BY <1>1, <1>2, <1>5, <1>6, TokensAssumption
<1>10. TotalsOK'
  <2>1. everything' = totals'[k + 1]
    BY <1>5 DEF everything
  <2>2. (k + 1) - 1 = k /\ k + 1 \in 1..(Len(results) + 1) /\ totals'[1] = HeaderTokens
    <3>1. 1 \in 1..k
      BY <1>1
    <3>2. totals'[1] = totals[1]
      BY <1>5, <3>1
    <3> QED BY <1>1, <1>b, <3>2
  <2>3. CostsOf(results') = costs
    BY <1>4 DEF costs
  <2>4. everything' = HeaderTokens + Total(SubSeq(CostsOf(results'), 1, Len(totals') - 1))
    <3>1. Len(totals') - 1 = k
      BY <1>5, <2>2
    <3> QED BY <1>9, <2>1, <2>3, <3>1, Zenon
  <2> QED BY <1>4, <1>5, <1>7, <1>8, <2>1, <2>2, <2>4 DEF TotalsOK
<1>11. NotStarted' /\ LoopOK' /\ ReplyOK'
  BY DEF AddCost, FitInv, NotStarted, LoopOK, ReplyOK
<1> QED BY <1>10, <1>11 DEF FitInv

LEMMA SetBudgetKeeps ==
    ASSUME FoundInv, FitInv, SetBudget
    PROVE  FitInv'
<1>1. TotalsOK' /\ NotStarted' /\ ReplyOK'
  BY DEF FitInv, SetBudget, TotalsOK, NotStarted, ReplyOK, everything
<1>2. LoopOK'
  <2>1. /\ Len(totals) = Len(results) + 1 /\ totals[1] = HeaderTokens
        /\ at = 0 /\ shown = <<>> /\ truncated = <<>> /\ Len(results) \in Nat
    BY DEF FitInv, SetBudget, TotalsOK, NotStarted, FoundInv, FoundOK, Listed
  <2>2. Seen' = {} /\ BudgetForLines' = BudgetForLines
    <3>1. at' = 0
      BY <2>1 DEF SetBudget
    <3>2. 1..0 = {}
      OBVIOUS
    <3>3. Seen' = {}
      BY <3>1, <3>2 DEF Seen
    <3> QED BY <3>3 DEF SetBudget, BudgetForLines, everything
  <2>3. /\ Len(totals') = Len(results') + 1 /\ contentBudget' = BudgetForLines
        /\ at' = 0 /\ shown' = <<>> /\ truncated' = <<>>
        /\ tokens' = HeaderTokens /\ totals'[1] = HeaderTokens /\ pc' = "fit"
        /\ results' = results
    BY <2>1 DEF SetBudget
  <2> QED BY <2>1, <2>2, <2>3, TokensAssumption, EmptyListed DEF LoopOK
<1> QED BY <1>1, <1>2 DEF FitInv

LEMMA FitLineKeeps ==
    ASSUME FoundInv, FitInv, FitLine
    PROVE  FitInv'
<1> DEFINE n == results[at + 1]
           cost == Symbol[n].cost
<1>1. /\ at \in 0..Len(results) /\ at < Len(results) /\ Len(totals) = Len(results) + 1
      /\ tokens \in Nat /\ tokens =< totals[at + 1]
      /\ Listed(shown) /\ Listed(truncated)
      /\ Range(shown) \cap Range(truncated) = {}
      /\ Range(shown) \cup Range(truncated) = Seen
      /\ contentBudget = BudgetForLines
      /\ truncated = <<>> => tokens = totals[at + 1]
      /\ shown # <<>> => tokens =< contentBudget
      /\ everything =< request.budget => truncated = <<>>
  BY DEF FitInv, FitLine, LoopOK
<1>2. /\ Len(results) \in Nat /\ DOMAIN results = 1..Len(results)
      /\ results \in Seq(Ids) /\ IsInjective(results) /\ request.budget \in Int
  BY DEF FoundInv, FoundOK, Listed, RequestOK
<1>3. at + 1 \in 1..Len(results) /\ n \in Ids /\ (at + 1) + 1 = at + 2
  BY <1>1, <1>2
<1>4. cost \in Nat
  BY <1>3, SymbolAssumption
<1>5. /\ totals[at + 1] \in Nat /\ totals[at + 2] \in Nat /\ everything \in Nat
      /\ totals[at + 2] = totals[at + 1] + cost /\ totals[at + 2] =< everything
  <2>1. at + 1 \in 1..(Len(totals) - 1) /\ at + 2 \in 1..Len(totals)
    BY <1>1, <1>2
  <2>2. /\ totals \in Seq(Nat) /\ Len(totals) \in 1..Len(totals)
        /\ \A i \in 1..(Len(totals) - 1) :
              totals[i + 1] = totals[i] + Symbol[results[i]].cost
        /\ \A i \in 1..Len(totals) : totals[i] =< totals[Len(totals)]
    BY DEF FitInv, FitLine, TotalsOK, everything
  <2>3. /\ totals[at + 1] \in Nat /\ totals[at + 2] \in Nat /\ everything \in Nat
        /\ totals[at + 2] =< everything
    <3>1. \A i \in 1..Len(totals) : totals[i] \in Nat
      BY <2>2
    <3> QED BY <2>1, <2>2, <3>1, SMTT(30) DEF everything
  <2>4. totals[(at + 1) + 1] = totals[at + 1] + Symbol[results[at + 1]].cost
    BY <2>1, <2>2
  <2> QED BY <1>3, <2>3, <2>4
<1>6. BudgetForLines' = BudgetForLines /\ everything' = everything
  BY DEF FitLine, BudgetForLines, everything
<1>7. TotalsOK' /\ NotStarted' /\ ReplyOK'
  BY DEF FitInv, FitLine, TotalsOK, NotStarted, ReplyOK, everything
<1>8. Seen' = Seen \cup {n} /\ n \notin Seen
  <2>1. results' = results /\ at' = at + 1
    BY DEF FitLine
  <2>2. \A i \in 1..at : i \in 1..Len(results) /\ i # at + 1
    BY <1>1, <1>2
  <2>3. n \notin Seen
    BY <1>2, <1>3, <2>2 DEF Seen, IsInjective
  <2>4. 1..(at + 1) = 1..at \cup {at + 1}
    BY <1>1, <1>2
  <2>5. Seen' = {results[i] : i \in 1..(at + 1)}
    BY <2>1 DEF Seen
  <2> QED BY <2>3, <2>4, <2>5 DEF Seen
<1>9. /\ at' = at + 1 /\ at' \in 0..Len(results')
      /\ UNCHANGED <<pc, request, results, totals, contentBudget>>
  BY <1>1, <1>2, <1>3 DEF FitLine
<1>10. LoopOK'
  <2>1. CASE tokens + cost > contentBudget
    <3>1. ~(everything =< request.budget)
      <4>1. SUFFICES ASSUME everything =< request.budget PROVE FALSE
        OBVIOUS
      <4>2. contentBudget = request.budget
        BY <4>1, <1>1 DEF BudgetForLines
      <4>3. tokens + cost =< everything
        BY <1>1, <1>4, <1>5
      <4> QED BY <2>1, <4>1, <4>2, <4>3, <1>1, <1>2, <1>4, <1>5
    <3>2. truncated' = Append(truncated, n) /\ UNCHANGED <<shown, tokens>>
      BY <2>1 DEF FitLine
    <3>3. n \notin Range(truncated) /\ n \notin Range(shown)
      BY <1>1, <1>8
    <3>4. Listed(truncated') /\ Range(truncated') = Range(truncated) \cup {n}
      BY <1>1, <1>3, <3>2, <3>3, AppendedLists
    <3>5. /\ Range(shown') \cap Range(truncated') = {}
          /\ Range(shown') \cup Range(truncated') = Seen'
      BY <1>1, <1>8, <3>2, <3>3, <3>4
    <3>6. truncated' # <<>>
      BY <3>4, EmptyListed
    <3>7. tokens' =< totals'[at' + 1] /\ tokens' \in Nat
      BY <1>1, <1>3, <1>4, <1>5, <1>9, <3>2
    <3>8. ~(everything' =< request'.budget) /\ contentBudget' = BudgetForLines'
          /\ (shown' # <<>> => tokens' =< contentBudget') /\ Listed(shown')
          /\ Len(totals') = Len(results') + 1
      BY <1>1, <1>6, <1>9, <3>1, <3>2
    <3> QED BY <1>9, <3>4, <3>5, <3>6, <3>7, <3>8 DEF LoopOK
  <2>2. CASE ~(tokens + cost > contentBudget)
    <3>1. shown' = Append(shown, n) /\ tokens' = tokens + cost /\ truncated' = truncated
      BY <2>2 DEF FitLine
    <3>2. contentBudget \in Int
      <4>1. NoteTokens(ManyResults) \in Nat
        BY NoteAssumption, TokensAssumption
      <4> QED BY <4>1, <1>1, <1>2 DEF BudgetForLines
    <3>3. /\ tokens' \in Nat /\ tokens' =< totals'[at' + 1] /\ tokens' =< contentBudget'
          /\ (truncated = <<>> => tokens' = totals'[at' + 1])
      <4>1. tokens + cost \in Nat
        BY <1>1, <1>4
      <4>2. tokens + cost =< contentBudget
        BY <2>2, <3>2, <4>1
      <4>3. tokens + cost =< totals[at + 2]
        BY <1>1, <1>4, <1>5
      <4>4. truncated = <<>> => tokens + cost = totals[at + 2]
        BY <1>1, <1>5
      <4> QED BY <1>3, <1>9, <3>1, <4>1, <4>2, <4>3, <4>4
    <3>4. n \notin Range(truncated) /\ n \notin Range(shown)
      BY <1>1, <1>8
    <3>5. Listed(shown') /\ Range(shown') = Range(shown) \cup {n}
      BY <1>1, <1>3, <3>1, <3>4, AppendedLists
    <3>6. /\ Range(shown') \cap Range(truncated') = {}
          /\ Range(shown') \cup Range(truncated') = Seen'
      BY <1>1, <1>8, <3>1, <3>4, <3>5
    <3>7. /\ contentBudget' = BudgetForLines' /\ Listed(truncated')
          /\ (everything' =< request'.budget => truncated' = <<>>)
          /\ Len(totals') = Len(results') + 1
      BY <1>1, <1>6, <1>9, <3>1
    <3> QED BY <1>9, <3>1, <3>3, <3>5, <3>6, <3>7 DEF LoopOK
  <2> QED BY <2>1, <2>2
<1> QED BY <1>7, <1>10 DEF FitInv

\* The answer: with nothing missing no note is paid for, and with something
\* missing room was kept for the note.
LEMMA FinishKeeps ==
    ASSUME FoundInv, FitInv, Finish
    PROVE  FitInv'
<1> DEFINE all == HeaderTokens + Total(CostsOf(results))
<1>1. /\ at = Len(results) /\ Len(totals) = Len(results) + 1
      /\ tokens \in Nat /\ Listed(shown) /\ Listed(truncated)
      /\ Range(shown) \cap Range(truncated) = {}
      /\ Range(shown) \cup Range(truncated) = Seen
      /\ contentBudget = BudgetForLines
      /\ everything =< request.budget => truncated = <<>>
      /\ shown # <<>> => tokens =< contentBudget
      /\ truncated = <<>> => tokens = totals[at + 1]
  BY DEF FitInv, LoopOK, Finish
<1>2. /\ results \in Seq(Ids) /\ IsInjective(results) /\ Len(results) \in Nat
      /\ DOMAIN results = 1..Len(results) /\ request.budget \in Int
  BY DEF FoundInv, FoundOK, Listed, RequestOK
<1>3. NoteTokens(ManyResults) \in Nat
  BY NoteAssumption, TokensAssumption
<1>4. /\ reply'.kind = "fitted" /\ reply'.shown = shown /\ reply'.truncated = truncated
      /\ reply'.tokens = tokens + NoteCost(Len(truncated)) /\ reply'.total = Len(results)
      /\ pc' = "answered" /\ request' = request /\ results' = results
  BY DEF Finish, Answer
<1>5. ASSUME shown # <<>>, Len(truncated) =< ManyResults
      PROVE  tokens + NoteCost(Len(truncated)) =< request.budget
  <2>1. CASE Len(truncated) = 0
    <3>1. NoteCost(Len(truncated)) = 0
      BY <2>1 DEF NoteCost
    <3>2. contentBudget =< request.budget /\ contentBudget \in Int
      BY <1>1, <1>2, <1>3 DEF BudgetForLines
    <3> QED BY <3>1, <3>2, <1>1, <1>2, <1>5
  <2>2. CASE Len(truncated) # 0
    <3>1. Len(truncated) \in 0..ManyResults
      BY <1>1, <1>5, TokensAssumption DEF Listed
    <3>2. /\ NoteTokens(Len(truncated)) \in Nat
          /\ NoteTokens(Len(truncated)) =< NoteTokens(ManyResults)
      BY <3>1, NoteAssumption
    <3>3. truncated # <<>>
      BY <2>2
    <3>4. contentBudget = request.budget - NoteTokens(ManyResults)
      BY <3>3, <1>1 DEF BudgetForLines
    <3>5. NoteCost(Len(truncated)) = NoteTokens(Len(truncated))
      BY <2>2 DEF NoteCost
    <3> QED BY <3>2, <3>4, <3>5, <1>1, <1>2, <1>3, <1>5
  <2> QED BY <2>1, <2>2
<1>6. BudgetHolds'
  BY <1>4, <1>5 DEF BudgetHolds
<1>7. Seen = Range(results)
  BY <1>1, <1>2 DEF Seen, Range
<1>8. /\ IsInjective(shown \o truncated)
      /\ Range(shown \o truncated) = Range(results)
  BY <1>1, <1>7, JoinedLists DEF Listed
<1>9. everything = all /\ all \in Nat
  <2>1. /\ CostsOf(results) \in Seq(Nat) /\ Len(CostsOf(results)) = Len(results)
        /\ Total(CostsOf(results)) \in Nat
        /\ SubSeq(CostsOf(results), 1, Len(results)) = CostsOf(results)
    BY <1>2, CostsAreNumbers, SumOfPrefixes
  <2>2. everything = HeaderTokens + Total(SubSeq(CostsOf(results), 1, Len(totals) - 1))
    BY DEF FitInv, TotalsOK, Finish
  <2>3. Len(totals) - 1 = Len(results)
    BY <1>1, <1>2
  <2>4. everything = HeaderTokens + Total(SubSeq(CostsOf(results), 1, Len(results)))
    BY <2>2, <2>3, Zenon
  <2>5. everything = all
    BY <2>1, <2>4, Zenon
  <2> QED BY <2>1, <2>5, TokensAssumption
<1> HIDE DEF all
<1>10. truncated = <<>> <=> results = <<>> \/ all =< request.budget
  <2>1. ASSUME results = <<>> PROVE truncated = <<>>
    <3>1. Range(truncated) = {}
      BY <1>1, <1>7, <2>1, EmptyListed
    <3>2. \A i \in DOMAIN truncated : FALSE
      BY <3>1 DEF Range
    <3>3. truncated \in Seq(Ids)
      BY <1>1 DEF Listed
    <3>4. Len(truncated) = 0
      <4>1. DOMAIN truncated = 1..Len(truncated) /\ Len(truncated) \in Nat
        BY <3>3
      <4>2. Len(truncated) # 0 => 1 \in DOMAIN truncated
        BY <4>1
      <4> QED BY <3>2, <4>2
    <3> QED BY <3>3, <3>4
  <2>2. ASSUME truncated = <<>>, results # <<>> PROVE all =< request.budget
    <3>1. shown # <<>>
      <4>1. Len(results) # 0
        BY <1>2, <2>2
      <4>2. 1 \in DOMAIN results
        BY <1>2, <4>1
      <4>3. results[1] \in Range(results)
        BY <4>2 DEF Range
      <4>4. Range(truncated) = {}
        BY <2>2, EmptyListed
      <4>5. Range(shown) # {}
        BY <1>1, <1>7, <4>3, <4>4
      <4> QED BY <4>5, EmptyListed
    <3>2. tokens = everything
      BY <1>1, <2>2 DEF everything
    <3>3. contentBudget =< request.budget /\ contentBudget \in Int
      BY <1>1, <1>2, <1>3 DEF BudgetForLines
    <3> QED BY <1>1, <1>2, <1>9, <3>1, <3>2, <3>3
  <2> QED BY <1>1, <1>9, <2>1, <2>2
<1>11. NothingMissing'
  BY <1>4, <1>8, <1>10 DEF NothingMissing, all
<1>12. MapFits'
  BY <1>4 DEF MapFits
<1> QED BY <1>4, <1>6, <1>11, <1>12 DEF FitInv, TotalsOK, NotStarted, LoopOK, ReplyOK

-----------------------------------------------------------------------------
(* The task map.                                                           *)

LEMMA Greatest ==
    ASSUME NEW N \in Nat, NEW S \in SUBSET (0..N), S # {}
    PROVE  Max(S) \in S /\ \A x \in S : x =< Max(S)
<1> DEFINE T == {N - x : x \in S}
<1>1. PICK d \in T : \A e \in T : d =< e
  <2>1. T \in SUBSET Nat /\ T # {}
    <3>1. \A x \in S : x \in 0..N /\ N - x \in Nat
      OBVIOUS
    <3>2. T \in SUBSET Nat
      BY <3>1
    <3>3. PICK x \in S : TRUE
      OBVIOUS
    <3>4. N - x \in T
      BY <3>3
    <3> QED BY <3>2, <3>4
  <2> HIDE DEF T
  <2> QED BY <2>1, Least
<1>2. PICK x \in S : d = N - x
  BY <1>1
<1>3. \A y \in S : x >= y
  <2> SUFFICES ASSUME NEW y \in S PROVE x >= y
    OBVIOUS
  <2>1. N - x =< N - y
    BY <1>1, <1>2
  <2> QED BY <2>1
<1>4. Max(S) \in S /\ \A y \in S : Max(S) >= y
  BY <1>3 DEF Max
<1>5. \A y \in S : y \in Nat
  OBVIOUS
<1> QED BY <1>4, <1>5

LEMMA LesserOfTwo ==
    ASSUME NEW a \in Nat, NEW b \in Nat
    PROVE  Min({a, b}) \in Nat /\ Min({a, b}) =< b
<1>1. \E x \in {a, b} : \A y \in {a, b} : x =< y
  BY a =< b \/ b =< a
<1>2. Min({a, b}) \in {a, b} /\ \A y \in {a, b} : Min({a, b}) =< y
  BY <1>1 DEF Min
<1> QED BY <1>2

\* What fits is within the limit, unless it is nothing.
LEMMA FittingFits ==
    ASSUME NEW c \in Seq(Nat), NEW spent, NEW limit
    PROVE  /\ Fitting(c, spent, limit) \in 0..Len(c)
           /\ \/ Fitting(c, spent, limit) = 0
              \/ spent + Total(SubSeq(c, 1, Fitting(c, spent, limit))) =< limit
<1> DEFINE S == {0} \cup {k \in DOMAIN c : spent + Total(SubSeq(c, 1, k)) =< limit}
<1>1. Len(c) \in Nat /\ S \in SUBSET (0..Len(c)) /\ S # {}
  OBVIOUS
<1>2. Fitting(c, spent, limit) = Max(S)
  BY DEF Fitting
<1> HIDE DEF S
<1>3. Max(S) \in S
  BY <1>1, Greatest
<1>4. Max(S) \in 0..Len(c)
  BY <1>1, <1>3
<1>5. Max(S) = 0 \/ spent + Total(SubSeq(c, 1, Max(S))) =< limit
  BY <1>3 DEF S
<1> QED BY <1>2, <1>4, <1>5, Zenon

LEMMA CostsOfPrefix ==
    ASSUME NEW s \in Seq(Ids), NEW k \in 0..Len(s)
    PROVE  /\ SubSeq(s, 1, k) \in Seq(Ids)
           /\ CostsOf(SubSeq(s, 1, k)) = SubSeq(CostsOf(s), 1, k)
<1> DEFINE p == SubSeq(s, 1, k)
           c == CostsOf(s)
           q == SubSeq(c, 1, k)
<1>1. p \in Seq(Ids) /\ Len(p) = k /\ DOMAIN p = 1..k /\ \A i \in 1..k : p[i] = s[i]
  OBVIOUS
<1>2. c \in Seq(Nat) /\ Len(c) = Len(s) /\ \A i \in 1..Len(s) : c[i] = Symbol[s[i]].cost
  BY CostsAreNumbers
<1> HIDE DEF c
<1>3. q \in Seq(Nat) /\ Len(q) = k /\ \A i \in 1..k : q[i] = c[i]
  BY <1>2
<1> HIDE DEF p, q
<1>4. /\ CostsOf(p) \in Seq(Nat) /\ Len(CostsOf(p)) = k
      /\ \A i \in 1..k : CostsOf(p)[i] = Symbol[p[i]].cost
  BY <1>1, CostsAreNumbers
<1>5. ASSUME NEW i \in 1..k PROVE CostsOf(p)[i] = q[i]
  <2>1. i \in 1..Len(s) /\ p[i] = s[i]
    BY <1>1
  <2>2. q[i] = c[i] /\ c[i] = Symbol[s[i]].cost
    BY <1>2, <1>3, <2>1
  <2>3. CostsOf(p)[i] = Symbol[p[i]].cost
    BY <1>4
  <2> QED BY <2>1, <2>2, <2>3, Zenon
<1>6. \A t, u \in Seq(Nat) :
         Len(t) = k /\ Len(u) = k /\ (\A i \in 1..k : t[i] = u[i]) => t = u
  OBVIOUS
<1>7. CostsOf(p) = q
  BY <1>3, <1>4, <1>5, <1>6, Zenon
<1>8. p = SubSeq(s, 1, k) /\ q = SubSeq(CostsOf(s), 1, k)
  BY DEF p, q, c
<1> QED BY <1>1, <1>7, <1>8, Zenon

\* The prefix that fits costs so little.
LEMMA PrefixFits ==
    ASSUME NEW s \in Seq(Ids), NEW spent \in Nat, NEW limit \in Int
    PROVE  LET cost == Total(CostsOf(SubSeq(s, 1, Fitting(CostsOf(s), spent, limit))))
           IN  cost \in Nat /\ (cost = 0 \/ spent + cost =< limit)
<1> DEFINE c == CostsOf(s)
           k == Fitting(c, spent, limit)
           cost == Total(CostsOf(SubSeq(s, 1, k)))
<1>1. c \in Seq(Nat) /\ Len(c) = Len(s)
  BY CostsAreNumbers
<1>2. k \in 0..Len(c) /\ (k = 0 \/ spent + Total(SubSeq(c, 1, k)) =< limit)
  BY <1>1, FittingFits
<1> HIDE DEF k
<1>3. cost = Total(SubSeq(c, 1, k))
  <2>1. k \in 0..Len(s)
    BY <1>1, <1>2
  <2>2. CostsOf(SubSeq(s, 1, k)) = SubSeq(c, 1, k)
    BY <2>1, CostsOfPrefix
  <2> QED BY <2>2
<1> HIDE DEF cost, c
<1>4. Total(SubSeq(c, 1, 0)) = 0 /\ cost \in Nat
  BY <1>1, <1>2, <1>3, SumOfPrefixes
<1>5. cost \in Nat /\ (cost = 0 \/ spent + cost =< limit)
  BY <1>2, <1>3, <1>4
<1> QED BY <1>5 DEF cost, k, c

LEMMA MapKeeps ==
    ASSUME NEW g \in Graphs, NEW phrase \in DOMAIN Words, NEW budget \in Nat
    PROVE  LET map == buildTaskMap(g, phrase, budget, MaxFiles)
           IN  map.tokens =< budget \/ Cramped(budget, map.left)
<1> DEFINE map == buildTaskMap(g, phrase, budget, MaxFiles)
           F == {n \in g.nodes : isFile(n)}
           files == Rows(F)
           offered == SubSeq(files, 1, Min({MaxFiles, Len(files)}))
           listed == SubSeq(offered, 1, Fitting(CostsOf(offered), HeaderTokens, budget \div 2))
           left == Len(files) - Len(offered)
           matching == ranked(g.nodes, phrase)
           opened == HeaderTokens + Total(CostsOf(listed))
                       + (IF left > 0 THEN NoteTokens(left) ELSE 0)
                       + (IF matching = <<>> THEN 0 ELSE SymbolsHeaderTokens)
           kept == SubSeq(matching, 1, Fitting(CostsOf(matching), opened, budget))
<1>1. map.left = left /\ map.tokens = opened + Total(CostsOf(kept))
  BY DEF buildTaskMap
<1>2. /\ files \in Seq(Ids) /\ Len(files) \in 0..Cardinality(Ids)
  <2>1. F \in SUBSET Ids
    BY GraphsAssumption
  <2> HIDE DEF F
  <2>2. files \in Seq(Ids)
    BY <2>1, RowsListed DEF Listed
  <2>3. files = [i \in 1..Cardinality(F) |->
                    CHOOSE n \in F : Cardinality({m \in F : <<m, n>> \in RowOrder}) = i - 1]
    BY DEF Rows, Ordered
  <2>4. /\ Cardinality(F) \in Nat /\ Cardinality(F) =< Cardinality(Ids)
        /\ Cardinality(Ids) \in Nat
    <3>1. IsFiniteSet(F) /\ Cardinality(F) =< Cardinality(Ids)
      BY <2>1, IdsAssumption, FS_Subset
    <3> QED BY <3>1, IdsAssumption, FS_CardinalityType
  <2>5. DOMAIN files = 1..Cardinality(F)
    BY <2>3, Zenon
  <2> HIDE DEF files
  <2>6. Len(files) = Cardinality(F)
    BY <2>2, <2>4, <2>5
  <2> QED BY <2>2, <2>4, <2>6
<1> HIDE DEF F, files
<1>3. offered \in Seq(Ids) /\ left \in 0..Cardinality(Ids)
  <2> DEFINE m == Min({MaxFiles, Len(files)})
  <2>1. m \in Nat /\ m =< Len(files)
    BY <1>2, LesserOfTwo, MapBudgetsAssumption
  <2> HIDE DEF m
  <2>2. SubSeq(files, 1, m) \in Seq(Ids) /\ Len(SubSeq(files, 1, m)) = m
    BY <1>2, <2>1
  <2>3. offered = SubSeq(files, 1, m)
    BY DEF m
  <2> HIDE DEF offered
  <2>4. Cardinality(Ids) \in Nat
    BY IdsAssumption, FS_CardinalityType
  <2> QED BY <1>2, <2>1, <2>2, <2>3, <2>4
<1> HIDE DEF offered
<1>4. matching \in Seq(Ids)
  <2> DEFINE S == {n \in g.nodes : ~isFile(n) /\ mapScore(n, phrase) > 0}
  <2>1. S \in SUBSET Ids
    BY GraphsAssumption
  <2>2. matching = Ordered(S, MapOrder(phrase))
    BY DEF ranked
  <2> HIDE DEF S
  <2>3. matching \in Seq(S)
    BY <2>1, <2>2, MapLists DEF Lists
  <2> QED BY <2>1, <2>3
<1> HIDE DEF matching
<1> DEFINE half == budget \div 2
           note == IF left > 0 THEN NoteTokens(left) ELSE 0
           top == IF matching = <<>> THEN 0 ELSE SymbolsHeaderTokens
           after == SymbolsHeaderTokens + note
           some == Total(CostsOf(listed))
           more == Total(CostsOf(kept))
<1>5. half \in Nat /\ 2 * half =< budget
  OBVIOUS
<1>6. some \in Nat /\ (some = 0 \/ HeaderTokens + some =< half)
  <2>1. half \in Int /\ HeaderTokens \in Nat
    BY <1>5, TokensAssumption
  <2> HIDE DEF half
  <2> QED BY <1>3, <2>1, PrefixFits DEF half
<1> HIDE DEF listed
<1>7. note \in Nat /\ note = NoteCost(left)
  <2>1. left > 0 \/ left = 0
    BY <1>3, IdsAssumption, FS_CardinalityType
  <2>2. NoteTokens(left) \in Nat
    BY <1>3, NoteAssumption
  <2> QED BY <2>1, <2>2 DEF NoteCost
<1> HIDE DEF left
<1>8. top \in Nat /\ top =< SymbolsHeaderTokens
  BY TokensAssumption
<1>9. opened = HeaderTokens + some + note + top
  OBVIOUS
<1> HIDE DEF note, top, some, half
<1>10. opened \in Nat
  BY <1>6, <1>7, <1>8, <1>9, TokensAssumption
<1>11. budget >= HeaderTokens + after /\ budget >= 2 * after => opened =< budget
  <2>1. HeaderTokens + some =< half \/ some = 0
    BY <1>6
  <2>2. HeaderTokens \in Nat /\ SymbolsHeaderTokens \in Nat
    BY TokensAssumption
  <2> HIDE DEF opened
  <2>3. after \in Nat /\ note + top =< after
    BY <1>7, <1>8, <2>2
  <2> HIDE DEF after
  <2>4. some = 0 => opened =< HeaderTokens + after
    BY <1>7, <1>8, <1>9, <2>2, <2>3
  <2>5. HeaderTokens + some =< half => opened =< half + after
    BY <1>5, <1>6, <1>7, <1>8, <1>9, <2>2, <2>3
  <2> QED BY <1>5, <1>10, <2>1, <2>2, <2>3, <2>4, <2>5
<1> HIDE DEF opened
<1>12. more \in Nat /\ (more = 0 \/ opened + more =< budget)
  <2>1. budget \in Int
    OBVIOUS
  <2> QED BY <1>4, <1>10, <2>1, PrefixFits
<1> HIDE DEF kept, more
<1>13. opened + more =< budget \/ ~(budget >= HeaderTokens + after /\ budget >= 2 * after)
  BY <1>10, <1>11, <1>12
<1>14. after \in Nat /\ HeaderTokens \in Nat
  BY <1>7, TokensAssumption
<1>15. map.tokens =< budget \/ Cramped(budget, map.left)
  <2>1. map.tokens = opened + more
    BY <1>1 DEF more
  <2>2. SymbolsHeaderTokens + NoteCost(map.left) = after
    BY <1>1, <1>7
  <2> HIDE DEF map, after
  <2>3. opened + more =< budget \/ budget < HeaderTokens + after \/ budget < 2 * after
    BY <1>13, <1>14
  <2>4. Cramped(budget, map.left) <=> budget < HeaderTokens + after \/ budget < 2 * after
    BY <2>2, Zenon DEF Cramped
  <2> QED BY <2>1, <2>3, <2>4, Zenon
<1> QED BY <1>15

-----------------------------------------------------------------------------
LEMMA FitInductive ==
    ASSUME FoundInv, FitInv, [Next]_vars
    PROVE  FitInv'
<1>1. CASE UNCHANGED vars
  BY <1>1 DEF vars, asking, fitting, FitInv, TotalsOK, NotStarted, LoopOK, ReplyOK,
              everything, BudgetForLines, BudgetHolds, NothingMissing, MapFits, Seen
<1>2. CASE Write
  BY <1>2 DEF Write, asking, fitting, FitInv, TotalsOK, NotStarted, LoopOK, ReplyOK,
              everything, BudgetForLines, BudgetHolds, NothingMissing, MapFits, Seen
<1>3. ASSUME NEW r \in Requests, Refuse(r) PROVE FitInv'
  BY <1>3, AnsweredOutsideTheLoop DEF Refuse
<1>4. ASSUME NEW r \in Requests, Ask(r) PROVE FitInv'
  BY <1>4, OutsideTheLoop DEF Ask, fitting
<1>5. ASSUME NEW phrase \in DOMAIN Words, NEW budget \in MapBudgets, ShowMap(phrase, budget)
      PROVE  FitInv'
  <2> DEFINE map == buildTaskMap(graph, phrase, budget, MaxFiles)
  <2>1. /\ reply'.kind = "map" /\ reply'.map = map /\ pc' = "answered"
        /\ request'.budget = budget
    BY <1>5 DEF ShowMap, Answer, NoRequest
  <2>2. map.tokens =< budget \/ Cramped(budget, map.left)
    BY MapKeeps, MapBudgetsAssumption DEF FoundInv, GraphsOK
  <2> HIDE DEF map
  <2>3. MapFits' /\ BudgetHolds' /\ NothingMissing'
    BY <2>1, <2>2 DEF MapFits, BudgetHolds, NothingMissing
  <2> QED BY <2>1, <2>3 DEF FitInv, TotalsOK, NotStarted, LoopOK, ReplyOK
<1>6. CASE LookUp
  BY <1>6, OutsideTheLoop DEF LookUp, fitting
<1>7. CASE VisitTarget
  BY <1>7, OutsideTheLoop DEF VisitTarget, fitting
<1>8. CASE Measure
  BY <1>8, MeasureKeeps
<1>9. CASE AddCost
  BY <1>9, AddCostKeeps
<1>10. CASE SetBudget
  BY <1>10, SetBudgetKeeps
<1>11. CASE FitLine
  BY <1>11, FitLineKeeps
<1>12. CASE Deliver
  BY <1>12 DEF Deliver, FitInv, TotalsOK, NotStarted, LoopOK, ReplyOK
<1>13. CASE Resolve
  <2>1. CASE pc' = "visit"
    BY <1>13, <2>1, OutsideTheLoop DEF Resolve, Answer, fitting
  <2>2. CASE pc' = "answered"
    BY <1>13, <2>2, AnsweredOutsideTheLoop DEF Resolve, Answer, Plain
  <2> QED BY <1>13, <2>1, <2>2 DEF Resolve, Answer
<1>14. CASE AnswerNothing
  BY <1>14, AnsweredOutsideTheLoop DEF AnswerNothing, Answer, Plain
<1>15. CASE Expand
  BY <1>15, AnsweredOutsideTheLoop DEF Expand, Answer, Plain
<1>16. CASE Finish
  BY <1>16, FinishKeeps
<1> QED
  BY <1>1, <1>2, <1>3, <1>4, <1>5, <1>6, <1>7, <1>8, <1>9, <1>10, <1>11, <1>12, <1>13, <1>14,
     <1>15, <1>16 DEF Next, Requested, Mapped, Proceeds, Answers

\* query.ts, task-map.ts: what a query finds and what the budget makes of it, for
\* every set of graphs, every request, budget and cost of a line, and whatever
\* other sessions commit between its statements.
THEOREM FitInvariance == Spec => [](FoundInv /\ FitInv)
<1>1. Init => FoundInv /\ FitInv
  BY FoundInit, FitInit
<1>2. FoundInv /\ FitInv /\ [Next]_vars => (FoundInv /\ FitInv)'
  BY FoundInductive, FitInductive
<1> QED BY <1>1, <1>2, PTL DEF Spec

LEMMA ReplyFacts ==
    ASSUME FoundInv, FitInv
    PROVE  BudgetHolds /\ NothingIsDropped /\ MapFits
<1>1. BudgetHolds /\ NothingMissing /\ MapFits
  <2>1. CASE pc = "answered"
    BY <2>1 DEF FitInv, ReplyOK
  <2>2. CASE pc # "answered"
    <3>1. NoReply.kind \notin {"fitted", "map"}
      BY DEF NoReply
    <3>2. reply = NoReply
      BY <2>2 DEF FitInv, ReplyOK
    <3> QED BY <3>1, <3>2 DEF BudgetHolds, NothingMissing, MapFits
  <2> QED BY <2>1, <2>2
<1> QED BY <1>1 DEF NothingIsDropped, NothingMissing, ResultsAreNodes, FoundInv, FoundOK, Listed

\* query.ts:14-16, 87-93: an answer that shows a result costs no more than was
\* asked for, the note included.
THEOREM BudgetBound == Spec => []BudgetHolds
BY FitInvariance, ReplyFacts, PTL

\* query.ts:66-117: every result is shown or named as missing, once, and none is
\* missing when all of them would have fitted.
THEOREM EachResultOnce == Spec => []NothingIsDropped
BY FitInvariance, ReplyFacts, PTL

\* task-map.ts:73-123: the map fits a budget with room for its fixed lines.
THEOREM MapBound == Spec => []MapFits
BY FitInvariance, ReplyFacts, PTL

-----------------------------------------------------------------------------
(* The recursive query and walks.                                          *)

\* The nodes and names of a walk, the walks of k edges, and where they end.
Places(g, start) == {start} \cup {e["from"] : e \in g.edges} \cup {e["to"] : e \in g.edges}

Walk(g, from, to, kinds, k, p) ==
    \A i \in 1..k : \E e \in g.edges : e[from] = p[i - 1] /\ e[to] = p[i] /\ e.kind \in kinds

WalkEnds(g, from, to, start, kinds, k) ==
    {x \in Places(g, start) : \E p \in [0..k -> Places(g, start)] :
        Walk(g, from, to, kinds, k, p) /\ p[0] = start /\ p[k] = x}

StepFrom(g, from, to, kinds, S) ==
    {e[to] : e \in {e \in g.edges : e[from] \in S /\ e.kind \in kinds}}

\* What the recursive query computes.
Levels(g, from, to, start, kinds, depth, level) ==
    level = [k \in 1..Max({1, depth}) |->
                StepFrom(g, from, to, kinds, IF k = 1 THEN {start} ELSE level[k - 1])]

\* Walks of k edges are walks of one edge less and an edge.
Advances(g, from, to, start, kinds, k) ==
    /\ WalkEnds(g, from, to, start, kinds, 0) = {start}
    /\ WalkEnds(g, from, to, start, kinds, k) =
          StepFrom(g, from, to, kinds, WalkEnds(g, from, to, start, kinds, k - 1))

LEMMA OneEdgeMore ==
    ASSUME NEW g, NEW from \in {"from", "to"}, NEW to \in {"from", "to"}, NEW start, NEW kinds,
           NEW k \in Nat \ {0}
    PROVE  Advances(g, from, to, start, kinds, k)
<1> DEFINE P == Places(g, start)
           W(p, j) == Walk(g, from, to, kinds, j, p)
           E(j) == WalkEnds(g, from, to, start, kinds, j)
           S == E(k - 1)
<1>1. \A e \in g.edges : e[from] \in P /\ e[to] \in P
  BY DEF Places
<1>2. start \in P
  BY DEF Places
<1>3. \A x, j : x \in E(j) <=> /\ x \in P
                               /\ \E p \in [0..j -> P] : W(p, j) /\ p[0] = start /\ p[j] = x
  BY DEF WalkEnds
<1> HIDE DEF P, E
<1>4. E(0) = {start}
  <2>1. ASSUME NEW x \in E(0) PROVE x = start
    BY <1>3
  <2>2. start \in E(0)
    <3> DEFINE p == [i \in 0..0 |-> start]
    <3>1. p \in [0..0 -> P] /\ p[0] = start
      BY <1>2
    <3>2. W(p, 0)
      BY DEF Walk
    <3> HIDE DEF p, W
    <3> QED BY <1>2, <1>3, <3>1, <3>2
  <2> QED BY <2>1, <2>2
<1> HIDE DEF S
<1>5. ASSUME NEW x \in E(k) PROVE x \in StepFrom(g, from, to, kinds, S)
  <2>1. PICK p \in [0..k -> P] : W(p, k) /\ p[0] = start /\ p[k] = x
    BY <1>3
  <2>2. PICK e \in g.edges : e[from] = p[k - 1] /\ e[to] = p[k] /\ e.kind \in kinds
    <3>1. k \in 1..k
      OBVIOUS
    <3> QED BY <2>1, <3>1 DEF Walk
  <2> DEFINE q == [i \in 0..(k - 1) |-> p[i]]
  <2>3. q \in [0..(k - 1) -> P] /\ q[0] = start /\ q[k - 1] = e[from]
    BY <2>1, <2>2
  <2>4. W(q, k - 1)
    <3> SUFFICES ASSUME NEW i \in 1..(k - 1)
                 PROVE  \E d \in g.edges : d[from] = q[i - 1] /\ d[to] = q[i] /\ d.kind \in kinds
      BY DEF Walk
    <3>1. i \in 1..k /\ q[i - 1] = p[i - 1] /\ q[i] = p[i]
      OBVIOUS
    <3> HIDE DEF q
    <3>2. \E d \in g.edges : d[from] = p[i - 1] /\ d[to] = p[i] /\ d.kind \in kinds
      BY <2>1, <3>1 DEF Walk
    <3> QED BY <3>1, <3>2
  <2> HIDE DEF q, W
  <2>5. e[from] \in E(k - 1)
    BY <1>1, <1>3, <2>3, <2>4
  <2> QED BY <2>1, <2>2, <2>5 DEF StepFrom, S
<1>6. ASSUME NEW x \in StepFrom(g, from, to, kinds, S) PROVE x \in E(k)
  <2>1. PICK e \in g.edges : e[from] \in S /\ e.kind \in kinds /\ x = e[to]
    BY DEF StepFrom
  <2>2. PICK p \in [0..(k - 1) -> P] : W(p, k - 1) /\ p[0] = start /\ p[k - 1] = e[from]
    BY <1>3, <2>1 DEF S
  <2> DEFINE q == [i \in 0..k |-> IF i = k THEN x ELSE p[i]]
  <2>3. x \in P
    BY <1>1, <2>1
  <2>4. q \in [0..k -> P] /\ q[0] = start /\ q[k] = x
    <3>1. \A i \in 0..k : i # k => i \in 0..(k - 1)
      OBVIOUS
    <3> QED BY <2>2, <2>3, <3>1
  <2>5. W(q, k)
    <3> SUFFICES ASSUME NEW i \in 1..k
                 PROVE  \E d \in g.edges : d[from] = q[i - 1] /\ d[to] = q[i] /\ d.kind \in kinds
      BY DEF Walk
    <3>1. CASE i = k
      <4>1. q[i - 1] = p[k - 1] /\ q[i] = x
        BY <3>1
      <4> HIDE DEF q
      <4> QED BY <2>1, <2>2, <4>1
    <3>2. CASE i # k
      <4>1. i \in 1..(k - 1) /\ q[i - 1] = p[i - 1] /\ q[i] = p[i]
        BY <3>2
      <4> HIDE DEF q
      <4>2. \E d \in g.edges : d[from] = p[i - 1] /\ d[to] = p[i] /\ d.kind \in kinds
        BY <2>2, <4>1 DEF Walk
      <4> QED BY <4>1, <4>2
    <3> QED BY <3>1, <3>2
  <2> HIDE DEF q, W
  <2> QED BY <1>3, <2>3, <2>4, <2>5
<1>7. E(k) = StepFrom(g, from, to, kinds, S)
  BY <1>5, <1>6
<1> QED BY <1>4, <1>7 DEF E, S, Advances

\* The ends of the walks of each length.
EndsByLength(g, from, to, start, kinds, depth) ==
    [k \in 1..Max({1, depth}) |-> WalkEnds(g, from, to, start, kinds, k)]

\* Its levels are the ends of the walks of one edge, of two and so on.
LEMMA LevelsAreWalkEnds ==
    ASSUME NEW g, NEW from \in {"from", "to"}, NEW to \in {"from", "to"}, NEW start, NEW kinds,
           NEW depth, Max({1, depth}) \in Nat
    PROVE  (CHOOSE level : Levels(g, from, to, start, kinds, depth, level)) =
             EndsByLength(g, from, to, start, kinds, depth)
<1> DEFINE N == Max({1, depth})
           E(k) == WalkEnds(g, from, to, start, kinds, k)
           Next1(S) == StepFrom(g, from, to, kinds, S)
           ends == [k \in 1..N |-> E(k)]
<1>1. \A k \in 1..N : E(k) = Next1(IF k = 1 THEN {start} ELSE E(k - 1))
  <2> SUFFICES ASSUME NEW k \in 1..N
               PROVE  E(k) = Next1(IF k = 1 THEN {start} ELSE E(k - 1))
    OBVIOUS
  <2>1. k \in Nat \ {0}
    OBVIOUS
  <2>2. E(0) = {start} /\ E(k) = Next1(E(k - 1))
    <3>1. Advances(g, from, to, start, kinds, k)
      BY <2>1, OneEdgeMore
    <3> QED BY <3>1 DEF Advances
  <2> HIDE DEF E, Next1
  <2>3. CASE k = 1
    <3>1. k - 1 = 0
      BY <2>3
    <3> QED BY <2>2, <2>3, <3>1
  <2>4. CASE k # 1
    BY <2>2, <2>4
  <2> QED BY <2>3, <2>4
<1> HIDE DEF N, E, Next1
<1>2. \A k \in 1..N : ends[k] = Next1(IF k = 1 THEN {start} ELSE ends[k - 1])
  <2> SUFFICES ASSUME NEW k \in 1..N
               PROVE  ends[k] = Next1(IF k = 1 THEN {start} ELSE ends[k - 1])
    OBVIOUS
  <2>1. N \in Nat
    BY DEF N
  <2>2. k # 1 => k - 1 \in 1..N
    BY <2>1
  <2>3. k # 1 => ends[k - 1] = E(k - 1)
    BY <2>2
  <2>4. CASE k = 1
    BY <1>1, <2>4
  <2>5. CASE k # 1
    BY <1>1, <2>3, <2>5
  <2> QED BY <2>4, <2>5
<1>3. ends = [k \in 1..N |-> Next1(IF k = 1 THEN {start} ELSE ends[k - 1])]
  <2>1. ends = [k \in 1..N |-> ends[k]]
    OBVIOUS
  <2> HIDE DEF ends
  <2> QED BY <1>2, <2>1
<1>4. ASSUME NEW level, level = [k \in 1..N |-> Next1(IF k = 1 THEN {start} ELSE level[k - 1])]
      PROVE  level = ends
  <2> DEFINE Bad == {k \in 1..N : level[k] # E(k)}
  <2>1. \A k \in 1..N : level[k] = Next1(IF k = 1 THEN {start} ELSE level[k - 1])
    <3> DEFINE F(k) == Next1(IF k = 1 THEN {start} ELSE level[k - 1])
    <3>1. level = [k \in 1..N |-> F(k)]
      BY <1>4
    <3> HIDE DEF F
    <3>2. \A k \in 1..N : level[k] = F(k)
      BY <3>1
    <3> QED BY <3>2 DEF F
  <2>2. Bad = {}
    <3> SUFFICES ASSUME Bad # {} PROVE FALSE
      OBVIOUS
    <3>1. N \in Nat
      BY DEF N
    <3>2. PICK k \in Bad : \A j \in Bad : k =< j
      <4>1. Bad \in SUBSET Nat
        BY <3>1
      <4> HIDE DEF Bad
      <4> QED BY <4>1, Least
    <3>3. CASE k = 1
      BY <1>1, <2>1, <3>2, <3>3
    <3>4. CASE k # 1
      <4>1. k - 1 \in 1..N /\ ~(k =< k - 1)
        BY <3>1, <3>4
      <4>2. level[k - 1] = E(k - 1)
        BY <3>2, <4>1
      <4> QED BY <1>1, <2>1, <3>2, <3>4, <4>2
    <3> QED BY <3>3, <3>4
  <2>3. \A k \in 1..N : level[k] = E(k)
    BY <2>2
  <2>4. level = [k \in 1..N |-> level[k]]
    <3> DEFINE F(k) == Next1(IF k = 1 THEN {start} ELSE level[k - 1])
    <3>1. level = [k \in 1..N |-> F(k)]
      BY <1>4
    <3> HIDE DEF F
    <3> QED BY <3>1
  <2> QED BY <2>3, <2>4
<1>5. ends = EndsByLength(g, from, to, start, kinds, depth)
  BY DEF EndsByLength, N, E
<1>6. /\ Levels(g, from, to, start, kinds, depth, ends)
      /\ \A level : Levels(g, from, to, start, kinds, depth, level) => level = ends
  BY <1>3, <1>4 DEF Levels, N, Next1
<1> HIDE DEF ends
<1> QED BY <1>5, <1>6

LEMMA TraverseFollowsWalks ==
    ASSUME NEW g, NEW from \in {"from", "to"}, NEW to \in {"from", "to"}, NEW start, NEW kinds,
           NEW depth, Max({1, depth}) \in Nat
    PROVE  traverse(g, from, to, start, kinds, depth) =
             {n \in g.nodes : \E k \in 1..Max({1, depth}) :
                 n \in WalkEnds(g, from, to, start, kinds, k)}
<1> DEFINE ends == EndsByLength(g, from, to, start, kinds, depth)
           L == CHOOSE level : Levels(g, from, to, start, kinds, depth, level)
<1>1. L = ends
  BY LevelsAreWalkEnds
<1>2. traverse(g, from, to, start, kinds, depth) = g.nodes \cap UNION Range(L)
  BY DEF traverse, Levels, StepFrom
<1>3. Range(ends) = {WalkEnds(g, from, to, start, kinds, k) : k \in 1..Max({1, depth})}
  BY DEF Range, EndsByLength
<1> HIDE DEF ends, L
<1>4. traverse(g, from, to, start, kinds, depth) =
         g.nodes \cap UNION {WalkEnds(g, from, to, start, kinds, k) : k \in 1..Max({1, depth})}
  BY <1>1, <1>2, <1>3
<1> QED BY <1>4

-----------------------------------------------------------------------------
(* The walks by which the properties say what a query means.               *)

LEMMA PlacesAreEnds ==
    ASSUME NEW g \in Graphs
    PROVE  g.nodes \subseteq Ends /\ \A e \in g.edges : e["to"] \in Ends
BY DEF Ends

\* A walk of k edges leads from a to b.
Links(g, kinds, a, b, k) == \E p \in WalksOf(g, kinds, k) : p[0] = a /\ p[k] = b

LEMMA WalksForward ==
    ASSUME NEW g \in Graphs, NEW start \in Ends, NEW kinds, NEW k \in Nat \ {0}, NEW x
    PROVE  x \in WalkEnds(g, "from", "to", start, kinds, k) <=> Links(g, kinds, start, x, k)
<1> DEFINE P == Places(g, start)
<1>1. \A e \in g.edges : e["to"] \in P /\ e["to"] \in Ends
  BY PlacesAreEnds DEF Places
<1>2. start \in P
  BY DEF Places
<1>3. \A p : Walk(g, "from", "to", kinds, k, p) <=>
                \A i \in 1..k : \E e \in g.edges :
                    e["from"] = p[i - 1] /\ e["to"] = p[i] /\ e.kind \in kinds
  BY DEF Walk
<1>4. \A p : p \in WalksOf(g, kinds, k) <=>
                p \in [0..k -> Ends] /\ Walk(g, "from", "to", kinds, k, p)
  BY <1>3 DEF WalksOf
<1>5. \A p : Walk(g, "from", "to", kinds, k, p) =>
                \A i \in 1..k : p[i] \in P /\ p[i] \in Ends
  BY <1>1, <1>3
<1>6. x \in WalkEnds(g, "from", "to", start, kinds, k) <=>
         /\ x \in P
         /\ \E p \in [0..k -> P] : Walk(g, "from", "to", kinds, k, p) /\ p[0] = start /\ p[k] = x
  BY DEF WalkEnds
<1>7. \A i \in 0..k : i = 0 \/ i \in 1..k
  OBVIOUS
<1>8. k \in 1..k /\ k \in 0..k
  OBVIOUS
<1> HIDE DEF P
<1>9. ASSUME NEW p \in [0..k -> P], Walk(g, "from", "to", kinds, k, p), p[0] = start
      PROVE  p \in WalksOf(g, kinds, k)
  <2>1. \A i \in 0..k : p[i] \in Ends
    BY <1>5, <1>7, <1>9
  <2>2. p \in [0..k -> Ends]
    BY <2>1
  <2> QED BY <1>4, <1>9, <2>2
<1>10. ASSUME NEW p \in WalksOf(g, kinds, k), p[0] = start
       PROVE  p \in [0..k -> P] /\ Walk(g, "from", "to", kinds, k, p) /\ p[k] \in P
  <2>1. p \in [0..k -> Ends] /\ Walk(g, "from", "to", kinds, k, p)
    BY <1>4
  <2>2. \A i \in 0..k : p[i] \in P
    BY <1>2, <1>5, <1>7, <1>10, <2>1
  <2>3. p \in [0..k -> P]
    BY <2>1, <2>2
  <2> QED BY <1>8, <2>1, <2>2, <2>3
<1> QED BY <1>6, <1>9, <1>10 DEF Links

\* Backwards, the walk is read from its end.
LEMMA WalksBackward ==
    ASSUME NEW g \in Graphs, NEW start, NEW kinds, NEW k \in Nat \ {0}, NEW x \in Ends
    PROVE  x \in WalkEnds(g, "to", "from", start, kinds, k) <=> Links(g, kinds, x, start, k)
<1> DEFINE P == Places(g, start)
           Turned(p) == [i \in 0..k |-> p[k - i]]
<1>1. \A e \in g.edges : e["to"] \in P /\ e["from"] \in P /\ e["to"] \in Ends
  BY PlacesAreEnds DEF Places
<1>2. start \in P
  BY DEF Places
<1>3. \A p : p \in WalksOf(g, kinds, k) <=>
                p \in [0..k -> Ends] /\ Walk(g, "from", "to", kinds, k, p)
  BY DEF WalksOf, Walk
<1>4. x \in WalkEnds(g, "to", "from", start, kinds, k) <=>
         /\ x \in P
         /\ \E p \in [0..k -> P] : Walk(g, "to", "from", kinds, k, p) /\ p[0] = start /\ p[k] = x
  BY DEF WalkEnds
<1> HIDE DEF P
<1>5. \A i \in 0..k : k - i \in 0..k
  OBVIOUS
<1>6. \A p : Turned(p)[0] = p[k] /\ Turned(p)[k] = p[0]
  <2>1. k - 0 = k /\ k - k = 0 /\ 0 \in 0..k /\ k \in 0..k
    OBVIOUS
  <2> QED BY <2>1
<1>7. ASSUME NEW p, Walk(g, "to", "from", kinds, k, p)
      PROVE  Walk(g, "from", "to", kinds, k, Turned(p))
  <2> SUFFICES ASSUME NEW i \in 1..k
               PROVE  \E e \in g.edges : /\ e["from"] = Turned(p)[i - 1]
                                         /\ e["to"] = Turned(p)[i] /\ e.kind \in kinds
    BY DEF Walk
  <2> DEFINE j == k - i + 1
  <2>1. j \in 1..k /\ Turned(p)[i - 1] = p[j] /\ Turned(p)[i] = p[j - 1]
    <3>1. j \in 1..k /\ i - 1 \in 0..k /\ i \in 0..k /\ k - (i - 1) = j /\ k - i = j - 1
      OBVIOUS
    <3> HIDE DEF j
    <3> QED BY <3>1
  <2> HIDE DEF j, Turned
  <2>2. \E e \in g.edges : e["to"] = p[j - 1] /\ e["from"] = p[j] /\ e.kind \in kinds
    BY <1>7, <2>1 DEF Walk
  <2> QED BY <2>1, <2>2
<1>8. ASSUME NEW p, Walk(g, "from", "to", kinds, k, p)
      PROVE  Walk(g, "to", "from", kinds, k, Turned(p))
  <2> SUFFICES ASSUME NEW i \in 1..k
               PROVE  \E e \in g.edges : /\ e["to"] = Turned(p)[i - 1]
                                         /\ e["from"] = Turned(p)[i] /\ e.kind \in kinds
    BY DEF Walk
  <2> DEFINE j == k - i + 1
  <2>1. j \in 1..k /\ Turned(p)[i - 1] = p[j] /\ Turned(p)[i] = p[j - 1]
    <3>1. j \in 1..k /\ i - 1 \in 0..k /\ i \in 0..k /\ k - (i - 1) = j /\ k - i = j - 1
      OBVIOUS
    <3> HIDE DEF j
    <3> QED BY <3>1
  <2> HIDE DEF j, Turned
  <2>2. \E e \in g.edges : e["from"] = p[j - 1] /\ e["to"] = p[j] /\ e.kind \in kinds
    BY <1>8, <2>1 DEF Walk
  <2> QED BY <2>1, <2>2
<1>9. \A i \in 0..k : i = 0 \/ i \in 1..k
  OBVIOUS
<1>10. ASSUME NEW p, Walk(g, "from", "to", kinds, k, p)
       PROVE  \A i \in 1..k : p[i] \in Ends /\ p[i] \in P /\ p[i - 1] \in P
  BY <1>1, <1>10 DEF Walk
<1>11. ASSUME NEW p \in [0..k -> P], Walk(g, "to", "from", kinds, k, p), p[0] = start, p[k] = x
       PROVE  \E q \in WalksOf(g, kinds, k) : q[0] = x /\ q[k] = start
  <2> DEFINE q == Turned(p)
  <2>1. Walk(g, "from", "to", kinds, k, q) /\ q[0] = x /\ q[k] = start
    BY <1>6, <1>7, <1>11
  <2>2. q = [i \in 0..k |-> q[i]]
    OBVIOUS
  <2> HIDE DEF q, Turned
  <2>3. \A i \in 0..k : q[i] \in Ends
    BY <1>9, <1>10, <2>1
  <2>4. q \in [0..k -> Ends]
    BY <2>2, <2>3
  <2> QED BY <1>3, <2>1, <2>4
<1>12. ASSUME NEW p \in WalksOf(g, kinds, k), p[0] = x, p[k] = start
       PROVE  /\ x \in P
              /\ \E q \in [0..k -> P] : /\ Walk(g, "to", "from", kinds, k, q)
                                        /\ q[0] = start /\ q[k] = x
  <2> DEFINE q == Turned(p)
  <2>1. p \in [0..k -> Ends] /\ Walk(g, "from", "to", kinds, k, p)
    BY <1>3
  <2>2. \A i \in 0..k : p[i] \in P
    <3>1. 1 \in 1..k /\ 1 - 1 = 0
      OBVIOUS
    <3>2. p[0] \in P
      BY <1>10, <2>1, <3>1
    <3> QED BY <1>9, <1>10, <2>1, <3>2
  <2>3. Walk(g, "to", "from", kinds, k, q) /\ q[0] = start /\ q[k] = x
    BY <1>6, <1>8, <1>12, <2>1
  <2>4. q \in [0..k -> P]
    BY <1>5, <2>2
  <2>5. x \in P
    <3>1. 0 \in 0..k
      OBVIOUS
    <3> QED BY <1>12, <2>2, <3>1
  <2> HIDE DEF q, Turned
  <2> QED BY <2>3, <2>4, <2>5
<1> HIDE DEF Turned
<1> QED BY <1>4, <1>11, <1>12 DEF Links

LEMMA GreaterOfTwo ==
    ASSUME NEW a \in Int, NEW b \in Int
    PROVE  Max({a, b}) = IF a >= b THEN a ELSE b
<1>1. \E x \in {a, b} : \A y \in {a, b} : x >= y
  BY a >= b \/ b >= a
<1>2. Max({a, b}) \in {a, b} /\ \A y \in {a, b} : Max({a, b}) >= y
  BY <1>1 DEF Max
<1> QED BY <1>2

LEMMA WithinIsWalks ==
    ASSUME NEW g \in Graphs, NEW kinds \in {Calls, AnyKind}, NEW d \in Depths, NEW a, NEW b
    PROVE  <<a, b>> \in Within[g][kinds][d] <=> \E j \in 1..d : Links(g, kinds, a, b, j)
<1> DEFINE Pairs(j) == {<<p[0], p[j]>> : p \in WalksOf(g, kinds, j)}
<1>1. Within[g][kinds][d] = UNION {Pairs(j) : j \in 1..d}
  BY DEF Within
<1>2. \A j : <<a, b>> \in Pairs(j) <=> Links(g, kinds, a, b, j)
  BY DEF Links
<1> HIDE DEF Pairs
<1> QED BY <1>1, <1>2

\* The nodes that walks of at most d edges lead to t from, and from t to.
LeadingTo(g, kinds, t, d) == {n \in g.nodes : <<n, t>> \in Within[g][kinds][d]}
LedFrom(g, kinds, t, d) == {n \in g.nodes : <<t, n>> \in Within[g][kinds][d]}

LEMMA DependentsAreWithin ==
    ASSUME NEW g \in Graphs, NEW t \in Ends, NEW kinds \in {Calls, AnyKind}, NEW depth \in Int,
           NEW d \in Depths, d = Max({1, depth})
    PROVE  dependents(g, t, kinds, depth) = LeadingTo(g, kinds, t, d)
<1>1. d \in Nat /\ d = Max({1, depth})
  BY GreaterOfTwo
<1>2. dependents(g, t, kinds, depth) =
        {n \in g.nodes : \E k \in 1..d : n \in WalkEnds(g, "to", "from", t, kinds, k)}
  <2>1. "to" \in {"from", "to"} /\ "from" \in {"from", "to"} /\ Max({1, depth}) \in Nat
    BY <1>1
  <2>2. traverse(g, "to", "from", t, kinds, depth) =
          {n \in g.nodes : \E k \in 1..Max({1, depth}) :
              n \in WalkEnds(g, "to", "from", t, kinds, k)}
    BY <2>1, TraverseFollowsWalks, Zenon
  <2> QED BY <1>1, <2>2, Zenon DEF dependents
<1>3. \A n \in g.nodes : \A k \in 1..d :
         n \in WalkEnds(g, "to", "from", t, kinds, k) <=> Links(g, kinds, n, t, k)
  <2>1. \A k \in 1..d : k \in Nat \ {0}
    OBVIOUS
  <2> QED BY <2>1, WalksBackward, PlacesAreEnds
<1>4. \A n : <<n, t>> \in Within[g][kinds][d] <=> \E k \in 1..d : Links(g, kinds, n, t, k)
  BY WithinIsWalks
<1> QED BY <1>2, <1>3, <1>4 DEF LeadingTo

LEMMA NeighboursAreWithin ==
    ASSUME NEW g \in Graphs, NEW t \in Ends, NEW kinds \in {Calls, AnyKind}, NEW depth \in Int,
           NEW d \in Depths, d = Max({1, depth})
    PROVE  neighbours(g, t, kinds, depth) = LedFrom(g, kinds, t, d)
<1>1. d \in Nat /\ d = Max({1, depth})
  BY GreaterOfTwo
<1>2. neighbours(g, t, kinds, depth) =
        {n \in g.nodes : \E k \in 1..d : n \in WalkEnds(g, "from", "to", t, kinds, k)}
  <2>1. "from" \in {"from", "to"} /\ "to" \in {"from", "to"} /\ Max({1, depth}) \in Nat
    BY <1>1
  <2>2. traverse(g, "from", "to", t, kinds, depth) =
          {n \in g.nodes : \E k \in 1..Max({1, depth}) :
              n \in WalkEnds(g, "from", "to", t, kinds, k)}
    BY <2>1, TraverseFollowsWalks, ZenonT(60)
  <2> QED BY <1>1, <2>2, Zenon DEF neighbours
<1>3. \A n \in g.nodes : \A k \in 1..d :
         n \in WalkEnds(g, "from", "to", t, kinds, k) <=> Links(g, kinds, t, n, k)
  <2>1. \A k \in 1..d : k \in Nat \ {0}
    OBVIOUS
  <2> QED BY <2>1, WalksForward
<1>4. \A n : <<t, n>> \in Within[g][kinds][d] <=> \E k \in 1..d : Links(g, kinds, t, n, k)
  BY WithinIsWalks
<1> QED BY <1>2, <1>3, <1>4 DEF LedFrom

\* A statement finds what the walks from its target lead to.
LEMMA ReachedIsLed ==
    ASSUME NEW g \in Graphs, NEW r \in Requests, r.op \in Walking, NEW t \in Ends
    PROVE  Reached(g, r.op, t, r.depth) = Led(g, r, t)
<1> DEFINE depth == Max({1, r.depth})
           deep == Max({3, r.depth})
<1>1. r.depth \in Int
  BY RequestsTyped
<1>2. /\ depth \in Depths /\ deep \in Depths /\ 2 \in Depths
      /\ Max({1, 2}) = 2 /\ Max({r.depth, 3}) = deep /\ deep \in Int /\ Max({1, deep}) = deep
  <2>1. depth \in Depths /\ deep \in Depths /\ 2 \in Depths
    <3> DEFINE All == {{Max({1, q.depth}), Max({3, q.depth})} : q \in Requests}
    <3>1. {depth, deep} \in All
      OBVIOUS
    <3>2. Depths = {2} \cup UNION All
      BY DEF Depths
    <3> HIDE DEF All, depth, deep
    <3> QED BY <3>1, <3>2
  <2>2. {r.depth, 3} = {3, r.depth}
    OBVIOUS
  <2>3. deep = IF 3 >= r.depth THEN 3 ELSE r.depth
    BY <1>1, GreaterOfTwo
  <2>4. deep \in Int /\ deep >= 3
    BY <1>1, <2>3
  <2> HIDE DEF deep
  <2>5. Max({1, deep}) = deep
    BY <2>4, GreaterOfTwo
  <2>6. Max({1, 2}) = 2
    BY GreaterOfTwo
  <2> QED BY <2>1, <2>2, <2>4, <2>5, <2>6 DEF deep
<1> HIDE DEF depth, deep
<1>3. Led(g, r, t) =
        {n \in g.nodes :
          CASE r.op = "references" -> <<n, t>> \in Within[g][Calls][depth]
            [] r.op = "dependencies" -> <<t, n>> \in Within[g][Calls][depth]
            [] r.op = "impact" -> ~isFile(n) /\ <<n, t>> \in Within[g][AnyKind][deep]
            [] r.op = "tests_for" -> isTest(n) /\ <<n, t>> \in Within[g][AnyKind][2]}
  BY DEF Led, depth, deep
<1>4. CASE r.op = "references"
  <2>1. Reached(g, r.op, t, r.depth) = dependents(g, t, Calls, r.depth)
    BY <1>4 DEF Reached
  <2>2. dependents(g, t, Calls, r.depth) = {n \in g.nodes : <<n, t>> \in Within[g][Calls][depth]}
    <3>1. depth = Max({1, r.depth})
      BY DEF depth
    <3>2. dependents(g, t, Calls, r.depth) = LeadingTo(g, Calls, t, depth)
      BY <1>1, <1>2, <3>1, DependentsAreWithin
    <3> QED BY <3>2 DEF LeadingTo
  <2> QED BY <1>3, <1>4, <2>1, <2>2
<1>5. CASE r.op = "dependencies"
  <2>1. Reached(g, r.op, t, r.depth) = neighbours(g, t, Calls, r.depth)
    BY <1>5 DEF Reached
  <2>2. neighbours(g, t, Calls, r.depth) = {n \in g.nodes : <<t, n>> \in Within[g][Calls][depth]}
    <3>1. depth = Max({1, r.depth})
      BY DEF depth
    <3>2. neighbours(g, t, Calls, r.depth) = LedFrom(g, Calls, t, depth)
      BY <1>1, <1>2, <3>1, NeighboursAreWithin
    <3> QED BY <3>2 DEF LedFrom
  <2> QED BY <1>3, <1>5, <2>1, <2>2
<1>6. CASE r.op = "impact"
  <2>1. Reached(g, r.op, t, r.depth) = {n \in dependents(g, t, AnyKind, deep) : ~isFile(n)}
    BY <1>2, <1>6 DEF Reached
  <2>2. dependents(g, t, AnyKind, deep) = {n \in g.nodes : <<n, t>> \in Within[g][AnyKind][deep]}
    BY <1>2, DependentsAreWithin DEF LeadingTo
  <2> QED BY <1>3, <1>6, <2>1, <2>2
<1>7. CASE r.op = "tests_for"
  <2>1. Reached(g, r.op, t, r.depth) = {n \in dependents(g, t, AnyKind, 2) : isTest(n)}
    BY <1>7 DEF Reached
  <2>2. dependents(g, t, AnyKind, 2) = {n \in g.nodes : <<n, t>> \in Within[g][AnyKind][2]}
    BY <1>2, DependentsAreWithin DEF LeadingTo
  <2> QED BY <1>3, <1>7, <2>1, <2>2
<1> QED BY <1>4, <1>5, <1>6, <1>7 DEF Walking

LEMMA ResolvedIsNamed ==
    ASSUME NEW g, NEW arg
    PROVE  resolveSymbol(g, arg) = Named(g, arg) /\ Named(g, arg) \subseteq g.nodes
BY DEF resolveSymbol, getNode, findNodes, Named

-----------------------------------------------------------------------------
(* A query that walks while others write.                                  *)

\* Some graph of the time leads to n from what some graph of the time names so;
\* all of them name t so; all of them lead from t to n.
Founded(n) ==
    \E g, h \in during : \E t \in Named(g, request.arg) : n \in Led(h, request, t)

AllName(t) == \A g \in during : t \in Named(g, request.arg)

AllLead(t, n) == \A g \in during : n \in Led(g, request, t)

\* What is still to be walked from was named when it was looked up.
TargetsNamed == \E g \in during : Range(targets) \subseteq Named(g, request.arg)

\* Every target that all graphs name was walked from, or will be.
Complete ==
    \A t \in Ids : AllName(t) => \/ t \in Range(targets)
                                 \/ \A n \in Ids : AllLead(t, n) => n \in Range(results)

WalkOK ==
    (pc \in {"visit", "measure", "sum", "fit"} /\ request.op \in Walking) =>
        /\ TargetsNamed
        /\ \A n \in Range(results) : Founded(n)
        /\ Complete
        /\ pc # "visit" => targets = <<>>

WalkInv == WalkOK /\ (pc = "answered" => AnswersAreTrue)

LEMMA WalkInit == Init => WalkInv
BY DEF Init, WalkInv, WalkOK

\* A step that only counts.
LEMMA WalkUnchanged ==
    ASSUME WalkInv, UNCHANGED <<request, during, results, targets>>,
           pc \in {"measure", "sum", "fit"}, pc' \in {"measure", "sum", "fit"}
    PROVE  WalkInv'
BY DEF WalkInv, WalkOK, TargetsNamed, Founded, Complete, AllName, AllLead

\* An answer in which all results are shown or named as missing.
LEMMA WalkAnswered ==
    ASSUME WalkInv, UNCHANGED <<request, during>>, pc' = "answered",
           pc \in {"visit", "measure", "sum", "fit"}, request.op \in Walking, pc # "visit",
           Range(reply'.shown \o reply'.truncated) = Range(results)
    PROVE  WalkInv'
<1>1. /\ \A n \in Range(results) : Founded(n)
      /\ Complete /\ targets = <<>>
  BY DEF WalkInv, WalkOK
<1>2. Range(targets) = {}
  BY <1>1, EmptyListed
<1>3. \A t \in Ids : AllName(t) => \A n \in Ids : AllLead(t, n) => n \in Range(results)
  BY <1>1, <1>2 DEF Complete
<1>4. Reported' = Range(results)
  BY DEF Reported
<1>5. AnswersAreTrue'
  BY <1>1, <1>3, <1>4 DEF AnswersAreTrue, Founded, AllName, AllLead
<1> QED BY <1>5 DEF WalkInv, WalkOK

LEMMA OtherAnswer ==
    ASSUME pc' = "answered",
           reply'.kind \notin {"fitted", "nothing"} \/ request'.op \notin Walking
    PROVE  WalkInv'
BY DEF WalkInv, WalkOK, AnswersAreTrue

\* One more graph of the time: a claim of some graph stands, one of all is weaker.
LEMMA WriteKeepsWalk ==
    ASSUME FoundInv, WalkInv, Write
    PROVE  WalkInv'
<1>1. /\ UNCHANGED <<pc, request, targets, results, reply>> /\ during \subseteq during'
      /\ pc = "answered" => during' = during
  BY DEF Write, asking
<1>2. CASE pc = "answered"
  <2>1. AnswersAreTrue'
    BY <1>1, <1>2 DEF WalkInv, AnswersAreTrue, Reported
  <2> QED BY <1>1, <1>2, <2>1 DEF WalkInv, WalkOK
<1>3. CASE pc # "answered"
  <2>1. TargetsNamed => TargetsNamed'
    BY <1>1 DEF TargetsNamed
  <2>2. \A n : Founded(n) => Founded(n)'
    BY <1>1 DEF Founded
  <2>3. Complete => Complete'
    <3>1. \A t : AllName(t)' => AllName(t)
      BY <1>1 DEF AllName
    <3>2. \A t, n : AllLead(t, n)' => AllLead(t, n)
      BY <1>1 DEF AllLead
    <3> QED BY <1>1, <3>1, <3>2 DEF Complete
  <2> QED BY <1>1, <1>3, <2>1, <2>2, <2>3 DEF WalkInv, WalkOK
<1> QED BY <1>2, <1>3

LEMMA ResolveKeepsWalk ==
    ASSUME FoundInv, WalkInv, Resolve
    PROVE  WalkInv'
<1>1. /\ graph \in during /\ graph \in Graphs /\ results = <<>> /\ pc = "resolve"
      /\ UNCHANGED <<request, results, during>>
      /\ targets' = Rows(resolveSymbol(graph, request.arg))
  BY DEF FoundInv, GraphsOK, FoundOK, Resolve
<1>2. Range(targets') = Named(graph, request.arg) /\ Range(results) = {}
  BY <1>1, ResolvedListed, ResolvedIsNamed, EmptyListed
<1>3. CASE pc' = "visit"
  <2>1. TargetsNamed' /\ Complete' /\ \A n \in Range(results') : Founded(n)'
    BY <1>1, <1>2 DEF TargetsNamed, Complete, AllName
  <2> QED BY <1>3, <2>1 DEF WalkInv, WalkOK
<1>4. CASE pc' # "visit"
  <2>1. /\ targets' = <<>> /\ pc' = "answered"
        /\ reply'.shown = <<>> /\ reply'.truncated = <<>>
    BY <1>4 DEF Resolve, Answer, Plain
  <2>2. Reported' = {}
    <3>1. <<>> \o <<>> = <<>>
      OBVIOUS
    <3> QED BY <2>1, <3>1, EmptyListed DEF Reported
  <2>3. Named(graph, request.arg) = {}
    BY <1>2, <2>1, EmptyListed
  <2>4. AnswersAreTrue'
    BY <1>1, <2>2, <2>3 DEF AnswersAreTrue
  <2> QED BY <2>1, <2>4 DEF WalkInv, WalkOK
<1> QED BY <1>3, <1>4

\* What the statement of a visit finds is what its graph leads to.
LEMMA VisitKeepsWalk ==
    ASSUME FoundInv, WalkInv, VisitTarget
    PROVE  WalkInv'
<1> DEFINE t == Head(targets)
           R == Reached(graph, request.op, t, request.depth)
<1>1. /\ graph \in during /\ graph \in Graphs /\ during \subseteq Graphs
      /\ request \in Requests /\ request.op \in Walking
      /\ Listed(targets) /\ targets # <<>> /\ pc = "visit"
  BY DEF FoundInv, GraphsOK, RequestOK, FoundOK, VisitTarget
<1>2. /\ TargetsNamed /\ Complete /\ \A n \in Range(results) : Founded(n)
  BY <1>1 DEF WalkInv, WalkOK
<1>3. /\ targets' = Tail(targets) /\ UNCHANGED <<request, during>>
      /\ pc' = IF Len(targets) = 1 THEN "measure" ELSE "visit"
  BY DEF VisitTarget
<1>4. /\ t \in Range(targets) /\ Range(targets) = {t} \cup Range(targets')
      /\ Len(targets) = 1 => targets' = <<>>
  BY <1>1, <1>3, TailListed
<1>5. Range(results') = Range(results) \cup R
  BY VisitAdds
<1>6. PICK g \in during : Range(targets) \subseteq Named(g, request.arg)
  BY <1>2 DEF TargetsNamed
<1>7. t \in Named(g, request.arg) /\ t \in Ends
  BY <1>1, <1>4, <1>6, ResolvedIsNamed, PlacesAreEnds
<1>8. R = Led(graph, request, t)
  BY <1>1, <1>7, ReachedIsLed
<1> HIDE DEF t, R
<1>9. \A n \in Range(results') : Founded(n)'
  <2>1. \A n \in R : Founded(n)
    BY <1>1, <1>6, <1>7, <1>8 DEF Founded
  <2>2. \A n : Founded(n) => Founded(n)'
    BY <1>3 DEF Founded
  <2> QED BY <1>2, <1>5, <2>1, <2>2
<1>10. TargetsNamed'
  BY <1>3, <1>4, <1>6 DEF TargetsNamed
<1>11. Complete'
  <2>1. \A s : AllName(s)' => AllName(s)
    BY <1>3 DEF AllName
  <2>2. \A s, n : AllLead(s, n)' => AllLead(s, n)
    BY <1>3 DEF AllLead
  <2>3. \A n : AllLead(t, n) => n \in R
    BY <1>1, <1>8 DEF AllLead
  <2> SUFFICES ASSUME NEW s \in Ids, AllName(s), s \notin Range(targets'), NEW n \in Ids,
                      AllLead(s, n)
               PROVE  n \in Range(results')
    BY <2>1, <2>2 DEF Complete
  <2>4. CASE s = t
    BY <1>5, <2>3, <2>4
  <2>5. CASE s # t
    BY <1>2, <1>4, <1>5, <2>5 DEF Complete
  <2> QED BY <2>4, <2>5
<1> QED BY <1>3, <1>4, <1>9, <1>10, <1>11 DEF WalkInv, WalkOK

LEMMA FinishKeepsWalk ==
    ASSUME FoundInv, FitInv, FitInv', WalkInv, Finish
    PROVE  WalkInv'
<1>1. /\ pc = "fit" /\ pc' = "answered" /\ reply'.kind = "fitted"
      /\ UNCHANGED <<request, during, results>>
  BY DEF Finish, Answer
<1>2. Range(reply'.shown \o reply'.truncated) = Range(results)
  BY <1>1 DEF FitInv, ReplyOK, NothingMissing
<1>3. CASE request.op \in Walking
  BY <1>1, <1>2, <1>3, WalkAnswered
<1>4. CASE request.op \notin Walking
  BY <1>1, <1>4, OtherAnswer
<1> QED BY <1>3, <1>4

LEMMA NothingKeepsWalk ==
    ASSUME FoundInv, WalkInv, AnswerNothing
    PROVE  WalkInv'
<1>1. /\ pc = "measure" /\ pc' = "answered" /\ results = <<>>
      /\ UNCHANGED <<request, during>>
      /\ reply'.shown = <<>> /\ reply'.truncated = <<>>
  BY DEF AnswerNothing, Answer, Plain, SaysNothing
<1>2. Range(reply'.shown \o reply'.truncated) = Range(results)
  <2>1. <<>> \o <<>> = <<>>
    OBVIOUS
  <2> QED BY <1>1, <2>1
<1>3. CASE request.op \in Walking
  BY <1>1, <1>2, <1>3, WalkAnswered
<1>4. CASE request.op \notin Walking
  BY <1>1, <1>4, OtherAnswer
<1> QED BY <1>3, <1>4

LEMMA WalkInductive ==
    ASSUME FoundInv, FitInv, FitInv', WalkInv, [Next]_vars
    PROVE  WalkInv'
<1>1. CASE UNCHANGED vars
  BY <1>1 DEF vars, asking, WalkInv, WalkOK, TargetsNamed, Founded, Complete, AllName, AllLead,
              AnswersAreTrue, Reported
<1>2. CASE Write
  BY <1>2, WriteKeepsWalk
<1>3. ASSUME NEW r \in Requests, Refuse(r) PROVE WalkInv'
  BY <1>3, OtherAnswer DEF Refuse
<1>4. ASSUME NEW r \in Requests, Ask(r) PROVE WalkInv'
  BY <1>4 DEF Ask, WalkInv, WalkOK
<1>5. ASSUME NEW phrase \in DOMAIN Words, NEW budget \in MapBudgets, ShowMap(phrase, budget)
      PROVE  WalkInv'
  <2>1. pc' = "answered" /\ reply'.kind = "map"
    BY <1>5 DEF ShowMap, Answer
  <2> QED BY <2>1, OtherAnswer
<1>6. CASE LookUp
  <2>1. request.op \notin Walking /\ request' = request /\ pc' = "measure"
    BY <1>6 DEF LookUp, FoundInv, RequestOK, Direct, Walking
  <2> QED BY <2>1 DEF WalkInv, WalkOK
<1>7. CASE VisitTarget
  BY <1>7, VisitKeepsWalk
<1>8. CASE Measure
  BY <1>8, WalkUnchanged DEF Measure
<1>9. CASE AddCost
  BY <1>9, WalkUnchanged DEF AddCost
<1>10. CASE SetBudget
  BY <1>10, WalkUnchanged DEF SetBudget
<1>11. CASE FitLine
  BY <1>11, WalkUnchanged DEF FitLine
<1>12. CASE Deliver
  BY <1>12 DEF Deliver, WalkInv, WalkOK
<1>13. CASE Resolve
  BY <1>13, ResolveKeepsWalk
<1>14. CASE AnswerNothing
  BY <1>14, NothingKeepsWalk
<1>15. CASE Expand
  <2>1. pc' = "answered" /\ reply'.kind = "expanded"
    BY <1>15 DEF Expand, Answer, Plain
  <2> QED BY <2>1, OtherAnswer
<1>16. CASE Finish
  BY <1>16, FinishKeepsWalk
<1> QED
  BY <1>1, <1>2, <1>3, <1>4, <1>5, <1>6, <1>7, <1>8, <1>9, <1>10, <1>11, <1>12, <1>13, <1>14,
     <1>15, <1>16 DEF Next, Requested, Mapped, Proceeds, Answers

\* query.ts:139-249, sqlite-store.ts:202-237: whatever other sessions commit
\* between the statements of a query, its answer reports only what some graph of
\* that time leads to, and all that every graph of that time leads to.
THEOREM Truth == Spec => []AnswersAreTrue
<1>1. FoundInv /\ FitInv /\ FitInv' /\ WalkInv /\ [Next]_vars => WalkInv'
  BY WalkInductive
<1>2. FitInv /\ WalkInv => AnswersAreTrue
  <2>1. NoReply.kind \notin {"fitted", "nothing"}
    BY DEF NoReply
  <2>2. reply = NoReply => AnswersAreTrue
    BY <2>1 DEF AnswersAreTrue
  <2> QED BY <2>2 DEF FitInv, ReplyOK, WalkInv
<1> QED BY WalkInit, FitInvariance, <1>1, <1>2, PTL DEF Spec

-----------------------------------------------------------------------------
(* Counting.                                                               *)

\* How many of the first k numbers are in A.
UpTo(A, k) == Cardinality({j \in 1..k : j \in A})

LEMMA UpToIsNat ==
    ASSUME NEW A, NEW k \in Nat
    PROVE  /\ IsFiniteSet({j \in 1..k : j \in A}) /\ UpTo(A, k) \in Nat /\ UpTo(A, 0) = 0
<1>1. IsFiniteSet(1..k)
  BY FS_Interval
<1>2. IsFiniteSet({j \in 1..k : j \in A})
  BY <1>1, FS_Subset
<1>3. {j \in 1..0 : j \in A} = {}
  OBVIOUS
<1>4. Cardinality({j \in 1..0 : j \in A}) = 0
  BY <1>3, FS_EmptySet
<1> QED BY <1>2, <1>4, FS_CardinalityType DEF UpTo

LEMMA UpToOneMore ==
    ASSUME NEW A, NEW k \in Nat
    PROVE  UpTo(A, k + 1) = IF k + 1 \in A THEN UpTo(A, k) + 1 ELSE UpTo(A, k)
<1> DEFINE S == {j \in 1..k : j \in A}
           T == {j \in 1..(k + 1) : j \in A}
<1>1. IsFiniteSet(S) /\ k + 1 \notin S
  BY UpToIsNat
<1>2. T = IF k + 1 \in A THEN S \cup {k + 1} ELSE S
  OBVIOUS
<1> HIDE DEF S, T
<1>3. Cardinality(S \cup {k + 1}) = Cardinality(S) + 1
  BY <1>1, FS_AddElement
<1>4. Cardinality(T) = IF k + 1 \in A THEN Cardinality(S) + 1 ELSE Cardinality(S)
  BY <1>2, <1>3
<1> QED BY <1>4 DEF UpTo, S, T

LEMMA UpToGrows ==
    ASSUME NEW A, NEW i \in Nat, NEW j \in Nat, i < j
    PROVE  UpTo(A, i) =< UpTo(A, j) /\ (j \in A => UpTo(A, i) < UpTo(A, j))
<1> DEFINE S == {x \in 1..i : x \in A}
           T == {x \in 1..j : x \in A}
<1>1. IsFiniteSet(S) /\ IsFiniteSet(T) /\ Cardinality(S) \in Nat /\ Cardinality(T) \in Nat
  BY UpToIsNat DEF UpTo
<1>2. S \in SUBSET T /\ (j \in A => S \in SUBSET (T \ {j}) /\ j \in T)
  OBVIOUS
<1> HIDE DEF S, T
<1>3. Cardinality(S) =< Cardinality(T)
  BY <1>1, <1>2, FS_Subset
<1>4. ASSUME j \in A PROVE Cardinality(S) < Cardinality(T)
  <2>1. IsFiniteSet(T \ {j}) /\ Cardinality(T \ {j}) = Cardinality(T) - 1
    BY <1>1, <1>2, <1>4, FS_RemoveElement
  <2>2. Cardinality(S) =< Cardinality(T \ {j})
    BY <1>2, <1>4, <2>1, FS_Subset
  <2> QED BY <1>1, <2>1, <2>2
<1> QED BY <1>3, <1>4 DEF UpTo, S, T

LEMMA UpToSame ==
    ASSUME NEW A, NEW B, NEW k, \A j \in 1..k : j \in A <=> j \in B
    PROVE  UpTo(A, k) = UpTo(B, k)
<1>1. {j \in 1..k : j \in A} = {j \in 1..k : j \in B}
  OBVIOUS
<1> QED BY <1>1 DEF UpTo

\* Sequences of what one does not look at.
Sequence(s) == \E S : s \in Seq(S)

\* t is s and x after it.
Longer(s, t, x) ==
    /\ Sequence(t) /\ Len(s) \in Nat /\ Len(t) = Len(s) + 1 /\ t[Len(s) + 1] = x
    /\ DOMAIN s = 1..Len(s) /\ DOMAIN t = 1..(Len(s) + 1)
    /\ \A i \in 1..Len(s) : t[i] = s[i]

LEMMA AppendingIsLonger ==
    ASSUME NEW s, Sequence(s), NEW x
    PROVE  Longer(s, Append(s, x), x)
<1>1. PICK S : s \in Seq(S)
  BY DEF Sequence
<1> DEFINE T == S \cup {x}
           t == Append(s, x)
<1>2. s \in Seq(T) /\ x \in T
  BY <1>1
<1> HIDE DEF T
<1>3. /\ t \in Seq(T) /\ Len(s) \in Nat /\ Len(t) = Len(s) + 1 /\ t[Len(s) + 1] = x
      /\ DOMAIN s = 1..Len(s) /\ DOMAIN t = 1..(Len(s) + 1)
      /\ \A i \in 1..Len(s) : t[i] = s[i]
  BY <1>2
<1> QED BY <1>3 DEF Longer, Sequence

-----------------------------------------------------------------------------
(* The tracker.                                                            *)

Agents(a) == {i \in DOMAIN a : a[i].by = "agent"}

\* What the tracker keeps of the agent's answer a[i].
Kept(a, i) ==
    [queryId |-> UpTo(Agents(a), i), outline |-> a[i].outline,
     paths |-> a[i].paths \cap MatchedPaths, turn |-> a[i].turn]

\* The tracker c keeps the agent's answers of a, in their order.
Tracks(a, c, counter) ==
    /\ Sequence(a) /\ Sequence(c)
    /\ Len(a) \in Nat /\ DOMAIN a = 1..Len(a) /\ DOMAIN c = 1..Len(c)
    /\ counter = UpTo(Agents(a), Len(a)) /\ Len(c) = counter
    /\ \A i \in Agents(a) : /\ UpTo(Agents(a), i) \in 1..Len(c)
                            /\ c[UpTo(Agents(a), i)] = Kept(a, i)
    /\ \A k \in 1..Len(c) : \E i \in Agents(a) : UpTo(Agents(a), i) = k

LEMMA TracksNothing == Tracks(<<>>, <<>>, 0)
<1>1. /\ <<>> \in Seq({}) /\ DOMAIN <<>> = {} /\ Len(<<>>) = 0 /\ 1..0 = {}
  OBVIOUS
<1>2. Sequence(<<>>) /\ Agents(<<>>) = {}
  BY <1>1 DEF Sequence, Agents
<1>3. UpTo({}, 0) = 0
  BY UpToIsNat
<1> QED BY <1>1, <1>2, <1>3 DEF Tracks

\* The earlier answers keep their place.
LEMMA AgentsOfLonger ==
    ASSUME NEW a, NEW b, NEW x, Longer(a, b, x)
    PROVE  /\ Agents(b) = Agents(a) \cup IF x.by = "agent" THEN {Len(a) + 1} ELSE {}
           /\ Len(a) + 1 \notin Agents(a) /\ Agents(a) \subseteq 1..Len(a)
           /\ \A i \in 0..Len(a) : UpTo(Agents(b), i) = UpTo(Agents(a), i)
           /\ \A i \in Agents(a) : Kept(b, i) = Kept(a, i)
<1> DEFINE n == Len(a)
<1>1. /\ n \in Nat /\ DOMAIN a = 1..n /\ DOMAIN b = 1..(n + 1) /\ b[n + 1] = x
      /\ \A i \in 1..n : b[i] = a[i]
  BY DEF Longer
<1> HIDE DEF n
<1>2. Agents(a) = {i \in 1..n : a[i].by = "agent"}
  BY <1>1 DEF Agents
<1>3. Agents(b) = {i \in 1..(n + 1) : b[i].by = "agent"}
  BY <1>1 DEF Agents
<1>4. Agents(b) = Agents(a) \cup IF x.by = "agent" THEN {n + 1} ELSE {}
  <2>1. 1..(n + 1) = 1..n \cup {n + 1} /\ n + 1 \notin 1..n
    BY <1>1
  <2>2. \A i \in 1..n : i \in Agents(b) <=> i \in Agents(a)
    BY <1>1, <1>2, <1>3, <2>1
  <2>3. n + 1 \in Agents(b) <=> x.by = "agent"
    BY <1>1, <1>3, <2>1
  <2> QED BY <1>2, <1>3, <2>1, <2>2, <2>3
<1>5. n + 1 \notin Agents(a) /\ Agents(a) \subseteq 1..n
  BY <1>1, <1>2
<1>6. ASSUME NEW i \in 0..n PROVE UpTo(Agents(b), i) = UpTo(Agents(a), i)
  <2>1. \A j \in 1..i : j # n + 1
    BY <1>1
  <2>2. \A j \in 1..i : j \in Agents(b) <=> j \in Agents(a)
    BY <1>4, <2>1
  <2> QED BY <2>2, UpToSame
<1>7. ASSUME NEW i \in Agents(a) PROVE Kept(b, i) = Kept(a, i)
  <2>1. i \in 0..n /\ b[i] = a[i]
    BY <1>1, <1>2
  <2> QED BY <1>6, <2>1 DEF Kept
<1> QED BY <1>4, <1>5, <1>6, <1>7 DEF n

LEMMA TracksTheAgent ==
    ASSUME NEW a, NEW c, NEW counter, Tracks(a, c, counter), NEW b, NEW x, Longer(a, b, x),
           x.by = "agent", NEW d, NEW y, Longer(c, d, y),
           y = [queryId |-> counter + 1, outline |-> x.outline,
                paths |-> x.paths \cap MatchedPaths, turn |-> x.turn]
    PROVE  Tracks(b, d, counter + 1)
<1> DEFINE n == Len(a)
           A == Agents(a)
           B == Agents(b)
<1>1. /\ n \in Nat /\ Len(c) = counter /\ counter = UpTo(A, n) /\ counter \in Nat
      /\ \A i \in A : UpTo(A, i) \in 1..counter /\ c[UpTo(A, i)] = Kept(a, i)
      /\ \A k \in 1..counter : \E i \in A : UpTo(A, i) = k
  <2>1. UpTo(A, n) \in Nat
    BY UpToIsNat DEF Tracks
  <2> QED BY <2>1 DEF Tracks
<1>2. /\ Sequence(b) /\ Len(b) = n + 1 /\ DOMAIN b = 1..(n + 1) /\ b[n + 1] = x
      /\ Sequence(d) /\ Len(d) = counter + 1 /\ DOMAIN d = 1..(counter + 1)
      /\ d[counter + 1] = y /\ \A k \in 1..counter : d[k] = c[k]
  BY <1>1 DEF Longer
<1>3. /\ B = A \cup {n + 1} /\ A \subseteq 1..n
      /\ \A i \in 0..n : UpTo(B, i) = UpTo(A, i)
      /\ \A i \in A : Kept(b, i) = Kept(a, i)
  BY AgentsOfLonger
<1>4. UpTo(B, n + 1) = counter + 1
  <2>1. n + 1 \in B /\ n \in 0..n
    BY <1>1, <1>3
  <2>2. UpTo(B, n + 1) = UpTo(B, n) + 1
    <3> HIDE DEF n, B
    <3> QED BY <1>1, <2>1, UpToOneMore
  <2>3. UpTo(B, n) = counter
    BY <1>1, <1>3, <2>1
  <2> QED BY <2>2, <2>3
<1>5. Kept(b, n + 1) = y
  BY <1>2, <1>4 DEF Kept
<1> HIDE DEF n, A, B
<1>6. ASSUME NEW i \in B PROVE UpTo(B, i) \in 1..(counter + 1) /\ d[UpTo(B, i)] = Kept(b, i)
  <2>1. CASE i = n + 1
    BY <1>1, <1>2, <1>4, <1>5, <2>1
  <2>2. CASE i \in A
    <3>1. i \in 0..n
      BY <1>1, <1>3, <2>2
    <3>2. UpTo(B, i) = UpTo(A, i) /\ UpTo(A, i) \in 1..counter
      BY <1>1, <1>3, <2>2, <3>1
    <3>3. d[UpTo(A, i)] = Kept(a, i) /\ UpTo(A, i) \in 1..(counter + 1)
      BY <1>1, <1>2, <2>2, <3>2
    <3> QED BY <1>3, <2>2, <3>2, <3>3
  <2> QED BY <1>3, <2>1, <2>2
<1>7. ASSUME NEW k \in 1..(counter + 1) PROVE \E i \in B : UpTo(B, i) = k
  <2>1. CASE k = counter + 1
    <3>1. n + 1 \in B
      BY <1>3
    <3> QED BY <1>4, <2>1, <3>1
  <2>2. CASE k # counter + 1
    <3>1. k \in 1..counter
      BY <1>1, <2>2
    <3>2. PICK i \in A : UpTo(A, i) = k
      BY <1>1, <3>1
    <3>3. i \in 0..n /\ i \in B
      BY <1>1, <1>3
    <3> QED BY <1>3, <3>2, <3>3
  <2> QED BY <2>1, <2>2
<1>8. n + 1 \in Nat
  BY <1>1
<1> QED BY <1>2, <1>4, <1>6, <1>7, <1>8 DEF Tracks, B

LEMMA TracksNoUser ==
    ASSUME NEW a, NEW c, NEW counter, Tracks(a, c, counter), NEW b, NEW x, Longer(a, b, x),
           x.by # "agent"
    PROVE  Tracks(b, c, counter)
<1> DEFINE n == Len(a)
           A == Agents(a)
           B == Agents(b)
<1>1. /\ n \in Nat /\ Len(c) = counter /\ counter = UpTo(A, n)
      /\ \A i \in A : UpTo(A, i) \in 1..Len(c) /\ c[UpTo(A, i)] = Kept(a, i)
      /\ \A k \in 1..Len(c) : \E i \in A : UpTo(A, i) = k
      /\ Sequence(c) /\ DOMAIN c = 1..Len(c)
  BY DEF Tracks
<1>2. Sequence(b) /\ Len(b) = n + 1 /\ DOMAIN b = 1..(n + 1)
  BY DEF Longer
<1>3. /\ B = A /\ A \subseteq 1..n /\ n + 1 \notin A
      /\ \A i \in A : Kept(b, i) = Kept(a, i)
  BY AgentsOfLonger
<1>4. UpTo(A, n + 1) = counter
  <2> HIDE DEF A, n
  <2> QED BY <1>1, <1>3, UpToOneMore
<1>5. n + 1 \in Nat
  BY <1>1
<1> HIDE DEF A, B, n
<1>6. \A i \in B : UpTo(B, i) \in 1..Len(c) /\ c[UpTo(B, i)] = Kept(b, i)
  BY <1>1, <1>3
<1> QED BY <1>1, <1>2, <1>3, <1>4, <1>5, <1>6 DEF Tracks, B

\* The first of the numbers in a set.
LEMMA MinIsFirst ==
    ASSUME NEW S \in SUBSET Nat, S # {}
    PROVE  Min(S) \in S /\ \A i \in S : Min(S) =< i
<1>1. \E i \in S : \A j \in S : i =< j
  BY Least
<1> QED BY <1>1 DEF Min

-----------------------------------------------------------------------------
(* The misses.                                                             *)

\* The answers of a that showed the agent a line of the file, before the read r.
Showing(a, r) ==
    {i \in 1..r.after : /\ a[i].by = "agent" /\ ~a[i].outline
                        /\ r.path \in a[i].paths \cap MatchedPaths}

\* What the read r should have been told after the answers a.
MissIsTrue(a, r) ==
    IF Showing(a, r) = {} THEN r.miss = NoMiss
    ELSE r.miss = [path |-> r.path, queryId |-> UpTo(Agents(a), Min(Showing(a, r))),
                   turnsLater |-> r.at - a[Min(Showing(a, r))].turn]

\* An answer given after the read changes nothing for it.
LEMMA MissStays ==
    ASSUME NEW a, NEW b, NEW x, Longer(a, b, x),
           NEW r, r.after \in 0..Len(a), MissIsTrue(a, r)
    PROVE  r.after \in 0..Len(b) /\ MissIsTrue(b, r)
<1> DEFINE n == Len(a)
           S == Showing(a, r)
<1>1. /\ n \in Nat /\ Len(b) = n + 1 /\ DOMAIN a = 1..n
      /\ \A i \in 1..n : b[i] = a[i]
  BY DEF Longer
<1>2. \A i \in 0..n : UpTo(Agents(b), i) = UpTo(Agents(a), i)
  BY AgentsOfLonger
<1>3. Showing(b, r) = S
  <2>1. \A i \in 1..r.after : i \in 1..n
    BY <1>1
  <2>2. \A i \in 1..r.after : b[i] = a[i]
    BY <1>1, <2>1
  <2> QED BY <2>2 DEF Showing
<1>4. r.after \in 0..Len(b)
  BY <1>1
<1>5. ASSUME S # {}
      PROVE  Min(S) \in 0..n /\ b[Min(S)] = a[Min(S)]
  <2>1. S \in SUBSET (1..n) /\ 1..n \in SUBSET Nat
    BY <1>1 DEF Showing
  <2>2. S \in SUBSET Nat
    BY <2>1
  <2> HIDE DEF S
  <2>3. Min(S) \in S
    BY <1>5, <2>2, MinIsFirst
  <2>4. Min(S) \in 1..n
    BY <2>1, <2>3
  <2> QED BY <1>1, <2>4
<1> HIDE DEF n
<1>6. CASE S = {}
  BY <1>3, <1>4, <1>6 DEF MissIsTrue
<1>7. CASE S # {}
  <2>1. UpTo(Agents(b), Min(S)) = UpTo(Agents(a), Min(S)) /\ b[Min(S)] = a[Min(S)]
    BY <1>2, <1>5, <1>7
  <2> QED BY <1>3, <1>4, <1>7, <2>1 DEF MissIsTrue
<1> QED BY <1>6, <1>7

\* find among what the tracker keeps finds the first of the answers.
LEMMA TheReadIsTold ==
    ASSUME Tracks(answers, covered, queryCounter), NEW path, NEW r,
           r = [path |-> path, after |-> Len(answers), at |-> turn, miss |-> recordRead(path)]
    PROVE  MissIsTrue(answers, r)
<1> DEFINE n == Len(answers)
           A == Agents(answers)
           S == Showing(answers, r)
           all == {k \in DOMAIN covered : ~covered[k].outline /\ path \in covered[k].paths}
           first == Min(S)
<1>1. r.path = path /\ r.after = n /\ r.at = turn /\ r.miss = recordRead(path)
  OBVIOUS
<1>2. /\ n \in Nat /\ DOMAIN answers = 1..n /\ DOMAIN covered = 1..Len(covered)
      /\ A = {i \in 1..n : answers[i].by = "agent"}
      /\ \A i \in A : /\ UpTo(A, i) \in 1..Len(covered)
                      /\ covered[UpTo(A, i)] = Kept(answers, i)
      /\ \A k \in 1..Len(covered) : \E i \in A : UpTo(A, i) = k
  BY DEF Tracks, Agents
<1>3. S = {i \in A : ~answers[i].outline /\ path \in answers[i].paths \cap MatchedPaths}
  BY <1>1, <1>2 DEF Showing
<1>4. \A i \in A : /\ Kept(answers, i).outline = answers[i].outline
                   /\ Kept(answers, i).paths = answers[i].paths \cap MatchedPaths
                   /\ Kept(answers, i).turn = answers[i].turn
                   /\ Kept(answers, i).queryId = UpTo(A, i)
  BY DEF Kept
<1> HIDE DEF n, A, S
<1>5. \A i \in S : UpTo(A, i) \in all
  BY <1>2, <1>3, <1>4
<1>6. ASSUME NEW k \in all PROVE \E i \in S : UpTo(A, i) = k
  <2>1. k \in 1..Len(covered)
    BY <1>2
  <2>2. PICK i \in A : UpTo(A, i) = k
    BY <1>2, <2>1
  <2> QED BY <1>2, <1>3, <1>4, <2>2
<1>7. Covering(path) = {k \in all : \A l \in all : k =< l}
  BY DEF Covering
<1> HIDE DEF all
<1>8. CASE S = {}
  <2>1. Covering(path) = {}
    BY <1>6, <1>7, <1>8
  <2> QED BY <1>1, <1>8, <2>1 DEF MissIsTrue, recordRead, S
<1>9. CASE S # {}
  <2>1. S \in SUBSET Nat
    BY <1>2, <1>3
  <2>2. first \in S /\ \A i \in S : first =< i
    BY <1>9, <2>1, MinIsFirst
  <2> HIDE DEF first
  <2>3. \A i \in S : i \in A /\ i \in Nat
    BY <1>3, <2>1
  <2>4. ASSUME NEW i \in S PROVE UpTo(A, first) =< UpTo(A, i) /\ UpTo(A, i) \in Nat
    <3>1. first \in Nat /\ i \in Nat /\ first =< i
      BY <2>2, <2>3
    <3>2. UpTo(A, first) \in Nat /\ UpTo(A, i) \in Nat
      BY <3>1, UpToIsNat
    <3>3. CASE first = i
      BY <3>2, <3>3
    <3>4. CASE first < i
      BY <3>1, <3>2, <3>4, UpToGrows
    <3> QED BY <3>1, <3>3, <3>4
  <2>5. UpTo(A, first) \in all /\ \A l \in all : UpTo(A, first) =< l /\ l \in Nat
    BY <1>5, <1>6, <2>2, <2>4
  <2>6. Covering(path) = {UpTo(A, first)}
    BY <1>7, <2>5
  <2>7. (CHOOSE k \in Covering(path) : TRUE) = UpTo(A, first) /\ Covering(path) # {}
    BY <2>6
  <2>8. covered[UpTo(A, first)] = Kept(answers, first)
    BY <1>2, <2>2, <2>3
  <2>9. recordRead(path) = [path |-> path, queryId |-> UpTo(A, first),
                            turnsLater |-> turn - answers[first].turn]
    <3>1. Kept(answers, first).queryId = UpTo(A, first)
          /\ Kept(answers, first).turn = answers[first].turn
      BY <1>4, <2>2, <2>3
    <3> QED BY <2>7, <2>8, <3>1 DEF recordRead
  <2> QED BY <1>1, <1>9, <2>9 DEF MissIsTrue, S, A, first
<1> QED BY <1>8, <1>9

\* The reads of rd that were told of a miss.
MissedIn(rd) == {i \in DOMAIN rd : rd[i].miss # NoMiss}

\* ms holds the misses of the reads rd, in their order.
KeepsMisses(rd, ms) ==
    /\ Sequence(rd) /\ Sequence(ms) /\ Len(rd) \in Nat /\ DOMAIN rd = 1..Len(rd)
    /\ Len(ms) = UpTo(MissedIn(rd), Len(rd))
    /\ \A i \in MissedIn(rd) : /\ UpTo(MissedIn(rd), i) \in 1..Len(ms)
                               /\ ms[UpTo(MissedIn(rd), i)] = rd[i].miss

LEMMA NoMissesYet == KeepsMisses(<<>>, <<>>)
<1>1. /\ <<>> \in Seq({}) /\ DOMAIN <<>> = {} /\ Len(<<>>) = 0 /\ 1..0 = {}
  OBVIOUS
<1>2. Sequence(<<>>) /\ MissedIn(<<>>) = {}
  BY <1>1 DEF Sequence, MissedIn
<1>3. UpTo({}, 0) = 0
  BY UpToIsNat
<1> QED BY <1>1, <1>2, <1>3 DEF KeepsMisses

LEMMA OneMoreRead ==
    ASSUME NEW rd, NEW ms, KeepsMisses(rd, ms), NEW rd2, NEW r, Longer(rd, rd2, r), NEW ms2,
           IF r.miss = NoMiss THEN ms2 = ms ELSE Longer(ms, ms2, r.miss)
    PROVE  KeepsMisses(rd2, ms2)
<1> DEFINE n == Len(rd)
           A == MissedIn(rd)
           B == MissedIn(rd2)
           c == UpTo(A, n)
<1>1. /\ n \in Nat /\ DOMAIN rd = 1..n /\ Sequence(ms) /\ Len(ms) = c
      /\ Sequence(rd2) /\ Len(rd2) = n + 1 /\ DOMAIN rd2 = 1..(n + 1) /\ rd2[n + 1] = r
      /\ \A i \in 1..n : rd2[i] = rd[i]
  BY DEF KeepsMisses, Longer
<1>2. A = {i \in 1..n : rd[i].miss # NoMiss} /\ B = {i \in 1..(n + 1) : rd2[i].miss # NoMiss}
  BY <1>1 DEF MissedIn
<1>3. \A i \in A : UpTo(A, i) \in 1..c /\ ms[UpTo(A, i)] = rd[i].miss
  BY <1>1 DEF KeepsMisses
<1> HIDE DEF n, A, B, c
<1>4. /\ \A i \in 1..n : i \in B <=> i \in A
      /\ n + 1 \in B <=> r.miss # NoMiss
      /\ n + 1 \notin A /\ A \subseteq 1..n /\ B \subseteq 1..n \cup {n + 1}
  <2>1. 1..(n + 1) = 1..n \cup {n + 1} /\ n + 1 \notin 1..n
    BY <1>1
  <2> QED BY <1>1, <1>2, <2>1
<1>5. ASSUME NEW i \in 0..n PROVE UpTo(B, i) = UpTo(A, i)
  <2>1. \A j \in 1..i : j \in 1..n
    BY <1>1
  <2>2. \A j \in 1..i : j \in B <=> j \in A
    BY <1>4, <2>1
  <2> QED BY <2>2, UpToSame
<1>6. UpTo(B, n) = c /\ c \in Nat
  <2>1. n \in 0..n
    BY <1>1
  <2>2. UpTo(A, n) \in Nat
    BY <1>1, UpToIsNat
  <2> QED BY <1>5, <2>1, <2>2 DEF c
<1>7. UpTo(B, n + 1) = IF n + 1 \in B THEN c + 1 ELSE c
  BY <1>1, <1>6, UpToOneMore
<1>8. ASSUME NEW i \in A PROVE UpTo(B, i) = UpTo(A, i) /\ rd2[i] = rd[i]
  <2>1. i \in 1..n /\ i \in 0..n
    BY <1>1, <1>4
  <2> QED BY <1>1, <1>5, <2>1
<1>9. n + 1 \in Nat
  BY <1>1
<1>10. CASE r.miss = NoMiss
  <2>1. ms2 = ms /\ n + 1 \notin B
    BY <1>4, <1>10
  <2>2. B = A
    BY <1>4, <2>1
  <2>3. \A i \in B : UpTo(B, i) \in 1..Len(ms2) /\ ms2[UpTo(B, i)] = rd2[i].miss
    BY <1>1, <1>3, <1>8, <2>1, <2>2
  <2> QED BY <1>1, <1>7, <1>9, <2>1, <2>3 DEF KeepsMisses, B
<1>11. CASE r.miss # NoMiss
  <2>1. Longer(ms, ms2, r.miss) /\ n + 1 \in B
    BY <1>4, <1>11
  <2>2. /\ Sequence(ms2) /\ Len(ms2) = c + 1 /\ ms2[c + 1] = r.miss
        /\ \A k \in 1..c : ms2[k] = ms[k]
    BY <1>1, <2>1 DEF Longer
  <2>3. ASSUME NEW i \in B
        PROVE  UpTo(B, i) \in 1..Len(ms2) /\ ms2[UpTo(B, i)] = rd2[i].miss
    <3>1. CASE i = n + 1
      <4>1. UpTo(B, i) = c + 1
        BY <1>7, <2>1, <3>1
      <4> QED BY <1>1, <1>6, <2>2, <3>1, <4>1
    <3>2. CASE i # n + 1
      <4>1. i \in A
        BY <1>4, <3>2
      <4>2. UpTo(B, i) \in 1..c /\ ms[UpTo(B, i)] = rd2[i].miss
        BY <1>3, <1>8, <4>1
      <4> QED BY <1>6, <2>2, <4>2
    <3> QED BY <3>1, <3>2
  <2>4. Len(ms2) = UpTo(B, n + 1)
    BY <1>7, <2>1, <2>2
  <2> QED BY <1>1, <1>9, <2>2, <2>3, <2>4 DEF KeepsMisses, B
<1> QED BY <1>10, <1>11

\* Every read so far has been told the truth.
AllTold(a, rd) == \A i \in DOMAIN rd : rd[i].after \in 0..Len(a) /\ MissIsTrue(a, rd[i])

\* The tracker keeps the agent's answers, the misses are those of the reads.
TrackInv ==
    /\ Tracks(answers, covered, queryCounter)
    /\ KeepsMisses(reads, misses)
    /\ AllTold(answers, reads)

LEMMA TrackInit == RInit => TrackInv
<1> SUFFICES ASSUME RInit PROVE TrackInv
  OBVIOUS
<1>1. covered = <<>> /\ misses = <<>> /\ queryCounter = 0 /\ answers = <<>> /\ reads = <<>>
  BY DEF RInit
<1>2. AllTold(<<>>, <<>>)
  BY DEF AllTold
<1> QED BY <1>1, <1>2, TracksNothing, NoMissesYet DEF TrackInv

LEMMA TrackInductive == TrackInv /\ [RNext]_rvars => TrackInv'
<1> SUFFICES ASSUME TrackInv, [RNext]_rvars PROVE TrackInv'
  OBVIOUS
<1>1. /\ Tracks(answers, covered, queryCounter) /\ KeepsMisses(reads, misses)
      /\ AllTold(answers, reads)
  BY DEF TrackInv
<1>2. Sequence(answers) /\ Sequence(covered) /\ Sequence(reads) /\ Sequence(misses)
  BY <1>1 DEF Tracks, KeepsMisses
<1>3. CASE UNCHANGED <<covered, queryCounter, misses, answers, reads>>
  BY <1>1, <1>3 DEF TrackInv
<1>4. CASE Report /\ reply' # reply
  <2> DEFINE x == [by |-> request.by, outline |-> request.op = "overview",
                   paths |-> pathsOf(reply'.shown), turn |-> turn]
             y == [queryId |-> queryCounter + 1, outline |-> x.outline,
                   paths |-> x.paths \cap MatchedPaths, turn |-> x.turn]
  <2>1. /\ answers' = Append(answers, x) /\ misses' = misses /\ reads' = reads
        /\ request.by = "agent" => /\ queryCounter' = queryCounter + 1
                                   /\ covered' = Append(covered, y)
        /\ request.by # "agent" => covered' = covered /\ queryCounter' = queryCounter
    BY <1>4 DEF Report, recordQuery, pathsInResponse
  <2>2. x.by = request.by
    OBVIOUS
  <2> HIDE DEF x
  <2>3. Longer(answers, answers', x)
    BY <1>2, <2>1, AppendingIsLonger
  <2>4. Tracks(answers', covered', queryCounter')
    <3>1. CASE request.by = "agent"
      <4>1. covered' = Append(covered, y) /\ queryCounter' = queryCounter + 1
        BY <2>1, <3>1
      <4>2. Longer(covered, covered', y)
        BY <1>2, <4>1, AppendingIsLonger
      <4>3. x.by = "agent"
        BY <2>2, <3>1
      <4>4. Tracks(answers', covered', queryCounter + 1)
        BY <1>1, <2>3, <4>2, <4>3, TracksTheAgent
      <4> QED BY <4>1, <4>4
    <3>2. CASE request.by # "agent"
      <4>1. covered' = covered /\ queryCounter' = queryCounter /\ x.by # "agent"
        BY <2>1, <2>2, <3>2
      <4>2. Tracks(answers', covered, queryCounter)
        BY <1>1, <2>3, <4>1, TracksNoUser
      <4> QED BY <4>1, <4>2
    <3> QED BY <3>1, <3>2
  <2>5. AllTold(answers', reads)
    <3>1. ASSUME NEW i \in DOMAIN reads
          PROVE  reads[i].after \in 0..Len(answers') /\ MissIsTrue(answers', reads[i])
      <4>1. reads[i].after \in 0..Len(answers) /\ MissIsTrue(answers, reads[i])
        BY <1>1 DEF AllTold
      <4> QED BY <2>3, <4>1, MissStays
    <3> QED BY <3>1 DEF AllTold
  <2> QED BY <1>1, <2>1, <2>4, <2>5 DEF TrackInv
<1>5. ASSUME NEW argument \in DOMAIN Normal, Read(argument) PROVE TrackInv'
  <2> DEFINE miss == recordRead(Normal[argument])
             r == [path |-> Normal[argument], after |-> Len(answers), at |-> turn, miss |-> miss]
  <2>1. /\ misses' = IF miss = NoMiss THEN misses ELSE Append(misses, miss)
        /\ reads' = Append(reads, r)
        /\ covered' = covered /\ queryCounter' = queryCounter /\ answers' = answers
    BY <1>5 DEF Read
  <2>2. MissIsTrue(answers, r)
    BY <1>1, TheReadIsTold
  <2>3. r.miss = miss /\ r.after = Len(answers)
    OBVIOUS
  <2> HIDE DEF r, miss
  <2>4. Longer(reads, reads', r)
    BY <1>2, <2>1, AppendingIsLonger
  <2>5. IF r.miss = NoMiss THEN misses' = misses ELSE Longer(misses, misses', r.miss)
    <3>1. Longer(misses, Append(misses, miss), miss)
      BY <1>2, AppendingIsLonger
    <3> QED BY <2>1, <2>3, <3>1
  <2>6. KeepsMisses(reads', misses')
    BY <1>1, <2>4, <2>5, OneMoreRead
  <2>7. AllTold(answers, reads')
    <3>1. /\ Len(reads) \in Nat /\ DOMAIN reads = 1..Len(reads)
          /\ DOMAIN reads' = 1..(Len(reads) + 1) /\ reads'[Len(reads) + 1] = r
          /\ \A i \in 1..Len(reads) : reads'[i] = reads[i]
      BY <2>4 DEF Longer
    <3>2. r.after \in 0..Len(answers)
      BY <1>1, <2>3 DEF Tracks
    <3>3. ASSUME NEW i \in DOMAIN reads'
          PROVE  reads'[i].after \in 0..Len(answers) /\ MissIsTrue(answers, reads'[i])
      <4>1. CASE i = Len(reads) + 1
        BY <2>2, <3>1, <3>2, <4>1
      <4>2. CASE i # Len(reads) + 1
        <5>1. i \in DOMAIN reads /\ reads'[i] = reads[i]
          BY <3>1, <4>2
        <5> QED BY <1>1, <5>1 DEF AllTold
      <4> QED BY <4>1, <4>2
    <3> QED BY <3>3 DEF AllTold
  <2> QED BY <1>1, <2>1, <2>6, <2>7 DEF TrackInv
<1>6. CASE Report /\ reply' = reply
  BY <1>3, <1>6 DEF Report, tracker, history
<1>7. CASE Unreported
  BY <1>3, <1>7 DEF Unreported, tracker, history
<1>8. CASE nextTurn
  BY <1>3, <1>8 DEF nextTurn, history
<1>9. CASE UNCHANGED rvars
  BY <1>3, <1>9 DEF rvars, tracker, history
<1> QED BY <1>4, <1>5, <1>6, <1>7, <1>8, <1>9 DEF RNext

LEMMA TrackTells == TrackInv => MissesAreTrue
<1> SUFFICES ASSUME TrackInv PROVE MissesAreTrue
  OBVIOUS
<1>1. /\ Tracks(answers, covered, queryCounter) /\ KeepsMisses(reads, misses)
      /\ AllTold(answers, reads)
  BY DEF TrackInv
<1>2. /\ Len(answers) \in Nat /\ DOMAIN answers = 1..Len(answers)
      /\ Len(reads) \in Nat /\ DOMAIN reads = 1..Len(reads)
  BY <1>1 DEF Tracks, KeepsMisses
<1>3. ASSUME NEW k \in 0..Len(reads)
      PROVE  Cardinality(MissedUpTo(k)) = UpTo(MissedIn(reads), k)
  <2>1. \A i \in 1..k : i \in DOMAIN reads
    BY <1>2
  <2>2. MissedUpTo(k) = {i \in 1..k : i \in MissedIn(reads)}
    BY <2>1 DEF MissedUpTo, MissedIn
  <2> QED BY <2>2 DEF UpTo
<1>4. MissedUpTo(Len(reads)) = MissedIn(reads)
  BY <1>2 DEF MissedUpTo, MissedIn
<1>5. Len(misses) = Cardinality(MissedUpTo(Len(reads)))
  <2>1. Len(reads) \in 0..Len(reads)
    BY <1>2
  <2> QED BY <1>1, <1>3, <2>1 DEF KeepsMisses
<1>6. ASSUME NEW i \in MissedUpTo(Len(reads))
      PROVE  misses[Cardinality(MissedUpTo(i))] = reads[i].miss
  <2>1. i \in MissedIn(reads) /\ i \in 0..Len(reads)
    BY <1>2, <1>4 DEF MissedIn
  <2> QED BY <1>1, <1>3, <2>1 DEF KeepsMisses
<1>7. ASSUME NEW i \in DOMAIN reads
      PROVE  IF Shows(reads[i]) = {} THEN reads[i].miss = NoMiss
             ELSE reads[i].miss =
                    [path |-> reads[i].path,
                     queryId |-> Cardinality({j \in 1..Min(Shows(reads[i])) :
                                                 answers[j].by = "agent"}),
                     turnsLater |-> reads[i].at - answers[Min(Shows(reads[i]))].turn]
  <2>1. reads[i].after \in 0..Len(answers) /\ MissIsTrue(answers, reads[i])
    BY <1>1 DEF AllTold
  <2>2. Showing(answers, reads[i]) = Shows(reads[i])
    BY DEF Showing, Shows
  <2>3. CASE Shows(reads[i]) = {}
    BY <2>1, <2>2, <2>3 DEF MissIsTrue
  <2>4. CASE Shows(reads[i]) # {}
    <3> DEFINE S == Shows(reads[i])
               first == Min(S)
    <3>1. S \in SUBSET (1..Len(answers)) /\ 1..Len(answers) \in SUBSET Nat
      BY <1>2, <2>1 DEF Shows
    <3>2. S \in SUBSET Nat /\ S # {}
      BY <2>4, <3>1
    <3> HIDE DEF S
    <3>3. first \in S
      BY <3>2, MinIsFirst
    <3>4. first \in 1..Len(answers)
      BY <3>1, <3>3
    <3> HIDE DEF first
    <3>5. {j \in 1..first : answers[j].by = "agent"} = {j \in 1..first : j \in Agents(answers)}
      <4>1. \A j \in 1..first : j \in DOMAIN answers
        BY <1>2, <3>4
      <4> QED BY <4>1 DEF Agents
    <3>6. Cardinality({j \in 1..first : answers[j].by = "agent"}) = UpTo(Agents(answers), first)
      BY <3>5 DEF UpTo
    <3>7. reads[i].miss = [path |-> reads[i].path, queryId |-> UpTo(Agents(answers), first),
                           turnsLater |-> reads[i].at - answers[first].turn]
      BY <2>1, <2>2, <2>4 DEF MissIsTrue, S, first
    <3>8. reads[i].miss =
            [path |-> reads[i].path,
             queryId |-> Cardinality({j \in 1..first : answers[j].by = "agent"}),
             turnsLater |-> reads[i].at - answers[first].turn]
      BY <3>6, <3>7
    <3> QED BY <2>4, <3>8 DEF S, first
  <2> QED BY <2>3, <2>4
<1> QED BY <1>5, <1>6, <1>7 DEF MissesAreTrue

\* retrieval-miss.ts:3-7: whatever other sessions write, a read is told of a miss
\* exactly when an earlier answer to the model showed a line of the file, the
\* first such answer by its number and age, and the misses are kept in order.
THEOREM Misses == RSpec => []MissesAreTrue
<1>1. RSpec => []TrackInv
  BY TrackInit, TrackInductive, PTL DEF RSpec
<1> QED BY <1>1, TrackTells, PTL

\* With the tracker beside it a query is what it was: the theorems above hold of
\* RSpec too.
THEOREM TrackedQueriesAreQueries == RSpec => Spec
<1>1. RInit => Init
  BY DEF RInit
<1>2. [RNext]_rvars => [Next]_vars
  BY DEF RNext, Report, Unreported, Read, nextTurn, rvars, Next
<1> QED BY <1>1, <1>2, PTL DEF RSpec, Spec

=============================================================================
