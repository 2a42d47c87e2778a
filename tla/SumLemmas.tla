---------------------------- MODULE SumLemmas ------------------------------
(***************************************************************************)
(* Lemmas about the sum of a function over a finite set, as the community  *)
(* modules define it: a fold that takes the elements in an order nobody    *)
(* knows.  The fold exists, the order does not matter, and one more        *)
(* element adds its value.  Induction is by the least counterexample.      *)
(***************************************************************************)
EXTENDS Naturals, Sequences, FiniteSets, Functions, FiniteSetTheorems, NaturalsInduction,
        WellFoundedInduction, TLAPS

LEMMA Least ==
  ASSUME NEW T \in SUBSET Nat, T # {}
  PROVE  \E x \in T : \A y \in T : x =< y
<1>1. IsWellFoundedOn(OpToRel(<, Nat), Nat)
  BY NatLessThanWellFounded
<1>2. PICK x \in T : \A y \in T : ~ (<<y, x>> \in OpToRel(<, Nat))
  BY <1>1, WFMin
<1>3. \A y \in T : ~ (<<y, x>> \in {ss \in Nat \X Nat : ss[1] < ss[2]})
  BY <1>2 DEF OpToRel
<1>4. \A y \in T : ~(y < x)
  BY <1>3
<1> QED BY <1>4

\* One step of the fold that SumFunctionOnSet makes over the subsets of a set.
Unfold(g, c, z) ==
    IF z = {} THEN 0 ELSE LET x == CHOOSE x \in z : TRUE IN c[x] + g[z \ {x}]

\* g is that fold for the subsets of S, or for those of at most k elements.
FoldsAll(g, c, S) == g = [z \in SUBSET S |-> Unfold(g, c, z)]

FoldsSmall(g, c, S, k) ==
    \A z \in SUBSET S : Cardinality(z) =< k => g[z] = Unfold(g, c, z)

\* A fold of the sets smaller by one decides the next.
LEMMA UnfoldDependsOnSmaller ==
  ASSUME NEW S, IsFiniteSet(S), NEW c, NEW k \in Nat, NEW g, NEW h,
         \A z \in SUBSET S : Cardinality(z) =< k => g[z] = h[z],
         NEW z \in SUBSET S, Cardinality(z) =< k + 1
  PROVE  Unfold(g, c, z) = Unfold(h, c, z)
<1>1. CASE z = {}
  BY <1>1 DEF Unfold
<1>2. CASE z # {}
  <2> DEFINE x == CHOOSE x \in z : TRUE
  <2>1. x \in z
    BY <1>2
  <2> HIDE DEF x
  <2>2. IsFiniteSet(z) /\ Cardinality(z) \in Nat
    BY FS_Subset, FS_CardinalityType
  <2>3. Cardinality(z \ {x}) = Cardinality(z) - 1
    BY <2>1, <2>2, FS_RemoveElement
  <2>4. z \ {x} \in SUBSET S /\ Cardinality(z \ {x}) =< k
    BY <2>2, <2>3
  <2>5. g[z \ {x}] = h[z \ {x}]
    BY <2>4
  <2> QED BY <1>2, <2>5 DEF Unfold, x
<1> QED BY <1>1, <1>2

\* The fold exists for every finite set.
LEMMA FoldExists ==
  ASSUME NEW S, IsFiniteSet(S), NEW c
  PROVE  \E g : FoldsAll(g, c, S)
<1> DEFINE Good(k) == \E g : FoldsSmall(g, c, S, k)
           Bad == {k \in Nat : ~Good(k)}
<1>1. Bad = {}
  <2> SUFFICES ASSUME Bad # {} PROVE FALSE
    OBVIOUS
  <2>1. PICK k \in Bad : \A j \in Bad : k =< j
    <3>1. Bad \in SUBSET Nat
      OBVIOUS
    <3> HIDE DEF Bad
    <3> QED BY <3>1, Least
  <2>2. k \in Nat /\ ~Good(k)
    BY <2>1
  <2>3. CASE k = 0
    <3> DEFINE g == [z \in SUBSET S |-> 0]
    <3>1. \A z \in SUBSET S : Cardinality(z) =< 0 => z = {}
      <4> SUFFICES ASSUME NEW z \in SUBSET S, Cardinality(z) =< 0 PROVE z = {}
        OBVIOUS
      <4>1. IsFiniteSet(z) /\ Cardinality(z) \in Nat
        BY FS_Subset, FS_CardinalityType
      <4>2. Cardinality(z) = 0
        BY <4>1
      <4> QED BY <4>1, <4>2, FS_EmptySet
    <3>2. \A z \in SUBSET S : Cardinality(z) =< 0 => g[z] = Unfold(g, c, z)
      BY <3>1 DEF Unfold
    <3> QED BY <2>2, <2>3, <3>2 DEF FoldsSmall
  <2>4. CASE k # 0
    <3>1. k - 1 \in Nat /\ (k - 1) + 1 = k /\ k - 1 \notin Bad
      BY <2>1, <2>2, <2>4
    <3>2. PICK h : FoldsSmall(h, c, S, k - 1)
      BY <3>1
    <3> DEFINE g == [z \in SUBSET S |-> Unfold(h, c, z)]
    <3>3. \A z \in SUBSET S : Cardinality(z) =< k - 1 => g[z] = h[z]
      BY <3>2 DEF FoldsSmall
    <3>4. \A z \in SUBSET S : g[z] = Unfold(h, c, z)
      OBVIOUS
    <3> HIDE DEF g
    <3>5. \A z \in SUBSET S : Cardinality(z) =< k => Unfold(g, c, z) = Unfold(h, c, z)
      <4> SUFFICES ASSUME NEW z \in SUBSET S, Cardinality(z) =< (k - 1) + 1
                   PROVE  Unfold(g, c, z) = Unfold(h, c, z)
        BY <3>1
      <4> HIDE DEF Good, Bad
      <4> QED BY <3>1, <3>3, UnfoldDependsOnSmaller
    <3>6. FoldsSmall(g, c, S, k)
      BY <3>4, <3>5 DEF FoldsSmall
    <3> QED BY <2>2, <3>6
  <2> QED BY <2>3, <2>4
<1>2. Cardinality(S) \in Nat /\ \A z \in SUBSET S : Cardinality(z) =< Cardinality(S)
  <2> SUFFICES ASSUME NEW z \in SUBSET S
               PROVE  Cardinality(S) \in Nat /\ Cardinality(z) =< Cardinality(S)
    OBVIOUS
  <2> QED BY FS_Subset, FS_CardinalityType
<1>3. Good(Cardinality(S))
  BY <1>1, <1>2
<1>4. PICK h : FoldsSmall(h, c, S, Cardinality(S))
  BY <1>3
<1> DEFINE g == [z \in SUBSET S |-> Unfold(h, c, z)]
<1>5. \A z \in SUBSET S : g[z] = h[z]
  BY <1>2, <1>4 DEF FoldsSmall
<1>6. \A z \in SUBSET S : Unfold(g, c, z) = Unfold(h, c, z)
  <2> SUFFICES ASSUME NEW z \in SUBSET S PROVE Unfold(g, c, z) = Unfold(h, c, z)
    OBVIOUS
  <2>1. Cardinality(z) =< Cardinality(S) + 1 /\ Cardinality(S) \in Nat
    <3>1. Cardinality(z) \in Nat /\ Cardinality(z) =< Cardinality(S)
      BY <1>2, FS_Subset, FS_CardinalityType
    <3> QED BY <1>2, <3>1
  <2>2. \A y \in SUBSET S : Cardinality(y) =< Cardinality(S) => g[y] = h[y]
    BY <1>5
  <2> HIDE DEF g, Good, Bad
  <2> QED BY <2>1, <2>2, UnfoldDependsOnSmaller
<1>7. g = [z \in SUBSET S |-> Unfold(g, c, z)]
  BY <1>6
<1> HIDE DEF g, Good, Bad
<1> QED BY <1>7 DEF FoldsAll

LEMMA SumIsFold ==
  ASSUME NEW S, IsFiniteSet(S), NEW c
  PROVE  \E g : FoldsAll(g, c, S) /\ SumFunctionOnSet(c, S) = g[S]
<1> DEFINE f == CHOOSE g : FoldsAll(g, c, S)
<1>1. FoldsAll(f, c, S)
  BY FoldExists
<1>2. SumFunctionOnSet(c, S) = f[S]
  BY DEF SumFunctionOnSet, FoldFunctionOnSet, MapThenFoldSet, FoldsAll, Unfold
<1> QED BY <1>1, <1>2

\* Folds of functions that agree on S agree on its subsets.
LEMMA FoldsAgree ==
  ASSUME NEW S, IsFiniteSet(S), NEW T, S \subseteq T, NEW c, NEW d,
         \A i \in S : c[i] = d[i], NEW g, NEW h, FoldsAll(g, c, S), FoldsAll(h, d, T)
  PROVE  \A z \in SUBSET S : g[z] = h[z]
<1> DEFINE Bad == {k \in Nat : \E z \in SUBSET S : Cardinality(z) = k /\ g[z] # h[z]}
<1>1. Bad = {}
  <2> SUFFICES ASSUME Bad # {} PROVE FALSE
    OBVIOUS
  <2>1. PICK k \in Bad : \A j \in Bad : k =< j
    <3>1. Bad \in SUBSET Nat
      OBVIOUS
    <3> HIDE DEF Bad
    <3> QED BY <3>1, Least
  <2>2. PICK z \in SUBSET S : Cardinality(z) = k /\ g[z] # h[z]
    BY <2>1
  <2>3. g[z] = Unfold(g, c, z) /\ h[z] = Unfold(h, d, z)
    BY DEF FoldsAll
  <2>4. CASE z = {}
    BY <2>2, <2>3, <2>4 DEF Unfold
  <2>5. CASE z # {}
    <3> DEFINE x == CHOOSE x \in z : TRUE
    <3>1. x \in z
      BY <2>5
    <3>2. g[z] = c[x] + g[z \ {x}] /\ h[z] = d[x] + h[z \ {x}]
      BY <2>3, <2>5 DEF Unfold
    <3> HIDE DEF x
    <3>3. IsFiniteSet(z) /\ Cardinality(z) \in Nat
      BY FS_Subset, FS_CardinalityType
    <3>4. Cardinality(z \ {x}) = k - 1 /\ k - 1 \in Nat
      <4>1. Cardinality(z \ {x}) = Cardinality(z) - 1
        BY <3>1, <3>3, FS_RemoveElement
      <4>2. IsFiniteSet(z \ {x}) /\ Cardinality(z \ {x}) \in Nat
        BY <3>3, FS_Subset, FS_CardinalityType
      <4> QED BY <2>2, <4>1, <4>2
    <3>5. k - 1 \notin Bad
      <4>1. k \in Nat /\ ~(k =< k - 1)
        BY <2>1
      <4> QED BY <2>1, <4>1
    <3>6. g[z \ {x}] = h[z \ {x}]
      BY <3>4, <3>5
    <3>7. c[x] = d[x]
      BY <3>1
    <3> QED BY <2>2, <3>2, <3>6, <3>7
  <2> QED BY <2>4, <2>5
<1>2. \A z \in SUBSET S : Cardinality(z) \in Nat
  BY FS_Subset, FS_CardinalityType
<1> QED BY <1>1, <1>2

\* Any element may be taken out of a fold of sums first.
LEMMA FoldOutOfOrder ==
  ASSUME NEW S, IsFiniteSet(S), NEW c, \A i \in S : c[i] \in Nat,
         NEW g, FoldsAll(g, c, S)
  PROVE  \A z \in SUBSET S : /\ g[z] \in Nat
                             /\ \A x \in z : g[z] = c[x] + g[z \ {x}]
<1> DEFINE Fine(z) == g[z] \in Nat /\ \A x \in z : g[z] = c[x] + g[z \ {x}]
           Bad == {k \in Nat : \E z \in SUBSET S : Cardinality(z) = k /\ ~Fine(z)}
<1>1. Bad = {}
  <2> SUFFICES ASSUME Bad # {} PROVE FALSE
    OBVIOUS
  <2>1. PICK k \in Bad : \A j \in Bad : k =< j
    <3>1. Bad \in SUBSET Nat
      OBVIOUS
    <3> HIDE DEF Bad
    <3> QED BY <3>1, Least
  <2>2. PICK z \in SUBSET S : Cardinality(z) = k /\ ~Fine(z)
    BY <2>1
  <2>3. g[z] = Unfold(g, c, z)
    BY DEF FoldsAll
  <2>4. CASE z = {}
    BY <2>2, <2>3, <2>4 DEF Unfold
  <2>5. CASE z # {}
    <3> DEFINE y == CHOOSE y \in z : TRUE
    <3>1. y \in z
      BY <2>5
    <3>2. g[z] = c[y] + g[z \ {y}]
      BY <2>3, <2>5 DEF Unfold
    <3> HIDE DEF y
    <3>3. IsFiniteSet(z) /\ Cardinality(z) \in Nat
      BY FS_Subset, FS_CardinalityType
    <3>4. ASSUME NEW x \in z PROVE Fine(z \ {x})
      <4>1. Cardinality(z \ {x}) = Cardinality(z) - 1
        BY <3>3, FS_RemoveElement
      <4>2. IsFiniteSet(z \ {x}) /\ Cardinality(z \ {x}) \in Nat
        BY <3>3, FS_Subset, FS_CardinalityType
      <4>3. Cardinality(z \ {x}) = k - 1 /\ k - 1 \in Nat
        BY <2>2, <4>1, <4>2
      <4>4. k - 1 \notin Bad
        <5>1. k \in Nat /\ ~(k =< k - 1)
          BY <2>1
        <5> QED BY <2>1, <5>1
      <4>5. z \ {x} \in SUBSET S
        OBVIOUS
      <4> HIDE DEF Fine
      <4> QED BY <4>3, <4>4, <4>5
    <3>5. g[z] \in Nat
      BY <3>1, <3>2, <3>4, SMTT(30)
    <3>6. ASSUME NEW x \in z PROVE g[z] = c[x] + g[z \ {x}]
      <4>1. CASE x = y
        BY <3>2, <4>1
      <4>2. CASE x # y
        <5>1. x \in z \ {y} /\ y \in z \ {x}
          BY <3>1, <4>2
        <5>2. g[z \ {y}] = c[x] + g[(z \ {y}) \ {x}]
          BY <3>1, <3>4, <5>1
        <5>3. g[z \ {x}] = c[y] + g[(z \ {x}) \ {y}]
          BY <3>4, <5>1
        <5>4. (z \ {y}) \ {x} = (z \ {x}) \ {y}
          OBVIOUS
        <5> DEFINE rest == g[(z \ {x}) \ {y}]
        <5>5. rest \in Nat
          <6>1. IsFiniteSet(z \ {x}) /\ Cardinality(z \ {x}) = Cardinality(z) - 1
            BY <3>3, FS_RemoveElement
          <6>2. Cardinality((z \ {x}) \ {y}) = Cardinality(z) - 2
            <7> DEFINE w == z \ {x}
            <7>1. IsFiniteSet(w) /\ y \in w
              BY <5>1, <6>1
            <7>2. Cardinality(w \ {y}) = Cardinality(w) - 1
              <8> HIDE DEF w
              <8> QED BY <7>1, FS_RemoveElement
            <7> QED BY <3>3, <6>1, <7>2
          <6>3. Cardinality((z \ {x}) \ {y}) \in Nat
            BY <6>1, FS_Subset, FS_CardinalityType
          <6>4. k - 2 \in Nat /\ k - 2 \notin Bad
            <7>1. k \in Nat /\ ~(k =< k - 2) /\ k - 2 \in Nat
              BY <2>1, <2>2, <6>2, <6>3
            <7> QED BY <2>1, <7>1
          <6>5. (z \ {x}) \ {y} \in SUBSET S
            OBVIOUS
          <6>6. Fine((z \ {x}) \ {y})
            <7> HIDE DEF Fine
            <7> QED BY <2>2, <6>2, <6>4, <6>5
          <6> QED BY <6>6
        <5>6. c[x] \in Nat /\ c[y] \in Nat
          BY <3>1
        <5>7. g[(z \ {y}) \ {x}] = rest
          BY <5>4
        <5> HIDE DEF rest
        <5>8. g[z \ {y}] = c[x] + rest
          BY <5>2, <5>7
        <5>9. g[z \ {x}] = c[y] + rest
          BY <5>3 DEF rest
        <5>10. c[y] + (c[x] + rest) = c[x] + (c[y] + rest)
          BY <5>5, <5>6
        <5> QED BY <3>2, <5>8, <5>9, <5>10
      <4> QED BY <4>1, <4>2
    <3> QED BY <2>2, <3>5, <3>6
  <2> QED BY <2>4, <2>5
<1>2. \A z \in SUBSET S : Cardinality(z) \in Nat
  BY FS_Subset, FS_CardinalityType
<1> QED BY <1>1, <1>2

(* What SumFunctionOnSet returns. *)
LEMMA SumOfNone == ASSUME NEW c PROVE SumFunctionOnSet(c, {}) = 0
<1>1. IsFiniteSet({})
  BY FS_EmptySet
<1>2. PICK g : FoldsAll(g, c, {}) /\ SumFunctionOnSet(c, {}) = g[{}]
  BY <1>1, SumIsFold
<1> QED BY <1>2 DEF FoldsAll, Unfold

LEMMA SumIsNat ==
  ASSUME NEW S, IsFiniteSet(S), NEW c, \A i \in S : c[i] \in Nat
  PROVE  SumFunctionOnSet(c, S) \in Nat
<1>1. PICK g : FoldsAll(g, c, S) /\ SumFunctionOnSet(c, S) = g[S]
  BY SumIsFold
<1> QED BY <1>1, FoldOutOfOrder

LEMMA SumsAgree ==
  ASSUME NEW S, IsFiniteSet(S), NEW c, NEW d, \A i \in S : c[i] = d[i]
  PROVE  SumFunctionOnSet(c, S) = SumFunctionOnSet(d, S)
<1>1. PICK g : FoldsAll(g, c, S) /\ SumFunctionOnSet(c, S) = g[S]
  BY SumIsFold
<1>2. PICK h : FoldsAll(h, d, S) /\ SumFunctionOnSet(d, S) = h[S]
  BY SumIsFold
<1> QED BY <1>1, <1>2, FoldsAgree

LEMMA SumOfMore ==
  ASSUME NEW S, IsFiniteSet(S), NEW x, x \notin S,
         NEW c, \A i \in S \cup {x} : c[i] \in Nat
  PROVE  SumFunctionOnSet(c, S \cup {x}) = SumFunctionOnSet(c, S) + c[x]
<1> DEFINE T == S \cup {x}
<1>1. IsFiniteSet(T)
  BY FS_AddElement
<1>2. PICK g : FoldsAll(g, c, S) /\ SumFunctionOnSet(c, S) = g[S]
  BY SumIsFold
<1>3. PICK h : FoldsAll(h, c, T) /\ SumFunctionOnSet(c, T) = h[T]
  BY <1>1, SumIsFold
<1>4. g[S] = h[S]
  BY <1>2, <1>3, FoldsAgree
<1>5. h[T] = c[x] + h[T \ {x}] /\ T \ {x} = S
  BY <1>1, <1>3, FoldOutOfOrder
<1>6. g[S] \in Nat /\ c[x] \in Nat
  BY <1>2, FoldOutOfOrder
<1>7. h[S] \in Nat
  BY <1>4, <1>6
<1>8. SumFunctionOnSet(c, T) = c[x] + h[S]
  BY <1>3, <1>5
<1>9. SumFunctionOnSet(c, S) = h[S]
  BY <1>2, <1>4
<1>10. c[x] + h[S] = h[S] + c[x]
  BY <1>6, <1>7
<1> QED BY <1>8, <1>9, <1>10

\* The sum of a sequence of numbers, and of one number more.
LEMMA SumOfAppended ==
  ASSUME NEW s \in Seq(Nat), NEW n \in Nat
  PROVE  /\ SumFunction(s) \in Nat
         /\ SumFunction(Append(s, n)) = SumFunction(s) + n
<1> DEFINE t == Append(s, n)
           x == Len(s) + 1
<1>1. /\ DOMAIN s = 1..Len(s) /\ Len(s) \in Nat /\ x \notin DOMAIN s
      /\ DOMAIN t = DOMAIN s \cup {x} /\ t[x] = n
      /\ \A i \in DOMAIN s : t[i] = s[i] /\ s[i] \in Nat
  OBVIOUS
<1>2. IsFiniteSet(DOMAIN s)
  BY <1>1, FS_Interval
<1> HIDE DEF t, x
<1>3. \A i \in DOMAIN s \cup {x} : t[i] \in Nat
  BY <1>1
<1>4. SumFunctionOnSet(t, DOMAIN s \cup {x}) = SumFunctionOnSet(t, DOMAIN s) + t[x]
  BY <1>1, <1>2, <1>3, SumOfMore
<1>5. SumFunctionOnSet(t, DOMAIN s) = SumFunctionOnSet(s, DOMAIN s)
  BY <1>1, <1>2, SumsAgree
<1>6. SumFunctionOnSet(s, DOMAIN s) \in Nat
  BY <1>1, <1>2, SumIsNat
<1>7. SumFunction(t) = SumFunctionOnSet(t, DOMAIN s \cup {x})
  BY <1>1 DEF SumFunction
<1>8. SumFunction(t) = SumFunction(s) + n
  BY <1>1, <1>4, <1>5, <1>7 DEF SumFunction
<1> QED BY <1>6, <1>8 DEF SumFunction, t

LEMMA SumOfEmpty == SumFunction(<<>>) = 0
<1>1. DOMAIN <<>> = {}
  OBVIOUS
<1> QED BY <1>1, SumOfNone DEF SumFunction

\* c and d give every element of S a natural number, the same but for x, and
\* what their sums over S then are to each other.
DifferAt(c, d, S, x) ==
    /\ IsFiniteSet(S) /\ x \in S
    /\ \A i \in S : c[i] \in Nat /\ d[i] \in Nat
    /\ \A i \in S : i # x => d[i] = c[i]

SumsDifferAt(c, d, S, x) ==
    /\ SumFunctionOnSet(c, S) \in Nat /\ SumFunctionOnSet(d, S) \in Nat
    /\ SumFunctionOnSet(d, S) + c[x] = SumFunctionOnSet(c, S) + d[x]

\* One element of the set takes another value.
LEMMA SumOfChanged ==
  ASSUME NEW S, NEW x, NEW c, NEW d, DifferAt(c, d, S, x)
  PROVE  SumsDifferAt(c, d, S, x)
<1> USE DEF DifferAt, SumsDifferAt
<1> DEFINE T == S \ {x}
<1>1. IsFiniteSet(T)
  BY FS_Subset
<1>2. S = T \cup {x} /\ x \notin T
  OBVIOUS
<1>3. \A i \in T : c[i] \in Nat /\ d[i] \in Nat /\ c[i] = d[i]
  OBVIOUS
<1>4. c[x] \in Nat /\ d[x] \in Nat
  OBVIOUS
<1> HIDE DEF T
<1>5. /\ SumFunctionOnSet(c, T \cup {x}) = SumFunctionOnSet(c, T) + c[x]
      /\ SumFunctionOnSet(d, T \cup {x}) = SumFunctionOnSet(d, T) + d[x]
  <2>1. \A i \in T \cup {x} : c[i] \in Nat /\ d[i] \in Nat
    BY <1>3, <1>4
  <2> QED BY <1>1, <1>2, <2>1, SumOfMore
<1>6. SumFunctionOnSet(c, T) = SumFunctionOnSet(d, T) /\ SumFunctionOnSet(c, T) \in Nat
  BY <1>1, <1>3, SumsAgree, SumIsNat
<1>7. /\ SumFunctionOnSet(c, S) = SumFunctionOnSet(c, T) + c[x]
      /\ SumFunctionOnSet(d, S) = SumFunctionOnSet(c, T) + d[x]
  <2>1. /\ SumFunctionOnSet(c, S) = SumFunctionOnSet(c, T \cup {x})
        /\ SumFunctionOnSet(d, S) = SumFunctionOnSet(d, T \cup {x})
    BY <1>2, Zenon
  <2> QED BY <1>5, <1>6, <2>1
<1> QED BY <1>4, <1>6, <1>7
=============================================================================
