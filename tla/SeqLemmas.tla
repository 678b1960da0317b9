------------------------------ MODULE SeqLemmas ------------------------------
(***************************************************************************)
(* What taking one entry out of a list, or putting one at its end, does to *)
(* the set of its entries.  The pools keep their idle connections in such  *)
(* a list, without repetition.  Then what a proof needs to unroll a loop,  *)
(* to number a set in its order, and to count by rows and columns.         *)
(***************************************************************************)
EXTENDS Integers, Sequences, FiniteSets, SequencesExt, SequenceTheorems,
        FunctionTheorems, FiniteSetTheorems, WellFoundedInduction, TLAPS

NoRepeats(s) == \A i, j \in 1..Len(s) : s[i] = s[j] => i = j

-----------------------------------------------------------------------------

\* A nonempty set of positions has a first one: the search of _take_idle finds
\* a candidate whenever there is one.
LEMMA FirstExists ==
    ASSUME NEW P \in SUBSET Nat, P # {}
    PROVE  \E i \in P : \A j \in P : i <= j
<1>1. \E i \in P : \A j \in P : <<j, i>> \notin OpToRel(<, Nat)
  BY WFMin, NatLessThanWellFounded
<1>2. PICK i \in P : \A j \in P : <<j, i>> \notin OpToRel(<, Nat)
  BY <1>1
<1>3. ASSUME NEW j \in P PROVE i <= j
  <2>1. i \in Nat /\ j \in Nat
    OBVIOUS
  <2>2. ~(j < i)
    BY <1>2, <2>1 DEF OpToRel
  <2> QED
    BY <2>1, <2>2
<1> QED
  BY <1>2, <1>3

\* The list without its i-th entry.
LEMMA RemoveAtProperties ==
    ASSUME NEW S, NEW s \in Seq(S), NEW i \in 1..Len(s)
    PROVE  /\ RemoveAt(s, i) \in Seq(S)
           /\ Len(RemoveAt(s, i)) = Len(s) - 1
           /\ \A j \in 1..(Len(s) - 1) :
                RemoveAt(s, i)[j] = IF j < i THEN s[j] ELSE s[j + 1]
<1> DEFINE a == SubSeq(s, 1, i - 1)
           b == SubSeq(s, i + 1, Len(s))
<1>1. Len(s) \in Nat /\ \A j \in 1..Len(s) : s[j] \in S
  BY LenProperties, ElementOfSeq
<1>2. /\ a \in Seq(S) /\ Len(a) = i - 1
      /\ \A j \in 1..(i - 1) : a[j] = s[j]
  <2>1. i - 1 \in Int /\ \A j \in 1..(i - 1) : s[j] \in S
    BY <1>1
  <2>2. /\ a \in Seq(S)
        /\ Len(a) = IF 1 <= i - 1 THEN (i - 1) - 1 + 1 ELSE 0
        /\ \A j \in 1..((i - 1) - 1 + 1) : a[j] = s[1 + j - 1]
    BY <2>1, SubSeqProperties
  <2> QED
    BY <2>2, <1>1
<1>3. /\ b \in Seq(S) /\ Len(b) = Len(s) - i
      /\ \A j \in 1..(Len(s) - i) : b[j] = s[i + j]
  <2>1. i + 1 \in Int /\ Len(s) \in Int /\ \A j \in (i + 1)..Len(s) : s[j] \in S
    BY <1>1
  <2>2. /\ b \in Seq(S)
        /\ Len(b) = IF i + 1 <= Len(s) THEN Len(s) - (i + 1) + 1 ELSE 0
        /\ \A j \in 1..(Len(s) - (i + 1) + 1) : b[j] = s[(i + 1) + j - 1]
    BY <2>1, SubSeqProperties
  <2> QED
    BY <2>2, <1>1
<1>4. /\ a \o b \in Seq(S)
      /\ Len(a \o b) = Len(a) + Len(b)
      /\ \A j \in 1..(Len(a) + Len(b)) :
           (a \o b)[j] = IF j <= Len(a) THEN a[j] ELSE b[j - Len(a)]
  BY <1>2, <1>3, ConcatProperties
<1>5. RemoveAt(s, i) = a \o b
  BY DEF RemoveAt
<1> HIDE DEF a, b
<1>6. ASSUME NEW j \in 1..(Len(s) - 1)
      PROVE  (a \o b)[j] = IF j < i THEN s[j] ELSE s[j + 1]
  <2>1. (a \o b)[j] = IF j <= Len(a) THEN a[j] ELSE b[j - Len(a)]
    BY <1>1, <1>2, <1>3, <1>4
  <2>2. CASE j < i
    BY <2>1, <2>2, <1>1, <1>2
  <2>3. CASE j >= i
    <3>1. j - (i - 1) \in 1..(Len(s) - i) /\ i + (j - (i - 1)) = j + 1
      BY <2>3, <1>1
    <3>2. b[j - (i - 1)] = s[j + 1]
      BY <3>1, <1>3
    <3> QED
      BY <2>1, <2>3, <3>2, <1>1, <1>2
  <2>4. j < i \/ j >= i
    BY <1>1
  <2> QED
    BY <2>2, <2>3, <2>4, Zenon
<1> QED
  BY <1>1, <1>2, <1>3, <1>4, <1>5, <1>6

\* Taking an entry out takes it, and nothing else, from a list that names
\* each entry once.
LEMMA RemoveAtEntries ==
    ASSUME NEW S, NEW s \in Seq(S), NEW i \in 1..Len(s), NoRepeats(s)
    PROVE  /\ ToSet(RemoveAt(s, i)) = ToSet(s) \ {s[i]}
           /\ NoRepeats(RemoveAt(s, i))
<1> DEFINE t == RemoveAt(s, i)
<1>1. /\ t \in Seq(S) /\ Len(t) = Len(s) - 1
      /\ \A j \in 1..(Len(s) - 1) : t[j] = IF j < i THEN s[j] ELSE s[j + 1]
  BY RemoveAtProperties
<1>2. Len(s) \in Nat /\ DOMAIN s = 1..Len(s) /\ DOMAIN t = 1..Len(t)
  BY <1>1, LenProperties
<1> HIDE DEF t
<1>3. NoRepeats(t)
  BY <1>1, <1>2 DEF NoRepeats
<1>4. ToSet(t) \subseteq ToSet(s) \ {s[i]}
  BY <1>1, <1>2 DEF ToSet, NoRepeats
<1>5. ASSUME NEW j \in 1..Len(s), s[j] # s[i]
      PROVE  s[j] \in ToSet(t)
  <2>1. CASE j < i
    BY <2>1, <1>1, <1>2 DEF ToSet
  <2>2. CASE j > i
    <3>1. j - 1 \in 1..(Len(s) - 1) /\ t[j - 1] = s[j]
      BY <2>2, <1>1, <1>2
    <3> QED
      BY <3>1, <1>1, <1>2 DEF ToSet
  <2> QED
    BY <2>1, <2>2, <1>5, <1>2
<1>6. ToSet(s) \ {s[i]} \subseteq ToSet(t)
  BY <1>5, <1>2 DEF ToSet
<1> QED
  BY <1>3, <1>4, <1>6 DEF t

\* The same of the first entry: the one that has waited longest.
LEMMA TailEntries ==
    ASSUME NEW S, NEW s \in Seq(S), s # <<>>, NoRepeats(s)
    PROVE  /\ Tail(s) \in Seq(S) /\ Len(Tail(s)) = Len(s) - 1
           /\ Head(s) \in ToSet(s) /\ Head(s) \in S
           /\ ToSet(Tail(s)) = ToSet(s) \ {Head(s)}
           /\ NoRepeats(Tail(s))
<1>1. /\ Tail(s) \in Seq(S) /\ Len(Tail(s)) = Len(s) - 1 /\ Head(s) \in S
      /\ \A j \in 1..Len(Tail(s)) : Tail(s)[j] = s[j + 1]
  BY HeadTailProperties
<1>2. Len(s) \in Nat \ {0} /\ DOMAIN s = 1..Len(s) /\ Head(s) = s[1]
  BY EmptySeq, LenProperties
<1>3. DOMAIN Tail(s) = 1..Len(Tail(s))
  BY <1>1, LenProperties
<1>4. NoRepeats(Tail(s))
  BY <1>1, <1>2 DEF NoRepeats
<1>5. ToSet(Tail(s)) \subseteq ToSet(s) \ {Head(s)}
  BY <1>1, <1>2, <1>3 DEF ToSet, NoRepeats
<1>6. ASSUME NEW j \in 1..Len(s), s[j] # Head(s)
      PROVE  s[j] \in ToSet(Tail(s))
  <2>1. j - 1 \in 1..Len(Tail(s)) /\ Tail(s)[j - 1] = s[j]
    BY <1>1, <1>2, <1>6
  <2> QED
    BY <2>1, <1>3 DEF ToSet
<1>7. ToSet(s) \ {Head(s)} \subseteq ToSet(Tail(s))
  BY <1>6, <1>2 DEF ToSet
<1>8. Head(s) \in ToSet(s)
  BY <1>2 DEF ToSet
<1> QED
  BY <1>1, <1>4, <1>5, <1>7, <1>8

\* Putting at the end an entry the list does not have.
LEMMA AppendEntries ==
    ASSUME NEW S, NEW s \in Seq(S), NEW e \in S, NoRepeats(s), e \notin ToSet(s)
    PROVE  /\ Append(s, e) \in Seq(S) /\ Len(Append(s, e)) = Len(s) + 1
           /\ ToSet(Append(s, e)) = ToSet(s) \cup {e}
           /\ NoRepeats(Append(s, e))
<1> DEFINE t == Append(s, e)
<1>1. /\ t \in Seq(S) /\ Len(t) = Len(s) + 1 /\ t[Len(s) + 1] = e
      /\ \A j \in 1..Len(s) : t[j] = s[j]
  OBVIOUS
<1>2. Len(s) \in Nat /\ DOMAIN s = 1..Len(s) /\ DOMAIN t = 1..Len(t)
  BY <1>1, LenProperties
<1> HIDE DEF t
<1>3. \A j \in 1..Len(s) : s[j] # e
  BY <1>2 DEF ToSet
<1>4. NoRepeats(t)
  BY <1>1, <1>2, <1>3 DEF NoRepeats
<1>5. ToSet(t) \subseteq ToSet(s) \cup {e}
  BY <1>1, <1>2 DEF ToSet
<1>6. ToSet(s) \cup {e} \subseteq ToSet(t)
  <2>1. ToSet(s) \subseteq ToSet(t)
    BY <1>1, <1>2 DEF ToSet
  <2>2. e \in ToSet(t)
    BY <1>1, <1>2 DEF ToSet
  <2> QED
    BY <2>1, <2>2
<1> QED
  BY <1>1, <1>4, <1>5, <1>6 DEF t

\* A list has at most as many entries as its length.
LEMMA EntriesBounded ==
    ASSUME NEW S, NEW s \in Seq(S)
    PROVE  /\ IsFiniteSet(ToSet(s))
           /\ Cardinality(ToSet(s)) <= Len(s)
<1>1. Len(s) \in Nat /\ s \in [1..Len(s) -> S] /\ DOMAIN s = 1..Len(s)
  BY LenProperties
<1>2. s \in Surjection(1..Len(s), ToSet(s))
  BY <1>1 DEF Surjection, ToSet
<1>3. IsFiniteSet(1..Len(s)) /\ Cardinality(1..Len(s)) = Len(s)
  BY <1>1, FS_Interval
<1>4. /\ IsFiniteSet(ToSet(s))
      /\ Cardinality(ToSet(s)) <= Cardinality(1..Len(s))
  BY <1>2, <1>3, FS_Surjection
<1> QED
  BY <1>3, <1>4

\* Induction up to N, over a set.
LEMMA UpToInduction ==
    ASSUME NEW N \in Nat, NEW P \in SUBSET (0..N), 0 \in P,
           \A i \in 1..N : i - 1 \in P => i \in P
    PROVE  P = 0..N
<1> DEFINE Q == {i \in 0..N : i \notin P}
<1> SUFFICES ASSUME Q # {} PROVE FALSE
  OBVIOUS
<1>1. Q \in SUBSET Nat
  OBVIOUS
<1>2. PICK i \in Q : \A j \in Q : i <= j
  <2> HIDE DEF Q
  <2> QED
    BY <1>1, FirstExists
<1>3. i \in 1..N /\ i - 1 \notin Q
  BY <1>2
<1> QED
  BY <1>3

\* A list of values each made from the one before exists: what a recursive
\* function over positions needs to be one.
LEMMA SeriesExists ==
    ASSUME NEW S, NEW base \in S, NEW N \in Nat, NEW step \in [1..N -> [S -> S]]
    PROVE  \E f \in [0..N -> S] :
             f[0] = base /\ \A i \in 1..N : f[i] = step[i][f[i - 1]]
<1> DEFINE Upto(n) == \E f \in [0..n -> S] :
             f[0] = base /\ \A i \in 1..n : f[i] = step[i][f[i - 1]]
           P == {n \in 0..N : Upto(n)}
<1>1. Upto(0)
  <2> DEFINE f == [i \in 0..0 |-> base]
  <2>1. f \in [0..0 -> S] /\ f[0] = base
    OBVIOUS
  <2>2. 1..0 = {}
    OBVIOUS
  <2> QED
    BY <2>1, <2>2
<1>2. ASSUME NEW n \in 1..N, Upto(n - 1) PROVE Upto(n)
  <2>1. PICK f \in [0..(n - 1) -> S] :
          f[0] = base /\ \A i \in 1..(n - 1) : f[i] = step[i][f[i - 1]]
    BY <1>2
  <2> DEFINE g == [i \in 0..n |-> IF i = n THEN step[n][f[n - 1]] ELSE f[i]]
  <2>2. f[n - 1] \in S /\ step[n][f[n - 1]] \in S
    OBVIOUS
  <2>3. g \in [0..n -> S]
    BY <2>2
  <2>4. g[0] = base
    BY <2>1
  <2>5. ASSUME NEW i \in 1..n PROVE g[i] = step[i][g[i - 1]]
    <3>1. CASE i = n
      BY <3>1
    <3>2. CASE i # n
      <4>1. i \in 1..(n - 1) /\ g[i] = f[i] /\ g[i - 1] = f[i - 1]
        BY <3>2
      <4> QED
        BY <2>1, <4>1
    <3> QED
      BY <3>1, <3>2
  <2> QED
    BY <2>3, <2>4, <2>5
<1> HIDE DEF Upto
<1>3. 0 \in P /\ P \in SUBSET (0..N) /\ \A i \in 1..N : i - 1 \in P => i \in P
  BY <1>1, <1>2
<1>4. P = 0..N
  <2> HIDE DEF P
  <2> QED
    BY <1>3, UpToInduction
<1>5. Upto(N)
  BY <1>4
<1> QED
  BY <1>5 DEF Upto

\* The same for numbers, from 0.
LEMMA NumbersExist ==
    ASSUME NEW N \in Nat
    PROVE  \A step \in [1..N -> [Int -> Int]] :
             \E f \in [0..N -> Int] : f[0] = 0 /\ \A i \in 1..N : f[i] = step[i][f[i - 1]]
<1> DEFINE P(S, base, step) ==
             \E f \in [0..N -> S] : f[0] = base /\ \A i \in 1..N : f[i] = step[i][f[i - 1]]
<1>1. ASSUME NEW S, NEW base \in S, NEW step \in [1..N -> [S -> S]] PROVE P(S, base, step)
  BY <1>1, SeriesExists
<1>2. 0 \in Int
  OBVIOUS
<1> HIDE DEF P
<1>3. ASSUME NEW step \in [1..N -> [Int -> Int]] PROVE P(Int, 0, step)
  BY <1>1, <1>2, <1>3
<1> QED
  BY <1>3 DEF P

\* A list without repetition has as many entries as it is long.
LEMMA EntriesCounted ==
    ASSUME NEW S, NEW s \in Seq(S), NoRepeats(s)
    PROVE  IsFiniteSet(ToSet(s)) /\ Cardinality(ToSet(s)) = Len(s)
<1>1. Len(s) \in Nat /\ s \in [1..Len(s) -> S] /\ DOMAIN s = 1..Len(s)
  BY LenProperties
<1>2. s \in Bijection(1..Len(s), ToSet(s))
  BY <1>1 DEF Bijection, Injection, IsInjective, Surjection, ToSet, NoRepeats
<1>3. IsFiniteSet(1..Len(s)) /\ Cardinality(1..Len(s)) = Len(s)
  BY <1>1, FS_Interval
<1> QED
  BY <1>2, <1>3, FS_Bijection DEF ExistsBijection

\* A set with an entry of its own for each member of another has its size.
LEMMA OneEach ==
    ASSUME NEW P, NEW f, IsFiniteSet(P), \A i, j \in P : f[i] = f[j] => i = j
    PROVE  IsFiniteSet({f[i] : i \in P}) /\ Cardinality({f[i] : i \in P}) = Cardinality(P)
<1> DEFINE Q == {f[i] : i \in P}
           g == [i \in P |-> f[i]]
<1>1. g \in Bijection(P, Q)
  BY DEF Bijection, Injection, IsInjective, Surjection
<1> HIDE DEF g, Q
<1>2. IsFiniteSet(Q) /\ Cardinality(Q) = Cardinality(P)
  BY <1>1, FS_Bijection DEF ExistsBijection
<1> QED
  BY <1>2 DEF Q

\* The size of a union of sets that have nothing in common.
LEMMA DisjointUnion ==
    ASSUME NEW A, NEW B, IsFiniteSet(A), IsFiniteSet(B), A \cap B = {}
    PROVE  IsFiniteSet(A \cup B) /\ Cardinality(A \cup B) = Cardinality(A) + Cardinality(B)
<1>1. /\ IsFiniteSet(A \cup B)
      /\ Cardinality(A \cup B) = Cardinality(A) + Cardinality(B) - Cardinality(A \cap B)
  BY FS_Union
<1>2. Cardinality(A \cap B) = 0 /\ Cardinality(A) \in Nat /\ Cardinality(B) \in Nat
  BY FS_EmptySet, FS_CardinalityType
<1> QED
  BY <1>1, <1>2

\* The same, stated so that it can be cited of a step at hand.
HasSeries(S, base, N, step) ==
    \E f \in [0..N -> S] : f[0] = base /\ \A i \in 1..N : f[i] = step[i][f[i - 1]]

LEMMA SeriesHad ==
    ASSUME NEW S, NEW base \in S, NEW N \in Nat, NEW step \in [1..N -> [S -> S]]
    PROVE  HasSeries(S, base, N, step)
  BY SeriesExists DEF HasSeries

\* Some of the first numbers are so many.
LEMMA WithinNumbers ==
    ASSUME NEW n \in Nat, NEW S \in SUBSET (1..n)
    PROVE  S \in SUBSET Int /\ IsFiniteSet(S) /\ Cardinality(S) \in Nat
<1>1. IsFiniteSet(1..n)
  BY FS_Interval
<1>2. IsFiniteSet(S)
  BY <1>1, FS_Subset
<1> QED
  BY <1>2, FS_CardinalityType

\* A list of the members of S, each with as many R-before it as stand before it.
Ranking(g, S, R) ==
    /\ g \in Bijection(1..Cardinality(S), S)
    /\ \A k \in 1..Cardinality(S) : Cardinality({n \in S : <<n, g[k]>> \in R}) = k - 1

\* Numbering the members of a set by how many come before them is one to one.
LEMMA RankBijection ==
    ASSUME NEW S, IsFiniteSet(S), NEW R \in SUBSET (S \X S),
           \A m \in S : <<m, m>> \notin R,
           \A l, m, n \in S : <<l, m>> \in R /\ <<m, n>> \in R => <<l, n>> \in R,
           \A m, n \in S : m # n => <<m, n>> \in R \/ <<n, m>> \in R,
           NEW g, g = [k \in 1..Cardinality(S) |-> g[k]],
           \A k \in 1..Cardinality(S) : \A m \in S :
               Cardinality({n \in S : <<n, m>> \in R}) = k - 1 =>
                   g[k] \in S /\ Cardinality({n \in S : <<n, g[k]>> \in R}) = k - 1
    PROVE  Ranking(g, S, R)
<1> DEFINE Before_(m) == {n \in S : <<n, m>> \in R}
           rank == [m \in S |-> Cardinality(Before_(m)) + 1]
           C == Cardinality(S)
<1>1. C \in Nat
  BY FS_CardinalityType
<1>2. ASSUME NEW m \in S
      PROVE  IsFiniteSet(Before_(m)) /\ Cardinality(Before_(m)) \in Nat /\ Cardinality(Before_(m)) < C
  <2>1. Before_(m) \subseteq S \ {m}
    OBVIOUS
  <2>2. IsFiniteSet(S \ {m}) /\ Cardinality(S \ {m}) = C - 1
    BY FS_RemoveElement
  <2> HIDE DEF Before_
  <2> QED
    BY <1>1, <2>1, <2>2, FS_Subset, FS_CardinalityType
<1>3. \A m \in S : rank[m] = Cardinality(Before_(m)) + 1
  OBVIOUS
<1>13. rank \in [S -> 1..C]
  <2>1. ASSUME NEW m \in S PROVE Cardinality(Before_(m)) + 1 \in 1..C
    <3> HIDE DEF Before_
    <3> QED
      BY <1>1, <1>2
  <2> QED
    BY <2>1
<1>4. ASSUME NEW m \in S, NEW n \in S, m # n PROVE rank[m] # rank[n]
  <2>1. ASSUME NEW a \in S, NEW b \in S, <<a, b>> \in R PROVE rank[a] < rank[b]
    <3>1. Before_(a) \subseteq Before_(b) \ {a}
      BY <2>1
    <3>2. a \in Before_(b)
      BY <2>1
    <3>3. IsFiniteSet(Before_(b) \ {a}) /\ Cardinality(Before_(b) \ {a}) = Cardinality(Before_(b)) - 1
      BY <1>2, <3>2, FS_RemoveElement
    <3>4. Cardinality(Before_(a)) <= Cardinality(Before_(b) \ {a})
      BY <3>1, <3>3, FS_Subset
    <3>5. rank[a] = Cardinality(Before_(a)) + 1 /\ rank[b] = Cardinality(Before_(b)) + 1
      BY <1>3
    <3> HIDE DEF Before_, rank
    <3> QED
      BY <1>2, <3>3, <3>4, <3>5
  <2>2. rank[m] < rank[n] \/ rank[n] < rank[m]
    BY <1>4, <2>1
  <2>3. rank[m] \in Int /\ rank[n] \in Int
    BY <1>1, <1>13
  <2> HIDE DEF rank
  <2> QED
    BY <2>2, <2>3
<1> HIDE DEF rank
<1>5. rank \in Injection(S, 1..C)
  BY <1>13, <1>4 DEF Injection, IsInjective
<1>6. \A k \in 1..C : \E m \in S : rank[m] = k
  <2> DEFINE I == {rank[m] : m \in S}
  <2>1. rank \in Bijection(S, I)
    BY <1>13, <1>4 DEF Bijection, Injection, IsInjective, Surjection
  <2> HIDE DEF I
  <2>2. IsFiniteSet(I) /\ Cardinality(I) = C
    BY <2>1, FS_Bijection DEF ExistsBijection
  <2>3. I \subseteq 1..C
    BY <1>13 DEF I
  <2>4. IsFiniteSet(1..C) /\ Cardinality(1..C) = C
    <3> HIDE DEF C
    <3> QED
      BY <1>1, FS_Interval
  <2>5. I = 1..C
    BY <2>2, <2>3, <2>4, FS_Subset
  <2> QED
    BY <2>5 DEF I
<1>7. ASSUME NEW k \in 1..C PROVE g[k] \in S /\ rank[g[k]] = k
  <2>1. PICK m \in S : rank[m] = k
    BY <1>6
  <2>2. Cardinality(Before_(m)) = k - 1
    <3>1. rank[m] = Cardinality(Before_(m)) + 1 /\ Cardinality(Before_(m)) \in Nat
      BY <1>2, <1>3
    <3> HIDE DEF Before_
    <3> QED
      BY <2>1, <3>1
  <2>4. g[k] \in S /\ Cardinality(Before_(g[k])) = k - 1
    BY <2>2
  <2> HIDE DEF Before_
  <2> QED
    BY <1>1, <1>3, <2>4
<1>8. g \in [1..C -> S]
  BY <1>7
<1>9. \A k, j \in 1..C : g[k] = g[j] => k = j
  BY <1>7
<1>10. \A m \in S : \E k \in 1..C : g[k] = m
  <2> SUFFICES ASSUME NEW m \in S PROVE \E k \in 1..C : g[k] = m
    OBVIOUS
  <2>1. rank[m] \in 1..C
    BY <1>13
  <2>2. rank[g[rank[m]]] = rank[m] /\ g[rank[m]] \in S
    BY <1>7, <2>1
  <2>3. g[rank[m]] = m
    BY <1>4, <2>2
  <2> QED
    BY <2>1, <2>3
<1>11. \A k \in 1..C : Cardinality(Before_(g[k])) = k - 1
  <2> SUFFICES ASSUME NEW k \in 1..C PROVE Cardinality(Before_(g[k])) = k - 1
    OBVIOUS
  <2>1. PICK m \in S : m = g[k]
    BY <1>7
  <2>2. rank[m] = k /\ rank[m] = Cardinality(Before_(m)) + 1 /\ Cardinality(Before_(m)) \in Nat
    BY <1>2, <1>3, <1>7, <2>1
  <2> HIDE DEF Before_
  <2>3. Cardinality(Before_(m)) = k - 1
    BY <2>2
  <2> QED
    BY <2>1, <2>3
<1>12. g \in Bijection(1..C, S)
  BY <1>8, <1>9, <1>10 DEF Bijection, Injection, IsInjective, Surjection
<1> QED
  BY <1>11, <1>12 DEF Ranking

\* A later row of L starts where an earlier one has ended.
LEMMA RowsApart ==
    ASSUME NEW L \in Nat \ {0}, NEW a \in Int, NEW b \in Int, a < b
    PROVE  a * L + L <= b * L
<1>1. (b - a - 1) * L >= 0
  <2>1. b - a - 1 >= 0 /\ b - a - 1 \in Int /\ L >= 0 /\ L \in Int
    OBVIOUS
  <2>2. \A x, y \in Int : x >= 0 /\ y >= 0 => x * y >= 0
    OBVIOUS
  <2> QED
    BY <2>1, <2>2
<1>2. (b - a - 1) * L = b * L - a * L - L
  OBVIOUS
<1>3. a * L \in Int /\ b * L \in Int /\ (b - a - 1) * L \in Int
  OBVIOUS
<1> QED
  BY <1>1, <1>2, <1>3

\* Row and column say which it is.
LEMMA RowColumn ==
    ASSUME NEW L \in Nat \ {0}, NEW q \in Int, NEW r \in Int, NEW i \in 0..(L - 1), NEW j \in 0..(L - 1),
           q * L + i = r * L + j
    PROVE  q = r /\ i = j
<1>1. q < r => q * L + L <= r * L
  BY RowsApart
<1>2. r < q => r * L + L <= q * L
  BY RowsApart
<1>3. q * L \in Int /\ r * L \in Int
  OBVIOUS
<1>4. q = r
  BY <1>1, <1>2, <1>3
<1> QED
  BY <1>3, <1>4

LEMMA Divided ==
    ASSUME NEW L \in Nat \ {0}, NEW x \in Int
    PROVE  /\ x \div L \in Int /\ x % L \in 0..(L - 1)
           /\ x = (x \div L) * L + (x % L)
<1>1. x \div L \in Int /\ x % L \in 0..(L - 1)
  OBVIOUS
<1>2. x = L * (x \div L) + (x % L)
  OBVIOUS
<1>3. L * (x \div L) = (x \div L) * L
  BY <1>1
<1> QED
  BY <1>1, <1>2, <1>3

\* Passes of L calls each: call number j of a pass comes once in each.
LEMMA CallsOf ==
    ASSUME NEW R \in Int, NEW L \in Nat \ {0}, NEW j \in 1..L
    PROVE  [q \in 1..R |-> (q - 1) * L + j] \in
               Bijection(1..R, {k \in 1..(R * L) : ((k - 1) % L) + 1 = j})
<1> DEFINE K == {k \in 1..(R * L) : ((k - 1) % L) + 1 = j}
           f == [q \in 1..R |-> (q - 1) * L + j]
<1>0. R * L \in Int
  OBVIOUS
<1>1. ASSUME NEW q \in 1..R PROVE f[q] \in K
  <2>1. /\ 0 * L = 0 /\ q - 1 \in Int /\ (q - 1) * L \in Int /\ (q - 1) * L + L = q * L
        /\ q * L \in Int
    OBVIOUS
  <2>2. 0 < q - 1 => 0 * L + L <= (q - 1) * L
    BY <2>1, RowsApart
  <2>3. q < R => q * L + L <= R * L
    BY RowsApart
  <2>4. (q - 1) * L >= 0
    BY <2>1, <2>2
  <2>5. q * L <= R * L
    BY <1>0, <2>1, <2>3
  <2> DEFINE k == (q - 1) * L + j
  <2>6. k \in 1..(R * L) /\ k - 1 \in Int /\ k - 1 = (q - 1) * L + (j - 1)
    BY <1>0, <2>1, <2>4, <2>5
  <2> HIDE DEF k
  <2>7. k - 1 = ((k - 1) \div L) * L + ((k - 1) % L) /\ (k - 1) \div L \in Int /\ (k - 1) % L \in 0..(L - 1)
    BY <2>6, Divided
  <2>8. (k - 1) % L = j - 1
    <3>1. j - 1 \in 0..(L - 1) /\ q - 1 \in Int
      OBVIOUS
    <3>2. PICK d \in Int, m \in 0..(L - 1) : m = (k - 1) % L /\ k - 1 = d * L + m
      BY <2>7
    <3>3. d * L + m = (q - 1) * L + (j - 1)
      BY <2>6, <3>2
    <3>4. m = j - 1
      BY <3>1, <3>3, RowColumn
    <3> QED
      BY <3>2, <3>4
  <2>9. k \in K
    BY <2>6, <2>8
  <2> QED
    BY <2>9 DEF k
<1>2. ASSUME NEW q \in 1..R, NEW r \in 1..R, f[q] = f[r] PROVE q = r
  <2>1. (q - 1) * L + (j - 1) = (r - 1) * L + (j - 1)
    <3>1. (q - 1) * L + j = (r - 1) * L + j
      BY <1>2
    <3>2. (q - 1) * L \in Int /\ (r - 1) * L \in Int
      OBVIOUS
    <3> QED
      BY <3>1, <3>2
  <2>2. q - 1 \in Int /\ r - 1 \in Int /\ j - 1 \in 0..(L - 1)
    OBVIOUS
  <2>3. q - 1 = r - 1
    BY <2>1, <2>2, RowColumn
  <2> QED
    BY <2>3
<1>3. ASSUME NEW k \in K PROVE \E q \in 1..R : f[q] = k
  <2> DEFINE d == (k - 1) \div L
  <2>1. k \in 1..(R * L) /\ (k - 1) % L = j - 1 /\ k - 1 \in Int
    <3>1. k \in 1..(R * L) /\ ((k - 1) % L) + 1 = j /\ k - 1 \in Int
      BY <1>0
    <3>2. (k - 1) % L \in 0..(L - 1)
      BY <3>1, Divided
    <3> QED
      BY <3>1, <3>2
  <2>2. k - 1 = d * L + (j - 1) /\ d \in Int
    BY <2>1, Divided
  <2> HIDE DEF d
  <2>3. d * L \in Int /\ (0 - 1) * L = 0 - L /\ 0 * L = 0
    BY <2>2
  <2>4. d < 0 => d * L + L <= 0 * L
    BY <2>2, RowsApart
  <2>5. R < d + 1 => R * L <= d * L
    <3>1. R = d => R * L = d * L
      OBVIOUS
    <3>2. R < d => R * L + L <= d * L
      BY <2>2, RowsApart
    <3> QED
      BY <1>0, <2>2, <2>3, <3>1, <3>2
  <2>6. d >= 0
    BY <2>1, <2>2, <2>3, <2>4
  <2>7. d + 1 <= R
    BY <1>0, <2>1, <2>2, <2>3, <2>5
  <2>8. d + 1 \in 1..R /\ f[d + 1] = k
    <3>1. d + 1 \in 1..R /\ (d + 1) - 1 = d
      BY <2>2, <2>6, <2>7
    <3>2. f[d + 1] = d * L + j
      BY <3>1
    <3> QED
      BY <2>1, <2>2, <2>3, <3>1, <3>2
  <2> QED
    BY <2>8
<1>4. f \in [1..R -> K]
  <2>1. f = [q \in 1..R |-> f[q]]
    OBVIOUS
  <2> HIDE DEF f, K
  <2> QED
    BY <1>1, <2>1
<1> HIDE DEF f, K
<1>5. f \in Bijection(1..R, K)
  BY <1>2, <1>3, <1>4 DEF Bijection, Injection, IsInjective, Surjection
<1> QED
  BY <1>5 DEF f, K
=============================================================================
