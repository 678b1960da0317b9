------------------------------ MODULE RaceProofs ------------------------------
(***************************************************************************)
(* Proofs that the race of connects loses no attempt, refuses only when    *)
(* every address has refused and keeps its stagger, for any number of      *)
(* addresses, attempts in flight, delay and deadline.                      *)
(***************************************************************************)
EXTENDS Race, SeqLemmas

-----------------------------------------------------------------------------
(* What is left of the list when the failed entries are out.               *)

\* Survivors is built entry by entry from the front of the list.
LEMMA SurvivorsBuilt ==
    ASSUME pending \in Seq(1..Addresses)
    PROVE  \E f \in [0..Len(pending) -> Seq(1..Addresses)] :
             /\ f[0] = <<>>
             /\ \A i \in 1..Len(pending) :
                  f[i] = IF i \in Lost THEN f[i - 1] ELSE Append(f[i - 1], pending[i])
             /\ Survivors = f[Len(pending)]
<1> DEFINE N == Len(pending)
           S == Seq(1..Addresses)
           none == <<>>
           Def(f) == [i \in 0..N |->
                        IF i = 0 THEN <<>>
                        ELSE IF i \in Lost THEN f[i - 1] ELSE Append(f[i - 1], pending[i])]
           kept == CHOOSE f : f = Def(f)
           Put(i, s) == IF i \in Lost THEN s ELSE Append(s, pending[i])
           step == [i \in 1..N |-> [s \in S |-> Put(i, s)]]
<1>1. N \in Nat /\ none \in S
  BY LenProperties
<1>2. \A i \in 1..N : \A s \in S : Put(i, s) \in S
  BY AppendProperties, ElementOfSeq
<1>3. Survivors = kept[N]
  BY DEF Survivors
<1>4. \A f : Def(f) = [i \in 0..N |-> IF i = 0 THEN none ELSE Put(i, f[i - 1])]
  OBVIOUS
<1> HIDE DEF N, S, none, Put, Def
<1>5. step \in [1..N -> [S -> S]]
  BY <1>2
<1>6. PICK f \in [0..N -> S] : f[0] = none /\ \A i \in 1..N : f[i] = step[i][f[i - 1]]
  <2> HIDE DEF step
  <2> QED
    BY <1>1, <1>5, SeriesExists
<1>7. f = Def(f)
  <2>1. ASSUME NEW i \in 1..N PROVE f[i] = Put(i, f[i - 1])
    <3>1. i - 1 \in 0..N
      BY <1>1
    <3>2. f[i - 1] \in S
      BY <3>1
    <3> QED
      BY <1>6, <3>2
  <2>2. f = [i \in 0..N |-> IF i = 0 THEN none ELSE Put(i, f[i - 1])]
    BY <1>1, <1>6, <2>1
  <2> QED
    BY <2>2, <1>4
<1>8. kept = Def(kept)
  BY <1>7
<1> HIDE DEF kept
<1>9. kept = [i \in 0..N |-> IF i = 0 THEN none ELSE Put(i, kept[i - 1])]
  BY <1>4, <1>8
<1>10. kept[0] = none /\ \A i \in 1..N : kept[i] = Put(i, kept[i - 1])
  BY <1>1, <1>9
<1>11. \A i \in 0..N : kept[i] \in S
  <2> DEFINE P == {i \in 0..N : kept[i] \in S}
  <2>1. 0 \in P /\ P \in SUBSET (0..N) /\ \A i \in 1..N : i - 1 \in P => i \in P
    BY <1>1, <1>2, <1>10
  <2>2. P = 0..N
    <3> HIDE DEF P
    <3> QED
      BY <1>1, <2>1, UpToInduction
  <2> QED
    BY <2>2
<1>12. kept \in [0..N -> S]
  BY <1>9, <1>11
<1> QED
  BY <1>3, <1>10, <1>12 DEF N, S, none, Put

Increasing(s) == \A i, j \in 1..Len(s) : i < j => s[i] < s[j]

\* The survivors are the entries that have not failed, in their order.
LEMMA SurvivorsKept ==
    ASSUME pending \in Seq(1..Addresses), Increasing(pending)
    PROVE  /\ Survivors \in Seq(1..Addresses) /\ Len(Survivors) <= Len(pending)
           /\ Increasing(Survivors)
           /\ \A j \in 1..Len(Survivors) : \E i \in 1..Len(pending) :
                Survivors[j] = pending[i] /\ i \notin Lost
           /\ \A i \in 1..Len(pending) : i \notin Lost =>
                \E j \in 1..Len(Survivors) : Survivors[j] = pending[i]
<1> DEFINE N == Len(pending)
           S == Seq(1..Addresses)
<1>1. N \in Nat /\ \A i \in 1..N : pending[i] \in 1..Addresses
  BY LenProperties, ElementOfSeq
<1>2. PICK f \in [0..N -> S] :
        /\ f[0] = <<>>
        /\ \A i \in 1..N : f[i] = IF i \in Lost THEN f[i - 1] ELSE Append(f[i - 1], pending[i])
        /\ Survivors = f[N]
  BY SurvivorsBuilt
<1> DEFINE Good(n) ==
             /\ Len(f[n]) \in Nat /\ Len(f[n]) <= n
             /\ Increasing(f[n])
             /\ \A j \in 1..Len(f[n]) : \E i \in 1..n : f[n][j] = pending[i] /\ i \notin Lost
             /\ \A i \in 1..n : i \notin Lost => \E j \in 1..Len(f[n]) : f[n][j] = pending[i]
           P == {n \in 0..N : Good(n)}
<1>3. Good(0)
  BY <1>2 DEF Increasing
<1>4. ASSUME NEW n \in 1..N, Good(n - 1) PROVE Good(n)
  <2> DEFINE s == f[n - 1]
  <2>0. n - 1 \in 0..N
    BY <1>1
  <2>1. s \in S
    BY <2>0
  <2>2. CASE n \in Lost
    <3>1. f[n] = f[n - 1]
      BY <2>2, <1>2
    <3>2. \A i \in 1..n : i \notin Lost => i \in 1..(n - 1)
      BY <2>2
    <3>3. \A i \in 1..(n - 1) : i \in 1..n
      OBVIOUS
    <3> QED
      BY <3>1, <3>2, <3>3, <1>4
  <2>3. CASE n \notin Lost
    <3>1. f[n] = Append(s, pending[n]) /\ pending[n] \in 1..Addresses
      BY <2>3, <1>2, <1>1
    <3>2. /\ Len(f[n]) = Len(s) + 1 /\ f[n][Len(s) + 1] = pending[n]
          /\ \A j \in 1..Len(s) : f[n][j] = s[j]
      BY <3>1, <2>1, AppendProperties
    <3>3. \A j \in 1..Len(s) : s[j] < pending[n]
      <4>1. \A i \in 1..(n - 1) : pending[i] < pending[n]
        BY <1>1 DEF Increasing
      <4> QED
        BY <1>4, <4>1
    <3> HIDE DEF s
    <3>4. Len(s) \in Nat /\ Len(s) <= n - 1 /\ Increasing(s)
      BY <1>4 DEF s
    <3>5. Increasing(f[n])
      <4> SUFFICES ASSUME NEW i \in 1..Len(f[n]), NEW j \in 1..Len(f[n]), i < j
                   PROVE  f[n][i] < f[n][j]
        BY DEF Increasing
      <4>1. i \in 1..Len(s)
        BY <3>2, <3>4
      <4>2. CASE j \in 1..Len(s)
        BY <4>1, <4>2, <3>2, <3>4 DEF Increasing
      <4>3. CASE j = Len(s) + 1
        BY <4>1, <4>3, <3>2, <3>3
      <4> QED
        BY <4>2, <4>3, <3>2, <3>4
    <3>6. ASSUME NEW j \in 1..Len(f[n])
          PROVE  \E i \in 1..n : f[n][j] = pending[i] /\ i \notin Lost
      <4>1. CASE j \in 1..Len(s)
        <5>1. PICK i \in 1..(n - 1) : s[j] = pending[i] /\ i \notin Lost
          BY <4>1, <1>4 DEF s
        <5>2. i \in 1..n /\ f[n][j] = pending[i]
          BY <5>1, <4>1, <3>2
        <5> QED
          BY <5>1, <5>2
      <4>2. CASE j = Len(s) + 1
        BY <4>2, <3>2, <2>3
      <4> QED
        BY <4>1, <4>2, <3>2, <3>4
    <3>7. ASSUME NEW i \in 1..n, i \notin Lost
          PROVE  \E j \in 1..Len(f[n]) : f[n][j] = pending[i]
      <4>1. CASE i = n
        BY <4>1, <3>2, <3>4
      <4>2. CASE i # n
        <5>1. i \in 1..(n - 1)
          BY <4>2
        <5>2. PICK j \in 1..Len(s) : s[j] = pending[i]
          BY <5>1, <1>4, <3>7 DEF s
        <5>3. j \in 1..Len(f[n]) /\ f[n][j] = pending[i]
          BY <5>2, <3>2, <3>4
        <5> QED
          BY <5>3
      <4> QED
        BY <4>1, <4>2
    <3> QED
      BY <3>2, <3>4, <3>5, <3>6, <3>7
  <2> QED
    BY <2>2, <2>3
<1>5. 0 \in P /\ P \in SUBSET (0..N) /\ \A n \in 1..N : n - 1 \in P => n \in P
  <2> HIDE DEF Good
  <2> QED
    BY <1>1, <1>3, <1>4
<1>6. P = 0..N
  <2> HIDE DEF P, N
  <2> QED
    BY <1>1, <1>5, UpToInduction
<1>7. Good(N) /\ f[N] \in S
  <2> HIDE DEF Good
  <2> QED
    BY <1>1, <1>6
<1> QED
  BY <1>2, <1>7

-----------------------------------------------------------------------------
(* The invariant.                                                          *)

\* Addresses are tried in order: those before next have been, no other has.
TriedInOrder ==
    /\ \A a \in 1..Addresses : status[a] = "untried" <=> a >= next
    /\ \A i \in 1..Len(pending) : pending[i] < next

\* What is undecided, or has connected, is in the list.
Tracked ==
    verdict = "racing" =>
        /\ Increasing(pending)
        /\ \A a \in 1..Addresses : status[a] \in {"connecting", "connected"} =>
             \E i \in 1..Len(pending) : pending[i] = a

\* When the next attempt may start goes with when the last one did.
StaggerKept ==
    /\ mishap \/ nextStart = lastStart + Delay
    /\ nextStart <= now + Delay

\* The inductive invariant.  That refused means all refused needs the list to
\* hold whatever has not failed, and every address before next to be decided.
Inv == TypeOK /\ TriedInOrder /\ Tracked /\ StaggerKept /\ RefusedMeansAllRefused

LEMMA InvInit == Init => Inv
<1> SUFFICES ASSUME Init PROVE Inv
  OBVIOUS
<1>1. pending = <<>> /\ Len(pending) = 0 /\ pending \in Seq(1..Addresses)
  BY DEF Init
<1>2. TypeOK
  <2>1. /\ Deadline \in Nat /\ Delay \in Nat /\ Addresses \in Nat /\ Addresses >= 1
        /\ MaxAttempts \in Nat /\ lastStart \in Int
    BY RaceAssumption DEF Init
  <2>2. status \in [1..Addresses -> {"untried", "connecting", "connected", "refused"}]
    BY DEF Init
  <2>3. /\ now \in 0..Deadline /\ Len(pending) <= MaxAttempts
        /\ next \in 1..(Addresses + 1) /\ nextStart \in 0..(Deadline + Delay)
        /\ winner \in 0..Addresses
    BY <1>1, <2>1 DEF Init, Nobody
  <2> QED
    BY <1>1, <2>1, <2>2, <2>3 DEF Init, TypeOK
<1>3. TriedInOrder /\ Tracked /\ RefusedMeansAllRefused
  BY <1>1, RaceAssumption
     DEF Init, TriedInOrder, Tracked, Increasing, RefusedMeansAllRefused
<1>4. StaggerKept
  BY RaceAssumption DEF Init, StaggerKept
<1> QED
  BY <1>2, <1>3, <1>4 DEF Inv

LEMMA InvStart ==
    ASSUME Inv, NEW how \in {"connecting", "connected", "refused", "no_socket"},
           StartAttempt(how)
    PROVE  Inv'
<1> USE DEF StartAttempt, Racing
<1>1. /\ next \in 1..Addresses /\ now \in 0..Deadline /\ next \in Nat
      /\ Len(pending) \in Nat /\ Len(pending) < MaxAttempts
      /\ now >= nextStart /\ pending \in Seq(1..Addresses)
      /\ \A i \in 1..Len(pending) : pending[i] \in 1..Addresses
  BY RaceAssumption, LenProperties, ElementOfSeq DEF Inv, TypeOK, TurnHasCome
<1>2. /\ status' = [status EXCEPT ![next] = IF how = "no_socket" THEN "refused" ELSE how]
      /\ status' \in [1..Addresses -> {"untried", "connecting", "connected", "refused"}]
      /\ \A a \in 1..Addresses : a # next => status'[a] = status[a]
      /\ status'[next] = IF how = "no_socket" THEN "refused" ELSE how
  BY <1>1 DEF Inv, TypeOK
<1>3. CASE how = "no_socket"
  <2>1. pending' = pending
    BY <1>3
  <2>2. TypeOK'
    BY <1>1, <1>2, <2>1, RaceAssumption DEF Inv, TypeOK, TimeLeft
  <2>3. TriedInOrder'
    BY <1>1, <1>2, <1>3, <2>1 DEF Inv, TriedInOrder, TypeOK
  <2>4. Tracked'
    BY <1>1, <1>2, <1>3, <2>1 DEF Inv, Tracked, Increasing
  <2>5. StaggerKept' /\ RefusedMeansAllRefused'
    BY <1>1, <1>3, RaceAssumption DEF StaggerKept, RefusedMeansAllRefused
  <2> QED
    BY <2>2, <2>3, <2>4, <2>5 DEF Inv
<1>4. CASE how # "no_socket"
  <2>1. /\ pending' = Append(pending, next)
        /\ pending' \in Seq(1..Addresses)
        /\ Len(pending') = Len(pending) + 1
        /\ \A i \in 1..Len(pending) : pending'[i] = pending[i]
        /\ pending'[Len(pending) + 1] = next
    BY <1>1, <1>4, AppendProperties
  <2>2. TypeOK'
    BY <1>1, <1>2, <2>1, RaceAssumption DEF Inv, TypeOK, TimeLeft
  <2>3. TriedInOrder'
    <3>1. \A a \in 1..Addresses : status'[a] = "untried" <=> a >= next'
      BY <1>1, <1>2, <1>4 DEF Inv, TriedInOrder
    <3>2. ASSUME NEW i \in 1..Len(pending') PROVE pending'[i] < next'
      <4>1. i \in 1..Len(pending) \/ i = Len(pending) + 1
        BY <1>1, <2>1
      <4> QED
        BY <1>1, <2>1, <4>1 DEF Inv, TriedInOrder
    <3> QED
      BY <3>1, <3>2 DEF TriedInOrder
  <2>4. Tracked'
    <3>1. Increasing(pending)'
      <4> SUFFICES ASSUME NEW i \in 1..Len(pending'), NEW j \in 1..Len(pending'), i < j
                   PROVE  pending'[i] < pending'[j]
        BY DEF Increasing
      <4>1. i \in 1..Len(pending)
        BY <1>1, <2>1
      <4>2. CASE j \in 1..Len(pending)
        BY <4>1, <4>2, <2>1 DEF Inv, Tracked, Increasing
      <4>3. CASE j = Len(pending) + 1
        BY <4>1, <4>3, <2>1 DEF Inv, TriedInOrder
      <4> QED
        BY <4>2, <4>3, <1>1, <2>1
    <3>2. ASSUME NEW a \in 1..Addresses, status'[a] \in {"connecting", "connected"}
          PROVE  \E i \in 1..Len(pending') : pending'[i] = a
      <4>1. CASE a = next
        BY <4>1, <1>1, <2>1
      <4>2. CASE a # next
        <5>1. PICK i \in 1..Len(pending) : pending[i] = a
          BY <4>2, <3>2, <1>2 DEF Inv, Tracked
        <5>2. i \in 1..Len(pending') /\ pending'[i] = a
          BY <5>1, <1>1, <2>1
        <5> QED
          BY <5>2
      <4> QED
        BY <4>1, <4>2
    <3> QED
      BY <3>1, <3>2 DEF Tracked
  <2>5. StaggerKept' /\ RefusedMeansAllRefused'
    BY <1>1, RaceAssumption DEF StaggerKept, RefusedMeansAllRefused
  <2> QED
    BY <2>2, <2>3, <2>4, <2>5 DEF Inv
<1> QED
  BY <1>3, <1>4

\* A failure brings the next start forward, and is remembered.
LEMMA Punctual ==
    ASSUME Inv, NoneYet
    PROVE  StaggerKept'
<1>1. now \in Int /\ Delay \in Nat /\ now' = now /\ lastStart' = lastStart
  BY RaceAssumption DEF Inv, TypeOK, NoneYet
<1>2. CASE Lost # {}
  <2>1. mishap' = TRUE /\ nextStart' = now
    BY <1>2 DEF NoneYet
  <2> QED
    BY <1>1, <2>1 DEF StaggerKept
<1>3. CASE Lost = {}
  <2>1. mishap' = mishap /\ nextStart' = nextStart
    BY <1>3 DEF NoneYet, Inv, TypeOK
  <2> QED
    BY <1>1, <2>1 DEF StaggerKept, Inv
<1> QED
  BY <1>2, <1>3

LEMMA InvNoneYet ==
    ASSUME Inv, NoneYet
    PROVE  Inv'
<1> USE DEF NoneYet, Racing
<1>1. pending \in Seq(1..Addresses) /\ Increasing(pending) /\ Len(pending) \in Nat
  BY LenProperties DEF Inv, TypeOK, Tracked
<1>2. /\ Survivors \in Seq(1..Addresses) /\ Len(Survivors) <= Len(pending)
      /\ Increasing(Survivors)
      /\ \A j \in 1..Len(Survivors) : \E i \in 1..Len(pending) :
           Survivors[j] = pending[i] /\ i \notin Lost
      /\ \A i \in 1..Len(pending) : i \notin Lost =>
           \E j \in 1..Len(Survivors) : Survivors[j] = pending[i]
  BY <1>1, SurvivorsKept
<1>3. pending' = Survivors /\ Len(Survivors) \in Nat
  BY <1>2, LenProperties
<1>4. CASE Exhausted
  <2>1. Survivors = <<>> /\ Len(Survivors) = 0 /\ next > Addresses
    BY <1>4 DEF Exhausted
  <2>2. ASSUME NEW a \in 1..Addresses PROVE status[a] = "refused"
    <3>1. status[a] \in {"untried", "connecting", "connected", "refused"}
      BY DEF Inv, TypeOK
    <3>2. status[a] # "untried"
      BY <2>1, RaceAssumption DEF Inv, TriedInOrder, TypeOK
    <3>3. \A i \in 1..Len(pending) : status[pending[i]] = "refused"
      BY <1>2, <2>1 DEF Lost
    <3> QED
      BY <3>1, <3>2, <3>3 DEF Inv, Tracked
  <2>3. RefusedMeansAllRefused'
    BY <2>2 DEF RefusedMeansAllRefused
  <2>4. TypeOK'
    BY <1>2, <1>3, <1>4, <2>1, RaceAssumption DEF Inv, TypeOK
  <2>5. TriedInOrder' /\ Tracked'
    BY <1>3, <1>4, <2>1 DEF Inv, TriedInOrder, Tracked
  <2>6. StaggerKept'
    BY Punctual
  <2> QED
    BY <2>3, <2>4, <2>5, <2>6 DEF Inv
<1>5. CASE ~Exhausted
  <2>1. TypeOK'
    BY <1>1, <1>2, <1>3, <1>5, RaceAssumption DEF Inv, TypeOK
  <2>2. TriedInOrder'
    <3>1. ASSUME NEW j \in 1..Len(Survivors) PROVE Survivors[j] < next
      BY <1>2 DEF Inv, TriedInOrder
    <3> QED
      BY <1>3, <3>1 DEF Inv, TriedInOrder
  <2>3. Tracked'
    <3>1. ASSUME NEW a \in 1..Addresses, status[a] \in {"connecting", "connected"}
          PROVE  \E j \in 1..Len(Survivors) : Survivors[j] = a
      <4>1. PICK i \in 1..Len(pending) : pending[i] = a
        BY <3>1 DEF Inv, Tracked
      <4>2. i \notin Lost
        BY <3>1, <4>1 DEF Lost
      <4> QED
        BY <1>2, <4>1, <4>2
    <3> QED
      BY <1>2, <1>3, <3>1 DEF Tracked
  <2>4. StaggerKept' /\ RefusedMeansAllRefused'
    BY <1>5, Punctual DEF RefusedMeansAllRefused
  <2> QED
    BY <2>1, <2>2, <2>3, <2>4 DEF Inv
<1> QED
  BY <1>4, <1>5

\* A failed entry is taken out before the index is used, so the winner may not
\* be the entry found connected, and there may be none: but it is an address.
LEMMA InvWon ==
    ASSUME Inv, Won
    PROVE  Inv'
<1> USE DEF Won, Racing
<1>1. pending \in Seq(1..Addresses) /\ Increasing(pending) /\ Len(pending) \in Nat
  BY LenProperties DEF Inv, TypeOK, Tracked
<1>2. Up \in SUBSET Nat /\ Up # {} /\ \A i \in Up : i >= 1
  BY <1>1 DEF Up
<1>3. FoundAt \in Up
  <2>1. \E i \in Up : \A j \in Up : i <= j
    BY <1>2, FirstExists
  <2> QED
    BY <2>1 DEF FoundAt, Min
<1>4. winner' \in 0..Addresses
  <2>1. CASE FoundAt <= Len(Survivors)
    <3>1. Survivors \in Seq(1..Addresses) /\ FoundAt \in 1..Len(Survivors)
      BY <1>1, <1>2, <1>3, <2>1, SurvivorsKept, LenProperties
    <3>2. Survivors[FoundAt] \in 1..Addresses
      BY <3>1, ElementOfSeq
    <3> QED
      BY <2>1, <3>2
  <2>2. CASE ~(FoundAt <= Len(Survivors))
    BY <2>2 DEF Inv, TypeOK
  <2> QED
    BY <2>1, <2>2
<1>5. verdict' \in {"won", "out_of_range"}
  OBVIOUS
<1>9. pending' \in Seq(1..Addresses) /\ Len(pending') = 0 /\ pending' = <<>>
  OBVIOUS
<1>6. TypeOK'
  BY <1>9, <1>4, <1>5, RaceAssumption DEF Inv, TypeOK, history
<1>7. TriedInOrder' /\ Tracked' /\ StaggerKept' /\ RefusedMeansAllRefused'
  BY <1>9, <1>5
     DEF Inv, TriedInOrder, Tracked, StaggerKept, RefusedMeansAllRefused, history
<1> QED
  BY <1>6, <1>7 DEF Inv

LEMMA InvNext == Inv /\ [Next]_vars => Inv'
<1> SUFFICES ASSUME Inv, [Next]_vars PROVE Inv'
  OBVIOUS
<1>1. CASE DeadlinePassed
  <2>0. pending' \in Seq(1..Addresses) /\ Len(pending') = 0 /\ pending' = <<>>
    BY <1>1 DEF DeadlinePassed
  <2>1. TypeOK'
    BY <1>1, <2>0, RaceAssumption DEF Inv, TypeOK, DeadlinePassed, Racing, history
  <2>2. TriedInOrder' /\ Tracked' /\ StaggerKept' /\ RefusedMeansAllRefused'
    BY <1>1, <2>0
       DEF Inv, TriedInOrder, Tracked, StaggerKept, RefusedMeansAllRefused, DeadlinePassed,
           history
  <2> QED
    BY <2>1, <2>2 DEF Inv
<1>2. CASE NothingToStart
  BY <1>2 DEF NothingToStart, Inv, TypeOK, TriedInOrder, Tracked, Increasing, StaggerKept,
              RefusedMeansAllRefused, history
<1>3. CASE Won
  BY <1>3, InvWon
<1>4. CASE NoneYet
  BY <1>4, InvNoneYet
<1>5. CASE \E how \in {"connecting", "connected", "refused", "no_socket"} : StartAttempt(how)
  BY <1>5, InvStart
<1>6. CASE Tick
  BY <1>6, RaceAssumption
     DEF Tick, Inv, TypeOK, TriedInOrder, Tracked, Increasing, StaggerKept,
         RefusedMeansAllRefused, history
<1>7. CASE \E a \in 1..Addresses : NetworkAnswers(a)
  <2>1. PICK a \in 1..Addresses : NetworkAnswers(a)
    BY <1>7
  <2>2. PICK s \in {"connected", "refused"} : status' = [status EXCEPT ![a] = s]
    BY <2>1 DEF NetworkAnswers
  <2>3. /\ status' \in [1..Addresses -> {"untried", "connecting", "connected", "refused"}]
        /\ status'[a] = s /\ \A b \in 1..Addresses : b # a => status'[b] = status[b]
    BY <2>2 DEF Inv, TypeOK
  <2>4. TypeOK'
    BY <2>1, <2>3 DEF NetworkAnswers, Inv, TypeOK, history
  <2>5. TriedInOrder' /\ Tracked' /\ StaggerKept' /\ RefusedMeansAllRefused'
    BY <2>1, <2>3 DEF NetworkAnswers, Inv, TriedInOrder, Tracked, Increasing, StaggerKept,
                      RefusedMeansAllRefused, history
  <2> QED
    BY <2>4, <2>5 DEF Inv
<1>8. CASE UNCHANGED vars
  BY <1>8 DEF vars, Inv, TypeOK, TriedInOrder, Tracked, Increasing, StaggerKept,
              RefusedMeansAllRefused, history
<1> QED
  BY <1>1, <1>2, <1>3, <1>4, <1>5, <1>6, <1>7, <1>8 DEF Next, Pass

LEMMA InvAlways == Spec => []Inv
BY InvInit, InvNext, PTL DEF Spec

-----------------------------------------------------------------------------
(* What follows.                                                           *)

\* The state of the race keeps its types, and no attempt outlives the race.
THEOREM TypeCorrect == Spec => []TypeOK
<1>1. Inv => TypeOK
  BY DEF Inv
<1> QED
  BY <1>1, InvAlways, PTL

\* "Connection refused" is said only when every address was tried and failed.
THEOREM RefusalsJustified == Spec => []RefusedMeansAllRefused
<1>1. Inv => RefusedMeansAllRefused
  BY DEF Inv
<1> QED
  BY <1>1, InvAlways, PTL

\* No attempt is lost track of while others are started, fail and are taken out.
THEOREM AttemptsKept == Spec => []NoAttemptLost
<1>1. Inv => NoAttemptLost
  <2> SUFFICES ASSUME Inv, verdict = "racing" PROVE NoAttemptLost
    BY DEF NoAttemptLost
  <2>1. Increasing(pending) /\ Len(pending) \in Nat
        /\ \A i \in 1..Len(pending) : pending[i] \in 1..Addresses
    BY LenProperties, ElementOfSeq DEF Inv, Tracked, TypeOK
  <2>2. ASSUME NEW a \in 1..Addresses, status[a] \in {"connecting", "connected"}
        PROVE  Cardinality({ i \in 1..Len(pending) : pending[i] = a }) = 1
    <3>1. PICK i \in 1..Len(pending) : pending[i] = a
      BY <2>2 DEF Inv, Tracked
    <3>2. \A j \in 1..Len(pending) : pending[j] = a => j = i
      <4> SUFFICES ASSUME NEW j \in 1..Len(pending), pending[j] = a, j # i PROVE FALSE
        OBVIOUS
      <4>1. j < i \/ i < j
        BY <2>1
      <4> QED
        BY <4>1, <3>1, <2>1 DEF Increasing
    <3>3. { j \in 1..Len(pending) : pending[j] = a } = {i}
      BY <3>1, <3>2
    <3> QED
      BY <3>3, FS_Singleton
  <2> QED
    BY <2>1, <2>2 DEF NoAttemptLost, Increasing
<1> QED
  BY <1>1, InvAlways, PTL

\* An attempt starts within the delay of the one before only after a failure.
THEOREM StartsStaggered == Spec => Staggered
<1>1. Inv /\ [Next]_vars => [lastStart' # lastStart /\ ~mishap => lastStart' - lastStart >= Delay]_vars
  <2> SUFFICES ASSUME Inv, Next, lastStart' # lastStart, ~mishap
               PROVE  lastStart' - lastStart >= Delay
    OBVIOUS
  <2>1. PICK how \in {"connecting", "connected", "refused", "no_socket"} : StartAttempt(how)
    BY DEF Next, Pass, DeadlinePassed, NothingToStart, Won, NoneYet, Tick, NetworkAnswers, history
  <2>2. nextStart = lastStart + Delay /\ now >= nextStart /\ lastStart' = now
    BY <2>1 DEF Inv, StaggerKept, StartAttempt, TurnHasCome
  <2> QED
    BY <2>2, RaceAssumption DEF Inv, TypeOK
<1> QED
  BY <1>1, InvAlways, PTL DEF Spec, Staggered

===============================================================================
