---------------------------- MODULE AioPoolProofs ----------------------------
(***************************************************************************)
(* Proofs that the async pool keeps its account of leases and of sockets   *)
(* through batches that run as tasks, fail half way or are abandoned, for  *)
(* any batch, any limits and any numbers of sockets and sources.           *)
(***************************************************************************)
EXTENDS AioPool, SeqLemmas

Opened == 1..Len(calls)

\* Where in a batch which parts of the state are in use.
Phases ==
    /\ pc \in {"ready", "closing"} =>
         todo = <<>> /\ calls = <<>> /\ streamTo = NoSource /\ failure = "none"
    /\ pc = "room" => todo # <<>>
    /\ pc \in {"running", "finishing", "release", "trim"} => todo = <<>>
    /\ cur # NoConn <=> pc = "release"
    /\ pc = "trim" => KeepaliveAllowance # 0
    /\ pc \in {"finishing", "release", "trim"} =>
         \A i \in Opened : calls[i].state \in Settled

\* A call has a connection from the end of its race on, unless the race failed.
Connections ==
    \A i \in Opened :
        /\ calls[i].state \in {"securing", "exchanging", "whole", "broken"} => calls[i].conn # NoConn
        /\ calls[i].state = "racing" => calls[i].conn = NoConn

\* A batch that streams is of one request, and its source is free until then.
StreamFree ==
    streamTo # NoSource =>
        /\ Len(todo) + Len(calls) <= 1
        /\ todo # <<>> \/ calls # <<>> => held[streamTo] = NoConn

\* Whoever has a connection has an open one.
Alive ==
    /\ ToSet(idle) \subseteq open
    /\ cur \in open \cup {NoConn}
    /\ \A i \in Opened : calls[i].conn \in open \cup {NoConn}
    /\ \A s \in Sources : held[s] \in open \cup {NoConn}

\* Every open one is somebody's.
Covered ==
    \A c \in open :
        \/ c \in ToSet(idle) \/ c = cur
        \/ \E i \in Opened : calls[i].conn = c
        \/ \E s \in Sources : held[s] = c

\* And nobody else's.
Exclusive ==
    /\ NoRepeats(idle)
    /\ \A i, j \in Opened : calls[i].conn = calls[j].conn => i = j \/ calls[i].conn = NoConn
    /\ \A s, t \in Sources : held[s] = held[t] => s = t \/ held[s] = NoConn
    /\ \A i \in Opened :
         /\ calls[i].conn \notin ToSet(idle)
         /\ calls[i].conn = cur => cur = NoConn
         /\ \A s \in Sources : held[s] = calls[i].conn => held[s] = NoConn
    /\ \A s \in Sources : held[s] \notin ToSet(idle) /\ (held[s] = cur => cur = NoConn)
    /\ cur \notin ToSet(idle)

Owned == Alive /\ Covered /\ Exclusive

\* The connection _release has in its hands is counted nowhere.
Between == IF cur = NoConn THEN 0 ELSE 1

WithinLimit == MaxConnections # None => Len(idle) + leased + Between <= MaxConnections

AllowanceInv ==
    KeepaliveAllowance # None =>
        Len(idle) <= KeepaliveAllowance + (IF pc = "trim" THEN 1 ELSE 0)

\* An answer every address of which has refused is only remembered while the
\* call that found out is still to be finished.
Forgetting ==
    /\ \A o \in suspect \cap cached :
         \E i \in Opened : calls[i].state = "refused" /\ calls[i].origin = o
    /\ pc \in {"opening", "room", "abandoning"} => suspect \cap cached = {}

\* The inductive invariant.  The counts alone are not one: that a call gives
\* back one lease and one socket needs each to be in one place.
Inv ==
    /\ TypeOK /\ Phases /\ Connections /\ StreamFree
    /\ Owned
    /\ LeaseCountExact /\ WithinLimit /\ AllowanceInv /\ Forgetting

-----------------------------------------------------------------------------
(* Facts about single definitions.                                         *)

Shape == [origin : Origins, conn : Conns \cup {NoConn}, state : CallStates]

LEMMA CallShape ==
    ASSUME TypeOK
    PROVE  /\ calls \in Seq(Shape) /\ Len(calls) \in Nat /\ Len(idle) \in Nat
           /\ Len(todo) \in Nat
           /\ \A i \in Opened : /\ calls[i] \in Shape /\ calls[i].origin \in Origins
                                /\ calls[i].conn \in Conns \cup {NoConn}
                                /\ calls[i].state \in CallStates
<1>1. calls \in Seq(Shape) /\ Len(calls) \in Nat /\ Len(idle) \in Nat /\ Len(todo) \in Nat
  BY LenProperties DEF TypeOK, Shape
<1>2. \A i \in Opened : calls[i] \in Shape
  BY <1>1, ElementOfSeq DEF Opened
<1> QED
  BY <1>1, <1>2 DEF Shape

LEMMA PoolCallShape ==
    \A o \in Origins, c \in Conns \cup {NoConn}, s \in CallStates :
        /\ PoolCall(o, c, s) \in Shape
        /\ PoolCall(o, c, s).origin = o /\ PoolCall(o, c, s).conn = c
        /\ PoolCall(o, c, s).state = s
BY DEF PoolCall, Shape

LEMMA NoConnNotIdle ==
    ASSUME TypeOK
    PROVE  NoConn \notin ToSet(idle) /\ ToSet(idle) \subseteq Conns
BY ElementOfSeq, LenProperties, ConnsAssumption DEF TypeOK, ToSet

LEMMA AllowanceType == KeepaliveAllowance \in Nat \cup {None}
BY LimitsAssumption DEF KeepaliveAllowance

LEMMA FirstCandidateFound ==
    ASSUME idle \in Seq(Conns), Candidates # {}
    PROVE  FirstCandidate \in Candidates /\ FirstCandidate \in 1..Len(idle)
<1>1. Candidates \in SUBSET Nat /\ Candidates \subseteq 1..Len(idle)
  BY LenProperties DEF Candidates
<1>2. \E i \in Candidates : \A j \in Candidates : i <= j
  BY <1>1, FirstExists
<1> QED
  BY <1>1, <1>2 DEF FirstCandidate

\* Taking a candidate out of the list, to be used or to be closed.
LEMMA CandidateTaken ==
    ASSUME TypeOK, Exclusive, Candidates # {},
           idle' = RemoveAt(idle, FirstCandidate)
    PROVE  /\ idle[FirstCandidate] \in Conns
           /\ idle[FirstCandidate] \in ToSet(idle)
           /\ idle' \in Seq(Conns)
           /\ Len(idle) \in Nat /\ Len(idle') = Len(idle) - 1
           /\ ToSet(idle') = ToSet(idle) \ {idle[FirstCandidate]}
           /\ NoRepeats(idle')
<1>1. idle \in Seq(Conns) /\ NoRepeats(idle)
  BY DEF TypeOK, Exclusive
<1>2. FirstCandidate \in 1..Len(idle)
  BY <1>1, FirstCandidateFound
<1>3. idle[FirstCandidate] \in Conns /\ idle[FirstCandidate] \in ToSet(idle)
  BY <1>1, <1>2, ElementOfSeq, LenProperties DEF ToSet
<1> QED
  BY <1>1, <1>2, <1>3, RemoveAtProperties, RemoveAtEntries, LenProperties

\* Closing the one that has waited longest.
LEMMA OldestEvicted ==
    ASSUME TypeOK, Exclusive, idle # <<>>, EvictOldest
    PROVE  /\ Head(idle) \in Conns /\ Head(idle) \in ToSet(idle)
           /\ Shut(Head(idle))
           /\ idle' \in Seq(Conns)
           /\ Len(idle) \in Nat /\ Len(idle') = Len(idle) - 1
           /\ ToSet(idle') = ToSet(idle) \ {Head(idle)}
           /\ NoRepeats(idle')
<1>1. idle \in Seq(Conns) /\ NoRepeats(idle)
  BY DEF TypeOK, Exclusive
<1> QED
  BY <1>1, TailEntries, LenProperties DEF EvictOldest

LEMMA HoldingCount ==
    ASSUME TypeOK
    PROVE  /\ IsFiniteSet(Holding) /\ Cardinality(Holding) \in Nat
           /\ \A s \in Sources :
                Cardinality(Holding \cup {s}) =
                  IF s \in Holding THEN Cardinality(Holding) ELSE Cardinality(Holding) + 1
           /\ \A s \in Holding : /\ Cardinality(Holding \ {s}) = Cardinality(Holding) - 1
                                 /\ Cardinality(Holding) > 0
<1>1. Holding \in SUBSET Sources
  BY DEF Holding
<1>2. IsFiniteSet(Holding)
  BY <1>1, ConnsAssumption, FS_Subset
<1>3. Cardinality(Holding) = 0 <=> Holding = {}
  BY <1>2, FS_EmptySet
<1> QED
  BY <1>2, <1>3, FS_CardinalityType, FS_AddElement, FS_RemoveElement

-----------------------------------------------------------------------------
(* What a step does to the calls of the batch.                             *)

CallAdded(r) ==
    /\ calls' \in Seq(Shape) /\ Len(calls') = Len(calls) + 1 /\ calls'[Len(calls) + 1] = r
    /\ \A i \in Opened : calls'[i] = calls[i]

CallDropped(k) ==
    /\ calls' \in Seq(Shape) /\ Len(calls') = Len(calls) - 1
    /\ \A i \in 1..(Len(calls) - 1) : calls'[i] = IF i < k THEN calls[i] ELSE calls[i + 1]

CallChanged(k, c, s) ==
    /\ calls' \in Seq(Shape) /\ Len(calls') = Len(calls)
    /\ calls'[k] = [calls[k] EXCEPT !.conn = c, !.state = s]
    /\ \A i \in Opened : i # k => calls'[i] = calls[i]

LEMMA Adding ==
    ASSUME TypeOK, NEW o \in Origins, NEW c \in Conns \cup {NoConn}, NEW s \in CallStates,
           calls' = Append(calls, PoolCall(o, c, s))
    PROVE  CallAdded(PoolCall(o, c, s))
<1>1. calls \in Seq(Shape) /\ PoolCall(o, c, s) \in Shape
  BY CallShape, PoolCallShape
<1> QED
  BY <1>1, AppendProperties DEF CallAdded, Opened

LEMMA DroppingFirst ==
    ASSUME TypeOK, calls # <<>>, calls' = Tail(calls)
    PROVE  CallDropped(1) /\ 1 \in Opened /\ Head(calls) = calls[1]
<1>1. calls \in Seq(Shape) /\ Len(calls) \in Nat /\ Len(calls) # 0
  BY CallShape, EmptySeq
<1>2. /\ Tail(calls) \in Seq(Shape) /\ Len(Tail(calls)) = Len(calls) - 1
      /\ \A i \in 1..Len(Tail(calls)) : Tail(calls)[i] = calls[i + 1]
  BY <1>1, HeadTailProperties
<1>3. Head(calls) = calls[1]
  BY <1>1
<1> QED
  BY <1>1, <1>2, <1>3 DEF CallDropped, Opened

LEMMA DroppingLast ==
    ASSUME TypeOK, calls # <<>>, calls' = Front(calls)
    PROVE  CallDropped(Len(calls)) /\ Len(calls) \in Opened /\ Last(calls) = calls[Len(calls)]
<1> DEFINE n == Len(calls) - 1
<1>1. /\ calls \in Seq(Shape) /\ Len(calls) \in Nat /\ Len(calls) # 0
      /\ \A i \in Opened : calls[i] \in Shape
  BY CallShape, EmptySeq
<1>2. n \in Nat /\ \A i \in 1..n : calls[i] \in Shape
  BY <1>1 DEF Opened
<1>3. /\ SubSeq(calls, 1, n) \in Seq(Shape)
      /\ Len(SubSeq(calls, 1, n)) = IF 1 <= n THEN n - 1 + 1 ELSE 0
      /\ \A i \in 1..(n - 1 + 1) : SubSeq(calls, 1, n)[i] = calls[1 + i - 1]
  <2> HIDE DEF n
  <2> QED
    BY <1>2, SubSeqProperties
<1>4. calls' = SubSeq(calls, 1, n)
  BY DEF Front
<1> HIDE DEF n
<1>5. Len(calls') = n /\ \A i \in 1..n : calls'[i] = calls[i]
  BY <1>2, <1>3, <1>4
<1> QED
  BY <1>1, <1>3, <1>4, <1>5 DEF CallDropped, Opened, Last, n

LEMMA Changing ==
    ASSUME TypeOK, NEW k \in Opened, NEW s \in CallStates, Becomes(k, s)
    PROVE  CallChanged(k, calls[k].conn, s)
<1>1. calls \in Seq(Shape) /\ calls[k] \in Shape
  BY CallShape
<1>2. [calls[k] EXCEPT !.state = s] \in Shape
  BY <1>1 DEF Shape
<1>3. calls' = [calls EXCEPT ![k] = [calls[k] EXCEPT !.state = s]]
  BY DEF Becomes
<1>4. [calls[k] EXCEPT !.state = s] = [calls[k] EXCEPT !.conn = calls[k].conn, !.state = s]
  BY <1>1 DEF Shape
<1> QED
  BY <1>1, <1>2, <1>3, <1>4, ExceptSeq DEF CallChanged, Opened

\* Of the calls that are left, each was one before, and each that was one
\* before and is not the one dropped is left.
LEMMA Left ==
    ASSUME TypeOK, NEW k \in Opened, CallDropped(k)
    PROVE  /\ \A i \in Opened' : \E j \in Opened : j # k /\ calls'[i] = calls[j]
           /\ \A j \in Opened : j # k => \E i \in Opened' : calls'[i] = calls[j]
           /\ \A i, j \in Opened' : i # j =>
                \E a, b \in Opened : a # b /\ a # k /\ b # k /\ calls'[i] = calls[a] /\ calls'[j] = calls[b]
<1>1. Len(calls) \in Nat /\ Opened = 1..Len(calls) /\ Opened' = 1..(Len(calls) - 1)
  BY CallShape DEF CallDropped, Opened
<1> DEFINE was(i) == IF i < k THEN i ELSE i + 1
<1>2. \A i \in Opened' : was(i) \in Opened /\ was(i) # k /\ calls'[i] = calls[was(i)]
  BY <1>1 DEF CallDropped
<1>3. ASSUME NEW j \in Opened, j # k PROVE \E i \in Opened' : calls'[i] = calls[j]
  <2>1. CASE j < k
    BY <1>1, <2>1 DEF CallDropped
  <2>2. CASE j > k
    <3>1. j - 1 \in Opened' /\ ~(j - 1 < k) /\ (j - 1) + 1 = j
      BY <1>1, <2>2
    <3> QED
      BY <1>1, <3>1 DEF CallDropped
  <2> QED
    BY <1>1, <1>3, <2>1, <2>2
<1>4. \A i, j \in Opened' : i # j => was(i) # was(j)
  BY <1>1
<1> HIDE DEF was
<1> QED
  BY <1>2, <1>3, <1>4

-----------------------------------------------------------------------------
(* The places a connection moves between.                                  *)

LEMMA NothingMoves ==
    ASSUME Owned, idle' = idle, held' = held, cur' = cur, open' = open,
           Len(calls') = Len(calls), \A i \in Opened : calls'[i].conn = calls[i].conn
    PROVE  Owned'
<1>1. Opened' = Opened
  BY DEF Opened
<1> QED
  BY <1>1 DEF Owned, Alive, Covered, Exclusive, NoRepeats

\* From the idle list to nowhere.
LEMMA IdleShut ==
    ASSUME TypeOK, Owned, NEW c \in ToSet(idle), Shut(c),
           held' = held, cur' = cur, calls' = calls,
           ToSet(idle') = ToSet(idle) \ {c}, NoRepeats(idle')
    PROVE  Owned'
<1>1. c \in Conns /\ c # NoConn /\ Opened' = Opened
  BY NoConnNotIdle DEF Opened
<1>2. /\ c # cur /\ \A i \in Opened : calls[i].conn # c
      /\ \A s \in Sources : held[s] # c
  BY DEF Owned, Exclusive
<1>3. Alive'
  BY <1>1, <1>2 DEF Owned, Alive, Shut
<1>4. Covered'
  BY <1>1 DEF Owned, Covered, Shut
<1>5. Exclusive'
  BY <1>1 DEF Owned, Exclusive
<1> QED
  BY <1>3, <1>4, <1>5 DEF Owned

\* From the idle list to a call.
LEMMA IdleToCall ==
    ASSUME TypeOK, Owned, NEW c \in ToSet(idle), NEW o \in Origins, NEW st \in CallStates,
           held' = held, cur' = cur, open' = open,
           CallAdded(PoolCall(o, c, st)),
           ToSet(idle') = ToSet(idle) \ {c}, NoRepeats(idle')
    PROVE  Owned'
<1> DEFINE n == Len(calls) + 1
<1>1. c \in Conns /\ c # NoConn /\ c \in open
  BY NoConnNotIdle DEF Owned, Alive
<1>2. /\ c # cur /\ \A i \in Opened : calls[i].conn # c
      /\ \A s \in Sources : held[s] # c
  BY DEF Owned, Exclusive
<1>3. /\ Opened' = Opened \cup {n} /\ n \notin Opened /\ calls'[n].conn = c
      /\ \A i \in Opened : calls'[i] = calls[i]
  BY <1>1, CallShape, PoolCallShape DEF Opened, CallAdded
<1> HIDE DEF n
<1>4. Alive'
  BY <1>1, <1>3 DEF Owned, Alive
<1>5. Covered'
  BY <1>1, <1>3 DEF Owned, Covered
<1>6. Exclusive'
  BY <1>1, <1>2, <1>3 DEF Owned, Exclusive
<1> QED
  BY <1>4, <1>5, <1>6 DEF Owned

\* A call is opened that has no connection yet.
LEMMA CallWithNone ==
    ASSUME TypeOK, Owned, NEW o \in Origins, NEW st \in CallStates,
           held' = held, cur' = cur, open' = open, idle' = idle,
           CallAdded(PoolCall(o, NoConn, st))
    PROVE  Owned'
<1> DEFINE n == Len(calls) + 1
<1>1. NoConn \notin ToSet(idle)
  BY NoConnNotIdle
<1>2. /\ Opened' = Opened \cup {n} /\ n \notin Opened /\ calls'[n].conn = NoConn
      /\ \A i \in Opened : calls'[i] = calls[i]
  BY CallShape DEF Opened, CallAdded, PoolCall
<1> HIDE DEF n
<1>3. Alive'
  BY <1>2 DEF Owned, Alive
<1>4. Covered'
  BY <1>2 DEF Owned, Covered
<1>5. Exclusive'
  BY <1>1, <1>2 DEF Owned, Exclusive, NoRepeats
<1> QED
  BY <1>3, <1>4, <1>5 DEF Owned

\* From a call to nowhere.
LEMMA CallShut ==
    ASSUME TypeOK, Owned, NEW k \in Opened, CallDropped(k), Shut(calls[k].conn),
           idle' = idle, held' = held, cur' = cur
    PROVE  Owned'
<1> DEFINE c == calls[k].conn
<1>1. c \in open \cup {NoConn} /\ NoConn \notin open /\ open' = open \ {c}
  BY ConnsAssumption DEF Owned, Alive, TypeOK, Shut
<1>2. /\ c \notin ToSet(idle)
      /\ c = cur => cur = NoConn
      /\ \A s \in Sources : held[s] = c => held[s] = NoConn
      /\ \A j \in Opened : j # k => calls[j].conn # c \/ c = NoConn
  BY DEF Owned, Exclusive
<1>3. Alive'
  <2>1. \A i \in Opened' : calls'[i].conn \in open' \cup {NoConn}
    BY <1>1, <1>2, Left DEF Owned, Alive
  <2> QED
    BY <1>1, <1>2, <2>1 DEF Owned, Alive
<1>4. Covered'
  BY <1>1, <1>2, Left DEF Owned, Covered
<1>5. Exclusive'
  <2>1. \A i, j \in Opened' : calls'[i].conn = calls'[j].conn => i = j \/ calls'[i].conn = NoConn
    BY Left, SMTT(30) DEF Owned, Exclusive
  <2>2. \A i \in Opened' :
          /\ calls'[i].conn \notin ToSet(idle)
          /\ calls'[i].conn = cur => cur = NoConn
          /\ \A s \in Sources : held[s] = calls'[i].conn => held[s] = NoConn
    BY Left DEF Owned, Exclusive
  <2> QED
    BY <2>1, <2>2 DEF Owned, Exclusive, NoRepeats
<1> QED
  BY <1>3, <1>4, <1>5 DEF Owned

\* A socket that was closed is opened by a call that races.
LEMMA OpenedByCall ==
    ASSUME TypeOK, Owned, NEW k \in Opened, NEW c \in Conns, NEW st, c \notin open,
           calls[k].conn = NoConn, CallChanged(k, c, st), open' = open \cup {c},
           idle' = idle, held' = held, cur' = cur
    PROVE  Owned'
<1>1. /\ Opened' = Opened /\ calls'[k].conn = c
      /\ \A i \in Opened : i # k => calls'[i] = calls[i]
  BY CallShape DEF CallChanged, Opened, Shape
<1>2. /\ c # NoConn /\ c \notin ToSet(idle) /\ c # cur
      /\ \A s \in Sources : held[s] # c
      /\ \A i \in Opened : calls[i].conn # c
  BY ConnsAssumption DEF Owned, Alive
<1>3. Alive'
  BY <1>1 DEF Owned, Alive
<1>4. Covered'
  BY <1>1, <1>2, ConnsAssumption DEF Owned, Covered, TypeOK
<1>5. Exclusive'
  BY <1>1, <1>2 DEF Owned, Exclusive, NoRepeats
<1> QED
  BY <1>3, <1>4, <1>5 DEF Owned

\* From a call to _release.
LEMMA CallToCur ==
    ASSUME TypeOK, Owned, NEW k \in Opened, CallDropped(k), cur = NoConn, cur' = calls[k].conn,
           idle' = idle, held' = held, open' = open
    PROVE  Owned'
<1>1. Alive'
  BY Left DEF Owned, Alive
<1>2. Covered'
  <2>1. ASSUME NEW i \in Opened
        PROVE  calls[i].conn = cur' \/ \E j \in Opened' : calls'[j].conn = calls[i].conn
    <3>1. i = k \/ \E j \in Opened' : calls'[j] = calls[i]
      BY Left
    <3> QED
      BY <3>1
  <2>2. ASSUME NEW c \in open
        PROVE  c \in ToSet(idle) \/ c = cur' \/ (\E j \in Opened' : calls'[j].conn = c)
                 \/ \E s \in Sources : held[s] = c
    <3>1. c # cur
      BY ConnsAssumption DEF TypeOK
    <3> QED
      BY <2>1, <3>1 DEF Owned, Covered
  <2> QED
    BY <2>2 DEF Covered
<1>3. Exclusive'
  BY Left DEF Owned, Exclusive, NoRepeats
<1> QED
  BY <1>1, <1>2, <1>3 DEF Owned

\* From a call to a source.
LEMMA CallToSource ==
    ASSUME TypeOK, Owned, NEW k \in Opened, CallDropped(k),
           NEW s \in Sources, held[s] = NoConn, held' = [held EXCEPT ![s] = calls[k].conn],
           idle' = idle, cur' = cur, open' = open
    PROVE  Owned'
<1>1. held'[s] = calls[k].conn /\ \A t \in Sources : t # s => held'[t] = held[t]
  BY DEF TypeOK
<1>2. Alive'
  BY <1>1, Left DEF Owned, Alive
<1>3. Covered'
  <2>1. ASSUME NEW i \in Opened
        PROVE  calls[i].conn = held'[s] \/ \E j \in Opened' : calls'[j].conn = calls[i].conn
    <3>1. i = k \/ \E j \in Opened' : calls'[j] = calls[i]
      BY Left
    <3> QED
      BY <1>1, <3>1
  <2>2. ASSUME NEW t \in Sources, held[t] # NoConn PROVE held'[t] = held[t]
    BY <1>1, <2>2
  <2>3. ASSUME NEW c \in open
        PROVE  c \in ToSet(idle) \/ c = cur \/ (\E j \in Opened' : calls'[j].conn = c)
                 \/ \E t \in Sources : held'[t] = c
    <3>1. c # NoConn
      BY ConnsAssumption DEF TypeOK
    <3> QED
      BY <2>1, <2>2, <3>1 DEF Owned, Covered
  <2> QED
    BY <2>3 DEF Covered
<1>4. Exclusive'
  BY <1>1, Left DEF Owned, Exclusive, NoRepeats
<1> QED
  BY <1>2, <1>3, <1>4 DEF Owned

\* From _release to the idle list.
LEMMA CurToIdle ==
    ASSUME TypeOK, Owned, cur # NoConn, cur' = NoConn,
           ToSet(idle') = ToSet(idle) \cup {cur}, NoRepeats(idle'),
           calls' = calls, held' = held, open' = open
    PROVE  Owned'
<1>1. Opened' = Opened /\ NoConn \notin ToSet(idle)
  BY NoConnNotIdle DEF Opened
<1>2. Alive'
  BY <1>1 DEF Owned, Alive
<1>3. Covered'
  BY <1>1 DEF Owned, Covered
<1>4. Exclusive'
  BY <1>1 DEF Owned, Exclusive
<1> QED
  BY <1>2, <1>3, <1>4 DEF Owned

\* From _release to nowhere.
LEMMA CurShut ==
    ASSUME TypeOK, Owned, cur # NoConn, cur' = NoConn, Shut(cur),
           idle' = idle, calls' = calls, held' = held
    PROVE  Owned'
<1>1. Opened' = Opened /\ NoConn \notin ToSet(idle)
  BY NoConnNotIdle DEF Opened
<1>2. Alive'
  BY <1>1 DEF Owned, Alive, Exclusive, Shut
<1>3. Covered'
  BY <1>1 DEF Owned, Covered, Shut
<1>4. Exclusive'
  BY <1>1 DEF Owned, Exclusive, NoRepeats
<1> QED
  BY <1>2, <1>3, <1>4 DEF Owned

\* From a source to _release.
LEMMA SourceToCur ==
    ASSUME TypeOK, Owned, NEW s \in Sources, held[s] # NoConn, cur = NoConn, cur' = held[s],
           held' = [held EXCEPT ![s] = NoConn], idle' = idle, calls' = calls, open' = open
    PROVE  Owned'
<1>1. /\ Opened' = Opened /\ NoConn \notin ToSet(idle) /\ held'[s] = NoConn
      /\ \A t \in Sources : t # s => held'[t] = held[t]
  BY NoConnNotIdle DEF Opened, TypeOK
<1>2. Alive'
  BY <1>1 DEF Owned, Alive
<1>3. Covered'
  BY <1>1, ConnsAssumption DEF Owned, Covered, TypeOK
<1>4. Exclusive'
  BY <1>1 DEF Owned, Exclusive, NoRepeats
<1> QED
  BY <1>2, <1>3, <1>4 DEF Owned

\* From a source to nowhere.
LEMMA SourceShut ==
    ASSUME TypeOK, Owned, NEW s \in Sources, held[s] # NoConn, Shut(held[s]),
           held' = [held EXCEPT ![s] = NoConn], idle' = idle, calls' = calls, cur' = cur
    PROVE  Owned'
<1>1. /\ Opened' = Opened /\ NoConn \notin ToSet(idle) /\ held'[s] = NoConn
      /\ \A t \in Sources : t # s => held'[t] = held[t]
  BY NoConnNotIdle DEF Opened, TypeOK
<1>2. Alive'
  BY <1>1 DEF Owned, Alive, Exclusive, Shut
<1>3. Covered'
  BY <1>1 DEF Owned, Covered, Shut
<1>4. Exclusive'
  BY <1>1 DEF Owned, Exclusive, NoRepeats
<1> QED
  BY <1>2, <1>3, <1>4 DEF Owned

-----------------------------------------------------------------------------
(* The count of leases.                                                    *)

\* A step that moves no source keeps the account if it counts the calls right.
LEMMA LeasesKept ==
    ASSUME TypeOK, LeaseCountExact, held' = held, Len(calls') \in Nat,
           leased' - leased = Len(calls') - Len(calls), leased' \in Int
    PROVE  LeaseCountExact' /\ leased' \in Nat
<1>1. Holding' = Holding /\ Cardinality(Holding) \in Nat
  BY HoldingCount DEF Holding
<1>2. leased \in Nat /\ Len(calls) \in Nat
  BY CallShape DEF TypeOK
<1> QED
  BY <1>1, <1>2 DEF LeaseCountExact

\* A source lets its connection go, and its lease with it.
LEMMA LeaseOfSource ==
    ASSUME TypeOK, LeaseCountExact, calls' = calls, NEW s \in Sources, held[s] # NoConn,
           held' = [held EXCEPT ![s] = NoConn], leased' = leased - 1
    PROVE  LeaseCountExact' /\ leased' \in Nat
<1>1. s \in Holding /\ Holding' = Holding \ {s}
  BY DEF Holding, TypeOK
<1>2. /\ Cardinality(Holding') = Cardinality(Holding) - 1
      /\ Cardinality(Holding) \in Nat /\ Cardinality(Holding) > 0
  BY <1>1, HoldingCount
<1>3. leased \in Nat /\ Len(calls) \in Nat
  BY CallShape DEF TypeOK
<1> QED
  BY <1>2, <1>3 DEF LeaseCountExact

-----------------------------------------------------------------------------
(* The invariant, one kind of step at a time.                              *)

LEMMA InvInit == Init => Inv
<1> SUFFICES ASSUME Init PROVE Inv
  OBVIOUS
<1>1. /\ Holding = {} /\ Cardinality({}) = 0 /\ ToSet(idle) = {} /\ Len(idle) = 0
      /\ Len(calls) = 0 /\ Opened = {}
  BY FS_EmptySet DEF Init, Holding, ToSet, Opened
<1>2. TypeOK
  BY DEF Init, TypeOK, CallStates, Settled
<1>3. Phases /\ Connections /\ StreamFree
  BY <1>1 DEF Init, Phases, Connections, StreamFree
<1>4. Owned
  BY <1>1 DEF Init, Owned, Alive, Covered, Exclusive, NoRepeats
<1>5. LeaseCountExact
  BY <1>1 DEF Init, LeaseCountExact
<1>6. WithinLimit /\ AllowanceInv
  BY <1>1, LimitsAssumption, AllowanceType DEF Init, WithinLimit, AllowanceInv, Between
<1>7. Forgetting
  BY DEF Init, Forgetting
<1> QED
  BY <1>2, <1>3, <1>4, <1>5, <1>6, <1>7 DEF Inv

\* A batch is asked for, fails to open, goes from one stage to the next or is
\* over.
Asked ==
    \/ \E n \in 1..MaxBatch : \E os \in [1..n -> Origins] : HandleMany(os)
    \/ \E o \in Origins, s \in Sources : StreamRequest(o, s)

Fails == RefuseTunnel \/ PoolIsFull \/ PoolDeadlinePassed \/ CannotStart

Turns == NoneIdle \/ AllOpened \/ AllSettled \/ Trimmed

Ends == AllAbandoned \/ AllFinished \/ Closed

\* What these and the steps of the world have in common: no connection and no
\* lease changes hands.
LEMMA InvStill ==
    ASSUME Inv, idle' = idle, leased' = leased, originOf' = originOf, open' = open,
           held' = held, cur' = cur, calls' = calls, sound' \subseteq open, aged' \subseteq open,
           suspect' = suspect, cached' \subseteq cached,
           todo' \in Seq(Origins), streamTo' \in Sources \cup {NoSource},
           pc' \in {"ready", "opening", "room", "abandoning", "running", "finishing",
                    "release", "trim", "closing"},
           failure' \in Broken \cup {"none", "tunnel", "pool_timeout", "pool_deadline",
                                     "unresolved"},
           outcome' \in Broken \cup {"none", "tunnel", "pool_timeout", "pool_deadline",
                                     "unresolved", "responses", "closed"},
           Phases', StreamFree',
           pc = "trim" => pc' = "trim" \/ ~OverAllowance,
           pc' \in {"opening", "room", "abandoning"} =>
             pc \in {"opening", "room", "abandoning"} \/ calls = <<>>
    PROVE  Inv'
<1> USE DEF Inv
<1>1. Opened' = Opened /\ Holding' = Holding /\ Len(idle) \in Nat
  BY CallShape DEF Opened, Holding
<1>2. TypeOK'
  BY DEF TypeOK
<1>3. Connections'
  BY <1>1 DEF Connections
<1>4. Owned'
  BY NothingMoves
<1>5. LeaseCountExact' /\ WithinLimit'
  BY <1>1 DEF LeaseCountExact, WithinLimit, Between
<1>6. AllowanceInv'
  BY <1>1, AllowanceType DEF AllowanceInv, OverAllowance, Phases
<1>7. Forgetting'
  <2>1. calls = <<>> => Opened = {}
    BY DEF Opened
  <2> QED
    BY <1>1, <2>1 DEF Forgetting
<1> QED
  BY <1>2, <1>3, <1>4, <1>5, <1>6, <1>7

LEMMA InvAsked ==
    ASSUME Inv, Asked
    PROVE  Inv'
<1> USE DEF Inv
<1>1. PICK os \in Seq(Origins) :
        /\ os # <<>> /\ pc = "ready" /\ pc' = "opening" /\ todo' = os
        /\ UNCHANGED <<idle, leased, originOf, open, sound, aged, held, calls, failure,
                       cur, outcome, cached, suspect>>
        /\ \/ streamTo' = streamTo
           \/ streamTo' \in Sources /\ held[streamTo'] = NoConn /\ Len(os) = 1
  <2>1. ASSUME NEW n \in 1..MaxBatch, NEW os \in [1..n -> Origins]
        PROVE  os \in Seq(Origins) /\ os # <<>>
    <3>1. n \in Nat
      BY LimitsAssumption
    <3>2. os \in Seq(Origins) /\ DOMAIN os = 1..n
      BY <3>1, IsASeq
    <3>3. 1 \in 1..n
      BY <3>1
    <3> QED
      BY <3>2, <3>3, LenProperties, EmptySeq
  <2>2. CASE \E n \in 1..MaxBatch : \E os \in [1..n -> Origins] : HandleMany(os)
    BY <2>1, <2>2 DEF HandleMany, pool, world, names
  <2>3. CASE \E o \in Origins, s \in Sources : StreamRequest(o, s)
    <3>1. PICK o \in Origins, s \in Sources : StreamRequest(o, s)
      BY <2>3
    <3> DEFINE os == <<o>>
    <3>2. os \in Seq(Origins) /\ os # <<>> /\ Len(os) = 1
      OBVIOUS
    <3>3. todo' = os
      BY <3>1 DEF StreamRequest
    <3> HIDE DEF os
    <3> QED
      BY <3>1, <3>2, <3>3 DEF StreamRequest, pool, world, names
  <2> QED
    BY <2>2, <2>3 DEF Asked
<1>2. /\ calls = <<>> /\ Len(calls) = 0 /\ streamTo = NoSource /\ cur = NoConn
      /\ Opened = {} /\ Len(os) \in Nat
  BY <1>1, LenProperties DEF Phases, Opened
<1>3. StreamFree'
  <2>1. CASE streamTo' = NoSource
    BY <2>1 DEF StreamFree
  <2>2. CASE held[streamTo'] = NoConn /\ Len(os) = 1
    <3>1. Len(todo') + Len(calls') = 1 /\ held'[streamTo'] = NoConn
      BY <1>1, <1>2, <2>2
    <3> QED
      BY <3>1 DEF StreamFree
  <2> QED
    BY <1>1, <1>2, <2>1, <2>2
<1>4. Phases'
  BY <1>1, <1>2 DEF Phases
<1>5. TypeOK /\ streamTo' \in Sources \cup {NoSource}
  BY <1>1, <1>2
<1> QED
  BY <1>1, <1>2, <1>3, <1>4, <1>5, InvStill DEF TypeOK

LEMMA InvFails ==
    ASSUME Inv, Fails
    PROVE  Inv'
<1> USE DEF Inv
<1>1. /\ pc \in {"opening", "room"} /\ pc' = "abandoning"
      /\ failure' \in {"tunnel", "pool_timeout", "pool_deadline", "unresolved"}
      /\ UNCHANGED <<idle, leased, originOf, open, sound, aged, held, todo, calls, streamTo,
                     cur, outcome, cached, suspect>>
  BY DEF Fails, RefuseTunnel, PoolIsFull, PoolDeadlinePassed, CannotStart, OpenRaises,
     pool, world, names
<1>2. Phases' /\ StreamFree'
  BY <1>1 DEF Phases, StreamFree
<1> QED
  BY <1>1, <1>2, InvStill DEF TypeOK

LEMMA InvTurns ==
    ASSUME Inv, Turns
    PROVE  Inv'
<1> USE DEF Inv
<1>1. /\ UNCHANGED <<idle, leased, originOf, open, sound, aged, held, todo, calls, streamTo,
                     failure, cur, outcome, cached, suspect>>
      /\ \/ pc = "opening" /\ pc' = "room" /\ todo # <<>>
         \/ pc = "opening" /\ pc' = "running" /\ todo = <<>>
         \/ /\ pc = "running" /\ pc' = "finishing"
            /\ \A i \in Opened : calls[i].state \in Settled
         \/ pc = "trim" /\ pc' = "finishing" /\ ~OverAllowance
  BY DEF Turns, NoneIdle, Opening, AllOpened, AllSettled, Trimmed, Opened,
     pool, world, names, batch
<1>2. Phases' /\ StreamFree'
  BY <1>1 DEF Phases, StreamFree, Opened
<1> QED
  BY <1>1, <1>2, InvStill DEF TypeOK

LEMMA InvEnds ==
    ASSUME Inv, Ends
    PROVE  Inv'
<1> USE DEF Inv
<1>1. /\ pc \in {"abandoning", "finishing", "closing"} /\ pc' = "ready"
      /\ UNCHANGED <<idle, leased, originOf, open, sound, aged, held, calls, cur, cached, suspect>>
      /\ calls = <<>> /\ calls' = <<>> /\ todo' = <<>> /\ streamTo' = NoSource
      /\ failure' = "none"
  BY DEF Ends, AllAbandoned, AllFinished, Closed, Return, Phases, pool, world, names
<1>2. outcome' \in Broken \cup {"none", "tunnel", "pool_timeout", "pool_deadline",
                                "unresolved", "responses", "closed"}
  BY DEF Ends, AllAbandoned, AllFinished, Closed, Return, TypeOK
<1>3. Phases' /\ StreamFree'
  BY <1>1 DEF Phases, StreamFree
<1> QED
  BY <1>1, <1>2, <1>3, InvStill DEF TypeOK

LEMMA InvWorld ==
    ASSUME Inv, World
    PROVE  Inv'
<1> USE DEF Inv
<1>1. ToSet(idle) \subseteq open
  BY DEF Owned, Alive
<1>2. /\ UNCHANGED <<idle, leased, originOf, open, held, pc, todo, calls, streamTo,
                     failure, cur, outcome, suspect>>
      /\ sound' \subseteq open /\ aged' \subseteq open /\ cached' \subseteq cached
  BY <1>1 DEF World, PeerDisturbs, Age, AnswerExpires, TypeOK, pool, world, batch, names
<1>3. Phases' /\ StreamFree'
  BY <1>2 DEF Phases, StreamFree, Opened
<1> QED
  BY <1>2, <1>3, InvStill DEF TypeOK

\* An idle connection is closed.
Evict == DiscardStale \/ EvictForRoom \/ EvictToTrim \/ CloseOne

LEMMA InvEvict ==
    ASSUME Inv, Evict
    PROVE  Inv'
<1> USE DEF Inv
<1>1. /\ leased' = leased /\ held' = held /\ cur' = cur /\ calls' = calls /\ todo' = todo
      /\ streamTo' = streamTo /\ failure' = failure /\ outcome' = outcome
      /\ cached' = cached /\ suspect' = suspect
      /\ pc' = pc \/ (pc \in {"ready", "closing"} /\ pc' = "closing")
  BY DEF Evict, DiscardStale, EvictForRoom, EvictToTrim, CloseOne, batch, names
<1>2. PICK c \in ToSet(idle) :
         /\ Shut(c) /\ idle' \in Seq(Conns) /\ Len(idle) \in Nat /\ Len(idle') = Len(idle) - 1
         /\ ToSet(idle') = ToSet(idle) \ {c} /\ NoRepeats(idle')
  <2>1. CASE DiscardStale
    BY <2>1, CandidateTaken DEF DiscardStale, Owned
  <2>2. CASE EvictForRoom \/ EvictToTrim \/ CloseOne
    <3>1. EvictOldest /\ idle # <<>>
      BY <2>2, LimitsAssumption, AllowanceType
         DEF EvictForRoom, EvictToTrim, CloseOne, OverAllowance
    <3> QED
      BY <3>1, OldestEvicted DEF Owned
  <2> QED
    BY <2>1, <2>2 DEF Evict
<1>3. Opened' = Opened /\ Holding' = Holding
  BY <1>1 DEF Opened, Holding
<1>4. TypeOK'
  BY <1>1, <1>2 DEF TypeOK, Shut
<1>5. Phases'
  BY <1>1, <1>3 DEF Phases
<1>6. Connections' /\ StreamFree'
  BY <1>1, <1>3 DEF Connections, StreamFree
<1>7. Owned'
  BY <1>1, <1>2, IdleShut
<1>8. LeaseCountExact'
  BY <1>1, <1>3 DEF LeaseCountExact
<1>9. WithinLimit'
  BY <1>1, <1>2, LimitsAssumption DEF WithinLimit, Between, TypeOK
<1>10. AllowanceInv'
  BY <1>1, <1>2, AllowanceType DEF AllowanceInv
<1>11. Forgetting'
  BY <1>1, <1>3 DEF Forgetting
<1> QED
  BY <1>4, <1>5, <1>6, <1>7, <1>8, <1>9, <1>10, <1>11

LEMMA InvTakeIdle ==
    ASSUME Inv, TakeIdle
    PROVE  Inv'
<1> USE DEF Inv
<1> DEFINE c == idle[FirstCandidate]
           r == PoolCall(Wanted, c, "exchanging")
<1>1. /\ c \in Conns /\ c \in ToSet(idle) /\ idle' \in Seq(Conns)
      /\ Len(idle) \in Nat /\ Len(idle') = Len(idle) - 1
      /\ ToSet(idle') = ToSet(idle) \ {c} /\ NoRepeats(idle')
  BY CandidateTaken DEF TakeIdle, Owned
<1>2. /\ leased' = leased + 1 /\ sound' = sound \ {c} /\ calls' = Append(calls, r)
      /\ todo' = Tail(todo) /\ pc = "opening" /\ todo # <<>>
      /\ UNCHANGED <<originOf, open, aged, held, pc, streamTo, failure, cur, outcome, cached, suspect>>
  BY DEF TakeIdle, Opening, names
<1>3. Wanted \in Origins /\ Tail(todo) \in Seq(Origins) /\ Len(Tail(todo)) = Len(todo) - 1
  BY <1>2, HeadTailProperties DEF Wanted, TypeOK
<1>4. "exchanging" \in CallStates
  BY DEF CallStates
<1>5. CallAdded(r) /\ r.conn = c /\ r.state = "exchanging" /\ r \in Shape
  BY <1>1, <1>2, <1>3, <1>4, Adding, PoolCallShape
<1> HIDE DEF c
<1>6. Owned'
  BY <1>1, <1>2, <1>3, <1>4, <1>5, IdleToCall
<1> HIDE DEF r
<1>7. LeaseCountExact' /\ leased' \in Nat /\ Len(calls) \in Nat /\ Len(calls') = Len(calls) + 1
  BY <1>2, <1>5, LeasesKept, CallShape DEF CallAdded, TypeOK
<1>8. TypeOK'
  BY <1>1, <1>2, <1>3, <1>5, <1>7 DEF TypeOK, CallAdded, Shape
<1>9. Phases'
  BY <1>2 DEF Phases
<1>10. /\ Opened' = Opened \cup {Len(calls) + 1} /\ Len(calls) + 1 \notin Opened
       /\ calls'[Len(calls) + 1] = r /\ \A i \in Opened : calls'[i] = calls[i]
  BY <1>5, <1>7 DEF Opened, CallAdded
<1>11. Connections'
  BY <1>1, <1>5, <1>10, ConnsAssumption DEF Connections
<1>12. StreamFree'
  <2>1. Len(todo') + Len(calls') = Len(todo) + Len(calls)
    BY <1>2, <1>3, <1>7, CallShape
  <2> QED
    BY <1>2, <2>1 DEF StreamFree
<1>13. WithinLimit'
  BY <1>1, <1>2, LimitsAssumption DEF WithinLimit, Between, TypeOK
<1>14. AllowanceInv'
  BY <1>1, <1>2, AllowanceType DEF AllowanceInv
<1>15. Forgetting'
  BY <1>2 DEF Forgetting
<1> QED
  BY <1>6, <1>7, <1>8, <1>9, <1>11, <1>12, <1>13, <1>14, <1>15

LEMMA InvStartRace ==
    ASSUME Inv, NEW fresh \in BOOLEAN, StartRace(fresh)
    PROVE  Inv'
<1> USE DEF Inv
<1> DEFINE r == PoolCall(Wanted, NoConn, "racing")
<1>1. Len(idle) \in Nat /\ leased \in Nat
  BY CallShape DEF TypeOK
<1>2. /\ leased' = leased + 1 /\ calls' = Append(calls, r)
      /\ todo' = Tail(todo) /\ pc = "room" /\ pc' = "opening" /\ todo # <<>> /\ RoomLeft
      /\ UNCHANGED <<idle, originOf, open, sound, aged, held, streamTo, failure, cur, outcome>>
  BY DEF StartRace, Phases, world
<1>3. Wanted \in Origins /\ Tail(todo) \in Seq(Origins) /\ Len(Tail(todo)) = Len(todo) - 1
  BY <1>2, HeadTailProperties DEF Wanted, TypeOK
<1>4. "racing" \in CallStates
  BY DEF CallStates
<1>5. CallAdded(r) /\ r.conn = NoConn /\ r.state = "racing" /\ r \in Shape
  <2>1. CallAdded(r)
    BY <1>2, <1>3, <1>4, Adding
  <2> QED
    BY <1>3, <1>4, <2>1 DEF PoolCall, Shape
<1>6. Owned'
  BY <1>2, <1>3, <1>4, <1>5, CallWithNone
<1> HIDE DEF r
<1>7. LeaseCountExact' /\ leased' \in Nat /\ Len(calls) \in Nat /\ Len(calls') = Len(calls) + 1
  BY <1>1, <1>2, <1>5, LeasesKept, CallShape DEF CallAdded
<1>8. TypeOK'
  BY <1>2, <1>3, <1>5, <1>7 DEF TypeOK, CallAdded, Shape, StartRace
<1>9. Phases'
  BY <1>2 DEF Phases
<1>10. /\ Opened' = Opened \cup {Len(calls) + 1} /\ Len(calls) + 1 \notin Opened
       /\ calls'[Len(calls) + 1] = r /\ \A i \in Opened : calls'[i] = calls[i]
  BY <1>5, <1>7 DEF Opened, CallAdded
<1>11. Connections'
  BY <1>5, <1>10 DEF Connections
<1>12. StreamFree'
  <2>1. Len(todo') + Len(calls') = Len(todo) + Len(calls)
    BY <1>2, <1>3, <1>7, CallShape
  <2> QED
    BY <1>2, <2>1 DEF StreamFree
<1>13. WithinLimit'
  BY <1>1, <1>2, LimitsAssumption DEF WithinLimit, Between, RoomLeft, Phases
<1>14. AllowanceInv'
  BY <1>1, <1>2, AllowanceType DEF AllowanceInv
<1>15. Forgetting'
  <2>1. suspect \cap cached = {}
    BY <1>2 DEF Forgetting
  <2>2. suspect' \cap cached' = {}
    BY <2>1 DEF StartRace
  <2> QED
    BY <2>2 DEF Forgetting
<1> QED
  BY <1>6, <1>7, <1>8, <1>9, <1>11, <1>12, <1>13, <1>14, <1>15

\* A call is given up, or has failed, and its connection is closed.
LEMMA InvDropped ==
    ASSUME Inv, Abandon \/ FinishBroken
    PROVE  Inv'
<1> USE DEF Inv
<1>1. /\ leased' = leased - 1 /\ pc \in {"abandoning", "finishing"}
      /\ UNCHANGED <<idle, held, pc, todo, streamTo, cur, outcome, suspect>>
      /\ cached' \subseteq cached
      /\ failure' \in {failure} \cup Broken
  BY DEF Abandon, FinishBroken, Finishing, names
<1>2. PICK k \in Opened :
        /\ CallDropped(k) /\ Shut(calls[k].conn)
        /\ pc = "finishing" => /\ calls[k].state \in Broken
                               /\ calls[k].state = "refused" => calls[k].origin \notin cached'
  <2>1. CASE Abandon
    BY <2>1, DroppingLast DEF Abandon
  <2>2. CASE FinishBroken
    BY <2>2, DroppingFirst DEF FinishBroken, Finishing
  <2> QED
    BY <2>1, <2>2
<1>3. Owned'
  BY <1>1, <1>2, CallShut
<1>4. /\ LeaseCountExact' /\ leased' \in Nat /\ leased \in Nat
      /\ Len(calls) \in Nat /\ Len(calls') = Len(calls) - 1
      /\ Len(idle) \in Nat /\ Len(todo) \in Nat
  <2>1. Len(calls) \in Nat /\ Len(calls') = Len(calls) - 1 /\ Len(calls') \in Nat
    BY <1>2, CallShape DEF CallDropped, Opened
  <2> QED
    BY <1>1, <2>1, LeasesKept, CallShape DEF TypeOK
<1>5. TypeOK'
  BY <1>1, <1>2, <1>4, CallShape DEF TypeOK, CallDropped, Shape, Shut
<1>6. Phases'
  BY <1>1, <1>2, Left DEF Phases
<1>7. Connections'
  BY <1>2, Left DEF Connections
<1>8. StreamFree'
  <2>1. calls # <<>>
    BY <1>2 DEF Opened
  <2> QED
    BY <1>1, <1>4, <2>1 DEF StreamFree
<1>9. WithinLimit' /\ AllowanceInv'
  BY <1>1, <1>4, LimitsAssumption, AllowanceType DEF WithinLimit, AllowanceInv, Between
<1>10. Forgetting'
  <2>1. ASSUME NEW o \in suspect' \cap cached'
        PROVE  \E i \in Opened' : calls'[i].state = "refused" /\ calls'[i].origin = o
    <3>1. PICK j \in Opened : calls[j].state = "refused" /\ calls[j].origin = o
      BY <1>1 DEF Forgetting
    <3>2. pc = "finishing"
      BY <1>1, <2>1 DEF Forgetting
    <3>3. j # k
      BY <1>2, <3>1, <3>2
    <3> QED
      BY <1>2, <3>1, <3>3, Left
  <2> QED
    BY <1>1, <2>1 DEF Forgetting
<1> QED
  BY <1>3, <1>4, <1>5, <1>6, <1>7, <1>8, <1>9, <1>10

LEMMA InvRaceWon ==
    ASSUME Inv, NEW k \in 1..MaxBatch, NEW c \in Conns, RaceWon(k, c)
    PROVE  Inv'
<1> USE DEF Inv
<1> DEFINE st == IF calls[k].origin \in TlsOrigins THEN "securing" ELSE "exchanging"
<1>1. /\ k \in Opened /\ calls[k].state = "racing" /\ pc = "running" /\ c \notin open
      /\ open' = open \cup {c} /\ originOf' = [originOf EXCEPT ![c] = calls[k].origin]
      /\ UNCHANGED <<idle, leased, sound, aged, held, pc, todo, streamTo, failure, cur, outcome,
                     cached, suspect>>
      /\ calls' = [calls EXCEPT ![k].conn = c, ![k].state = st]
  BY DEF RaceWon, InState, Opened, pool, names
<1>2. /\ calls \in Seq(Shape) /\ Len(calls) \in Nat /\ calls[k] \in Shape
      /\ calls[k].origin \in Origins /\ calls[k].conn = NoConn
  BY <1>1, CallShape DEF Connections
<1>3. CallChanged(k, c, st)
  <2> DEFINE r == [calls[k] EXCEPT !.conn = c, !.state = st]
  <2>1. r \in Shape
    BY <1>2 DEF Shape, CallStates
  <2>2. calls' = [calls EXCEPT ![k] = r]
    BY <1>1, <1>2 DEF Opened
  <2> HIDE DEF r
  <2>3. k \in 1..Len(calls)
    BY <1>1 DEF Opened
  <2>4. /\ [calls EXCEPT ![k] = r] \in Seq(Shape)
        /\ Len([calls EXCEPT ![k] = r]) = Len(calls)
        /\ \A j \in 1..Len(calls) : [calls EXCEPT ![k] = r][j] = IF j = k THEN r ELSE calls[j]
    BY <1>2, <2>1, <2>3, ExceptSeq
  <2> QED
    BY <2>2, <2>3, <2>4 DEF CallChanged, Opened, r
<1>4. st \in {"securing", "exchanging"}
  OBVIOUS
<1> HIDE DEF st
<1>5. Owned'
  BY <1>1, <1>2, <1>3, OpenedByCall
<1>6. /\ Opened' = Opened /\ calls'[k].conn = c /\ calls'[k].state = st /\ Len(calls') = Len(calls)
      /\ calls'[k].origin = calls[k].origin
      /\ \A i \in Opened : i # k => calls'[i] = calls[i]
  BY <1>2, <1>3 DEF CallChanged, Opened, Shape
<1>7. LeaseCountExact' /\ WithinLimit' /\ AllowanceInv'
  BY <1>1, <1>6 DEF LeaseCountExact, Holding, WithinLimit, AllowanceInv, Between
<1>8. TypeOK'
  BY <1>1, <1>2, <1>3 DEF TypeOK, CallChanged, Shape
<1>9. Phases'
  BY <1>1 DEF Phases
<1>10. Connections'
  BY <1>4, <1>6, ConnsAssumption DEF Connections
<1>11. StreamFree'
  <2>1. calls # <<>>
    BY <1>1 DEF Opened
  <2> QED
    BY <1>1, <1>6, <2>1 DEF StreamFree
<1>12. Forgetting'
  <2>1. ASSUME NEW o \in suspect' \cap cached'
        PROVE  \E i \in Opened' : calls'[i].state = "refused" /\ calls'[i].origin = o
    <3>1. PICK j \in Opened : calls[j].state = "refused" /\ calls[j].origin = o
      BY <1>1, <2>1 DEF Forgetting
    <3> QED
      BY <1>1, <1>6, <3>1
  <2> QED
    BY <1>1, <2>1 DEF Forgetting
<1> QED
  BY <1>5, <1>7, <1>8, <1>9, <1>10, <1>11, <1>12

\* A task gets further, or ends, and no connection changes hands.
Advances(k) ==
    \/ \E how \in {"refused", "timed_out"} : RaceLost(k, how)
    \/ HandshakeDone(k) \/ HandshakeFails(k)
    \/ \E fit \in BOOLEAN : ExchangeEnds(k, fit)
    \/ ExchangeFails(k)

LEMMA InvAdvances ==
    ASSUME Inv, NEW k \in 1..MaxBatch, Advances(k)
    PROVE  Inv'
<1> USE DEF Inv
<1>1. /\ k \in Opened /\ pc = "running"
      /\ UNCHANGED <<idle, leased, originOf, open, aged, held, pc, todo, streamTo, failure, cur,
                     outcome, cached>>
  BY DEF Advances, RaceLost, HandshakeDone, HandshakeFails, ExchangeEnds, ExchangeFails,
     InState, Opened, pool, names, world
<1>2. /\ calls[k] \in Shape /\ calls[k].conn \in open \cup {NoConn}
      /\ calls[k].origin \in Origins /\ calls[k].state \in CallStates
  BY <1>1, CallShape DEF Owned, Alive
<1>3. PICK st \in CallStates :
        /\ Becomes(k, st)
        /\ \/ calls[k].state = "racing" /\ st \in {"refused", "timed_out"}
           \/ /\ calls[k].state \in {"securing", "exchanging"}
              /\ st \in {"exchanging", "timed_out", "broken", "whole"}
        /\ suspect' = IF st = "refused" THEN suspect \cup {calls[k].origin} ELSE suspect
  <2>1. {"exchanging", "refused", "timed_out", "broken", "whole"} \subseteq CallStates
    BY DEF CallStates, Settled, Broken
  <2>2. ASSUME NEW how \in {"refused", "timed_out"}, RaceLost(k, how)
        PROVE  /\ Becomes(k, how) /\ calls[k].state = "racing"
               /\ suspect' = IF how = "refused" THEN suspect \cup {calls[k].origin} ELSE suspect
    BY <2>2 DEF RaceLost, InState
  <2>3. CASE HandshakeDone(k)
    BY <2>1, <2>3 DEF HandshakeDone, InState, names
  <2>4. CASE HandshakeFails(k)
    BY <2>1, <2>4 DEF HandshakeFails, InState, names
  <2>5. ASSUME NEW fit \in BOOLEAN, ExchangeEnds(k, fit)
        PROVE  Becomes(k, "whole") /\ calls[k].state = "exchanging" /\ suspect' = suspect
    BY <2>5 DEF ExchangeEnds, InState, names
  <2>6. CASE ExchangeFails(k)
    BY <2>1, <2>6 DEF ExchangeFails, InState, names
  <2> QED
    BY <2>1, <2>2, <2>3, <2>4, <2>5, <2>6 DEF Advances
<1>4. CallChanged(k, calls[k].conn, st)
  BY <1>1, <1>3, Changing
<1>5. /\ Opened' = Opened /\ calls'[k].conn = calls[k].conn /\ calls'[k].state = st
      /\ calls'[k].origin = calls[k].origin /\ Len(calls') = Len(calls)
      /\ calls' \in Seq(Shape)
      /\ \A i \in Opened : i # k => calls'[i] = calls[i]
  BY <1>2, <1>4 DEF CallChanged, Opened, Shape
<1>6. sound' \subseteq open
  <2>1. sound \subseteq open
    BY DEF TypeOK
  <2>2. ASSUME NEW fit \in BOOLEAN, ExchangeEnds(k, fit)
        PROVE  sound' \subseteq open
    BY <1>2, <2>1, <2>2, ConnsAssumption DEF ExchangeEnds, InState, Connections, Opened
  <2>3. ExchangeEnds(k, TRUE) \/ ExchangeEnds(k, FALSE) \/ sound' = sound
    BY DEF Advances, RaceLost, HandshakeDone, HandshakeFails, ExchangeFails, world
  <2> QED
    BY <2>1, <2>2, <2>3
<1>7. TypeOK'
  BY <1>1, <1>2, <1>3, <1>5, <1>6 DEF TypeOK, Shape
<1>8. Phases'
  BY <1>1 DEF Phases
<1>9. Connections'
  BY <1>3, <1>5 DEF Connections
<1>10. StreamFree'
  <2>1. calls # <<>>
    BY <1>1 DEF Opened
  <2> QED
    BY <1>1, <1>5, <2>1 DEF StreamFree
<1>11. Owned'
  <2>1. \A i \in Opened : calls'[i].conn = calls[i].conn
    BY <1>5
  <2> QED
    BY <1>1, <1>5, <2>1, NothingMoves
<1>12. LeaseCountExact' /\ WithinLimit' /\ AllowanceInv'
  BY <1>1, <1>5 DEF LeaseCountExact, Holding, WithinLimit, AllowanceInv, Between
<1>13. Forgetting'
  <2>1. ASSUME NEW o \in suspect' \cap cached'
        PROVE  \E i \in Opened' : calls'[i].state = "refused" /\ calls'[i].origin = o
    <3>1. CASE o \in suspect
      <4>1. PICK j \in Opened : calls[j].state = "refused" /\ calls[j].origin = o
        BY <1>1, <2>1, <3>1 DEF Forgetting
      <4> QED
        BY <1>3, <1>5, <4>1
    <3>2. CASE o \notin suspect
      BY <1>1, <1>3, <1>5, <2>1, <3>2
    <3> QED
      BY <3>1, <3>2
  <2> QED
    BY <1>1, <2>1 DEF Forgetting
<1> QED
  BY <1>7, <1>8, <1>9, <1>10, <1>11, <1>12, <1>13

\* A call is finished and was whole: its connection goes to _release, or to
\* the source of a stream with the lease.
LEMMA InvWhole ==
    ASSUME Inv, FinishWhole \/ FinishStream
    PROVE  Inv'
<1> USE DEF Inv
<1>1. /\ calls # <<>> /\ calls' = Tail(calls) /\ pc = "finishing" /\ Head(calls).state = "whole"
      /\ UNCHANGED <<idle, originOf, open, sound, aged, todo, streamTo, failure, outcome,
                     cached, suspect>>
  BY DEF FinishWhole, FinishStream, Finishing, pool, world, names
<1>2. /\ CallDropped(1) /\ 1 \in Opened /\ Head(calls) = calls[1]
      /\ calls[1].state = "whole" /\ calls[1].conn # NoConn /\ calls[1].conn \in Conns
      /\ todo = <<>> /\ cur = NoConn
      /\ Len(calls) \in Nat /\ Len(calls') = Len(calls) - 1 /\ Len(idle) \in Nat /\ leased \in Nat
  BY <1>1, DroppingFirst, CallShape DEF Connections, Phases, CallDropped, TypeOK
<1>3. Connections'
  BY <1>2, Left DEF Connections
<1>4. \A i \in Opened' : calls'[i].state \in Settled
  <2>1. \A i \in Opened' : \E j \in Opened : j # 1 /\ calls'[i] = calls[j]
    BY <1>2, Left
  <2>2. \A j \in Opened : j # 1 => calls[j].state \in Settled
    BY <1>1 DEF Phases
  <2> QED
    BY <2>1, <2>2
<1>5. Forgetting'
  <2>1. ASSUME NEW o \in suspect' \cap cached'
        PROVE  \E i \in Opened' : calls'[i].state = "refused" /\ calls'[i].origin = o
    <3>1. PICK j \in Opened : calls[j].state = "refused" /\ calls[j].origin = o
      BY <1>1, <2>1 DEF Forgetting
    <3>2. j # 1
      BY <1>2, <3>1
    <3> QED
      BY <1>2, <3>1, <3>2, Left
  <2>2. pc' \notin {"opening", "room", "abandoning"}
    BY DEF FinishWhole, FinishStream, Finishing
  <2> QED
    BY <2>1, <2>2 DEF Forgetting
<1>6. CASE FinishWhole
  <2>1. /\ streamTo = NoSource /\ leased' = leased - 1 /\ cur' = calls[1].conn
        /\ pc' = "release" /\ held' = held
    BY <1>2, <1>6 DEF FinishWhole
  <2>2. Owned'
    BY <1>1, <1>2, <2>1, CallToCur
  <2>3. LeaseCountExact' /\ leased' \in Nat
    BY <1>2, <2>1, LeasesKept DEF Opened
  <2>4. TypeOK'
    BY <1>1, <1>2, <2>1, <2>3 DEF TypeOK, CallDropped, Shape
  <2>5. Phases'
    BY <1>1, <1>2, <1>4, <2>1 DEF Phases
  <2>6. StreamFree'
    BY <1>1, <2>1 DEF StreamFree
  <2>7. WithinLimit' /\ AllowanceInv'
    BY <1>1, <1>2, <2>1, LimitsAssumption, AllowanceType DEF WithinLimit, AllowanceInv, Between
  <2> QED
    BY <1>3, <1>5, <2>2, <2>3, <2>4, <2>5, <2>6, <2>7
<1>7. CASE FinishStream
  <2>1. /\ streamTo \in Sources /\ held' = [held EXCEPT ![streamTo] = calls[1].conn]
        /\ leased' = leased /\ cur' = cur /\ pc' = pc
    BY <1>2, <1>7 DEF FinishStream, TypeOK, pool
  <2>2. /\ held[streamTo] = NoConn /\ Len(calls) <= 1 /\ Len(calls') = 0
        /\ NoSource \notin Sources
    BY <1>1, <1>2, <2>1, ConnsAssumption, CallShape DEF StreamFree, Opened
  <2>3. Owned'
    BY <1>1, <1>2, <2>1, <2>2, CallToSource
  <2>4. LeaseCountExact'
    <3>1. Holding' = Holding \cup {streamTo} /\ streamTo \notin Holding
      BY <1>2, <2>1, <2>2 DEF Holding, TypeOK
    <3>2. Cardinality(Holding') = Cardinality(Holding) + 1 /\ Cardinality(Holding) \in Nat
      BY <2>1, <3>1, HoldingCount
    <3> QED
      BY <1>2, <2>1, <3>2 DEF LeaseCountExact
  <2>5. TypeOK'
    BY <1>1, <1>2, <2>1 DEF TypeOK, CallDropped, Shape
  <2>6. Phases'
    BY <1>1, <1>2, <1>4, <2>1 DEF Phases
  <2>7. StreamFree'
    <3>1. calls' = <<>>
      BY <2>2, <2>5, EmptySeq DEF TypeOK
    <3> QED
      BY <1>1, <1>2, <2>2, <3>1 DEF StreamFree
  <2>8. WithinLimit' /\ AllowanceInv'
    BY <1>1, <2>1 DEF WithinLimit, AllowanceInv, Between
  <2> QED
    BY <1>3, <1>5, <2>3, <2>4, <2>5, <2>6, <2>7, <2>8
<1> QED
  BY <1>6, <1>7

LEMMA InvRelease ==
    ASSUME Inv, ReleaseKeeps \/ ReleaseCloses
    PROVE  Inv'
<1> USE DEF Inv
<1>1. /\ pc = "release" /\ cur # NoConn /\ cur' = NoConn /\ cur \in Conns
      /\ UNCHANGED <<leased, held, todo, calls, streamTo, failure, outcome, cached, suspect>>
  BY DEF ReleaseKeeps, ReleaseCloses, Phases, TypeOK, batch, names, pool
<1>2. Opened' = Opened /\ Holding' = Holding /\ Len(idle) \in Nat /\ leased \in Nat
  BY <1>1, CallShape DEF Opened, Holding, TypeOK
<1>3. Connections' /\ StreamFree' /\ LeaseCountExact'
  BY <1>1, <1>2 DEF Connections, StreamFree, LeaseCountExact
<1>4. CASE ReleaseKeeps
  <2>1. /\ idle' = Append(idle, cur) /\ pc' = "trim" /\ KeepaliveAllowance # 0
        /\ UNCHANGED <<originOf, open, sound, aged>>
    BY <1>4 DEF ReleaseKeeps, world
  <2>2. /\ idle' \in Seq(Conns) /\ Len(idle') = Len(idle) + 1
        /\ ToSet(idle') = ToSet(idle) \cup {cur} /\ NoRepeats(idle')
    BY <1>1, <2>1, AppendEntries DEF TypeOK, Owned, Exclusive
  <2>3. TypeOK'
    BY <1>1, <2>1, <2>2 DEF TypeOK
  <2>4. Phases'
    BY <1>1, <1>2, <2>1 DEF Phases
  <2>5. Owned'
    BY <1>1, <2>1, <2>2, CurToIdle
  <2>6. WithinLimit' /\ AllowanceInv'
    BY <1>1, <1>2, <2>1, <2>2, LimitsAssumption, AllowanceType
       DEF WithinLimit, AllowanceInv, Between
  <2>7. Forgetting'
    BY <1>1, <1>2, <2>1 DEF Forgetting
  <2> QED
    BY <1>3, <2>3, <2>4, <2>5, <2>6, <2>7
<1>5. CASE ReleaseCloses
  <2>1. idle' = idle /\ pc' = "finishing" /\ Shut(cur)
    BY <1>5 DEF ReleaseCloses, pool
  <2>2. TypeOK'
    BY <1>1, <2>1 DEF TypeOK, Shut
  <2>3. Phases'
    BY <1>1, <1>2, <2>1 DEF Phases
  <2>4. Owned'
    BY <1>1, <2>1, CurShut
  <2>5. WithinLimit' /\ AllowanceInv'
    BY <1>1, <1>2, <2>1, LimitsAssumption, AllowanceType DEF WithinLimit, AllowanceInv, Between
  <2>6. Forgetting'
    BY <1>1, <1>2, <2>1 DEF Forgetting
  <2> QED
    BY <1>3, <2>2, <2>3, <2>4, <2>5, <2>6
<1> QED
  BY <1>4, <1>5

\* A source is read to its end, or let go.
LEMMA InvSource ==
    ASSUME Inv, NEW s \in Sources, (\E fit \in BOOLEAN : SourceEnds(s, fit)) \/ SourceDrops(s)
    PROVE  Inv'
<1> USE DEF Inv
<1>1. /\ pc = "ready" /\ held[s] # NoConn /\ held[s] \in open /\ held[s] \in Conns
      /\ held' = [held EXCEPT ![s] = NoConn] /\ leased' = leased - 1
      /\ UNCHANGED <<idle, todo, calls, streamTo, failure, outcome, cached, suspect>>
  BY DEF SourceEnds, SourceDrops, batch, names, TypeOK, Owned, Alive
<1>2. /\ cur = NoConn /\ calls = <<>> /\ todo = <<>> /\ streamTo = NoSource
      /\ Opened = {} /\ Opened' = {} /\ Len(idle) \in Nat /\ leased \in Nat
  BY <1>1, CallShape DEF Phases, Opened, TypeOK
<1>3. LeaseCountExact' /\ leased' \in Nat
  BY <1>1, LeaseOfSource
<1>4. Connections' /\ StreamFree'
  BY <1>1, <1>2 DEF Connections, StreamFree
<1>5. ASSUME NEW fit \in BOOLEAN, SourceEnds(s, fit)
      PROVE  Inv'
  <2>1. /\ cur' = held[s] /\ pc' = "release" /\ UNCHANGED <<originOf, open, aged>>
        /\ sound' \subseteq sound \cup {held[s]}
    BY <1>5 DEF SourceEnds
  <2>2. TypeOK'
    BY <1>1, <1>3, <2>1 DEF TypeOK
  <2>3. Phases'
    BY <1>1, <1>2, <2>1 DEF Phases
  <2>4. Owned'
    BY <1>1, <1>2, <2>1, SourceToCur
  <2>5. WithinLimit' /\ AllowanceInv'
    BY <1>1, <1>2, <2>1, LimitsAssumption, AllowanceType DEF WithinLimit, AllowanceInv, Between
  <2>6. Forgetting'
    BY <1>1, <1>2, <2>1 DEF Forgetting
  <2> QED
    BY <1>3, <1>4, <2>2, <2>3, <2>4, <2>5, <2>6
<1>6. CASE SourceDrops(s)
  <2>1. cur' = cur /\ pc' = pc /\ Shut(held[s])
    BY <1>6 DEF SourceDrops
  <2>2. TypeOK'
    BY <1>1, <1>3, <2>1 DEF TypeOK, Shut
  <2>3. Phases'
    BY <1>1, <1>2, <2>1 DEF Phases
  <2>4. Owned'
    BY <1>1, <2>1, SourceShut
  <2>5. WithinLimit' /\ AllowanceInv'
    BY <1>1, <1>2, <2>1, LimitsAssumption, AllowanceType DEF WithinLimit, AllowanceInv, Between
  <2>6. Forgetting'
    BY <1>1, <1>2, <2>1 DEF Forgetting
  <2> QED
    BY <1>3, <1>4, <2>2, <2>3, <2>4, <2>5, <2>6
<1> QED
  BY <1>5, <1>6

LEMMA InvStep ==
    ASSUME Inv, [Next]_vars
    PROVE  Inv'
<1>1. CASE UNCHANGED vars
  <2>1. /\ UNCHANGED <<idle, leased, originOf, open, sound, aged, held, pc, todo, calls, streamTo,
                       failure, cur, outcome, cached, suspect>>
    BY <1>1 DEF vars, pool, world, batch, names
  <2>2. Phases' /\ StreamFree'
    BY <2>1 DEF Inv, Phases, StreamFree, Opened
  <2> QED
    BY <2>1, <2>2, InvStill DEF Inv, TypeOK
<1>2. CASE Next
  <2>1. \/ Asked \/ Fails \/ Turns \/ Ends \/ World \/ Evict \/ TakeIdle
        \/ (\E fresh \in BOOLEAN : StartRace(fresh))
        \/ Abandon \/ FinishBroken \/ FinishWhole \/ FinishStream \/ ReleaseKeeps \/ ReleaseCloses
        \/ (\E k \in 1..MaxBatch : Advances(k) \/ \E c \in Conns : RaceWon(k, c))
        \/ (\E s \in Sources : (\E fit \in BOOLEAN : SourceEnds(s, fit)) \/ SourceDrops(s))
    BY <1>2 DEF Next, Progress, Program, Step, Asked, Fails, Turns, Ends, Evict, Advances
  <2> QED
    BY <2>1, InvAsked, InvFails, InvTurns, InvEnds, InvWorld, InvEvict, InvTakeIdle, InvStartRace,
       InvDropped, InvWhole, InvRelease, InvAdvances, InvRaceWon, InvSource
<1> QED
  BY <1>1, <1>2

\* The invariant holds in every reachable state.
THEOREM Invariance == Spec => []Inv
<1>1. Init => Inv
  BY InvInit
<1>2. Inv /\ [Next]_vars => Inv'
  BY InvStep
<1> QED
  BY <1>1, <1>2, PTL DEF Spec

\* Every variable keeps its type.
THEOREM TypeCorrect == Spec => []TypeOK
<1>1. Inv => TypeOK
  BY DEF Inv
<1> QED
  BY <1>1, Invariance, PTL

\* Once every address of a host has refused, no later batch races on the
\* remembered answer, however the tasks and the finishing of batches interleave.
THEOREM RefusalsForgotten == Spec => []RefusedAnswerForgotten
<1>1. Inv => RefusedAnswerForgotten
  <2> SUFFICES ASSUME Inv, pc = "ready" PROVE suspect \cap cached = {}
    BY DEF RefusedAnswerForgotten
  <2>1. Opened = {}
    BY DEF Inv, Phases, Opened
  <2> QED
    BY <2>1 DEF Inv, Forgetting
<1> QED
  BY <1>1, Invariance, PTL

-----------------------------------------------------------------------------
(* The accounts.                                                           *)

\* The places that own a connection have none in common, so that what they own
\* adds up to what is open.
LEMMA OwnersAddUp ==
    ASSUME Inv
    PROVE  OneOwner
<1> USE DEF Inv
<1> DEFINE A == ToSet(idle)
           B == { calls[i].conn : i \in Calling }
           C == { held[s] : s \in Holding }
           D == IF cur = NoConn THEN {} ELSE {cur}
<1>1. A \cup B \cup C \cup D = open
  BY NoConnNotIdle, ConnsAssumption DEF Owned, Alive, Covered, Calling, Holding, Opened, TypeOK
<1>2. IsFiniteSet(A) /\ Cardinality(A) = Len(idle) /\ Len(idle) \in Nat
  BY EntriesCounted, CallShape DEF Owned, Exclusive, TypeOK
<1>3. IsFiniteSet(B) /\ Cardinality(B) = Cardinality(Calling)
  <2> DEFINE f == [i \in Opened |-> calls[i].conn]
  <2>1. Calling \subseteq Opened /\ IsFiniteSet(Opened)
    BY CallShape, FS_Interval DEF Calling, Opened
  <2>2. IsFiniteSet(Calling)
    BY <2>1, FS_Subset
  <2>3. \A i, j \in Calling : f[i] = f[j] => i = j
    BY <2>1 DEF Owned, Exclusive, Calling
  <2>4. B = {f[i] : i \in Calling}
    BY <2>1
  <2> HIDE DEF f, B
  <2> QED
    BY <2>2, <2>3, <2>4, OneEach
<1>4. IsFiniteSet(C) /\ Cardinality(C) = Cardinality(Holding)
  <2>1. IsFiniteSet(Holding)
    BY HoldingCount
  <2>2. \A s, t \in Holding : held[s] = held[t] => s = t
    BY DEF Owned, Exclusive, Holding
  <2> HIDE DEF C
  <2>3. C = {held[s] : s \in Holding}
    BY DEF C
  <2> QED
    BY <2>1, <2>2, <2>3, OneEach
<1>5. IsFiniteSet(D) /\ Cardinality(D) = IF cur = NoConn THEN 0 ELSE 1
  BY FS_EmptySet, FS_Singleton
<1>6. A \cap B = {} /\ (A \cup B) \cap C = {} /\ (A \cup B \cup C) \cap D = {}
  BY DEF Owned, Exclusive, Calling, Holding, Opened
<1> HIDE DEF A, B, C, D
<1>7. IsFiniteSet(A \cup B) /\ Cardinality(A \cup B) = Cardinality(A) + Cardinality(B)
  BY <1>2, <1>3, <1>6, DisjointUnion
<1>8. /\ IsFiniteSet(A \cup B \cup C)
      /\ Cardinality(A \cup B \cup C) = Cardinality(A \cup B) + Cardinality(C)
  BY <1>4, <1>6, <1>7, DisjointUnion
<1>9. Cardinality(open) = Cardinality(A \cup B \cup C) + Cardinality(D)
  BY <1>1, <1>5, <1>6, <1>8, DisjointUnion
<1>10. /\ Cardinality(open) = Len(idle) + Cardinality(Calling) + Cardinality(Holding)
                                + (IF cur = NoConn THEN 0 ELSE 1)
  BY <1>2, <1>3, <1>4, <1>5, <1>7, <1>8, <1>9
<1> QED
  BY <1>1, <1>10 DEF OneOwner, A, B, C, D

\* The leases and the sockets are accounted for at every step of every task,
\* for batches of any length, any limits and any number of sources.
THEOREM AccountsKept == Spec => []Accounted
<1>1. Inv => Accounted
  BY OwnersAddUp DEF Inv, Accounted
<1> QED
  BY <1>1, Invariance, PTL

\* A full pool is reported only when the batch and the sources hold all of it.
THEOREM TimeoutsJustified == Spec => TimeoutMeansAllHeld
<1> DEFINE Justified == failure' = "pool_timeout" /\ failure # failure' =>
                          Len(calls) + Cardinality(Holding) >= MaxConnections
<1>1. ASSUME Inv, [Next]_vars, failure' = "pool_timeout", failure # failure'
      PROVE  PoolIsFull
  <2>1. CASE Progress
    BY <1>1, <2>1 DEF Progress, RefuseTunnel, TakeIdle, DiscardStale, NoneIdle, EvictForRoom,
       PoolDeadlinePassed, StartRace, CannotStart, AllOpened, Abandon, AllAbandoned, AllSettled,
       FinishWhole, FinishBroken, Finishing, Broken, FinishStream, AllFinished, ReleaseKeeps,
       ReleaseCloses, EvictToTrim, Trimmed, Closed, OpenRaises, Return, batch
  <2>2. CASE ~Progress
    BY <1>1, <2>2 DEF Next, Step, Program, World, HandleMany, StreamRequest, SourceEnds,
       SourceDrops, CloseOne, PeerDisturbs, Age, AnswerExpires, RaceWon, RaceLost, HandshakeDone,
       HandshakeFails, ExchangeEnds, ExchangeFails, vars, batch
  <2> QED
    BY <2>1, <2>2
<1>2. ASSUME Inv, PoolIsFull
      PROVE  Len(calls) + Cardinality(Holding) >= MaxConnections
  <2>1. Len(idle) = 0 /\ leased \in Nat /\ MaxConnections \in Nat /\ ~(Len(idle) + leased < MaxConnections)
    BY <1>2, LimitsAssumption DEF PoolIsFull, RoomLeft, Inv, TypeOK
  <2> QED
    BY <1>2, <2>1 DEF Inv, LeaseCountExact
<1>3. Inv /\ [Next]_vars => [Justified]_vars
  BY <1>1, <1>2
<1> QED
  BY <1>3, Invariance, PTL DEF Spec, TimeoutMeansAllHeld

-----------------------------------------------------------------------------
(* The async pool implements the ledger.                                   *)

\* A step the ledger does not see.
LEMMA LedgerStays ==
    ASSUME open' = open, Waiting' = Waiting
    PROVE  UNCHANGED Status
BY DEF Status

LEMMA LedgerCounts == \A S : Ledger!Cardinality(S) = Cardinality(S)
BY DEF Ledger!Cardinality, Cardinality, Ledger!IsFiniteSet, IsFiniteSet

LEMMA LedgerOpens ==
    ASSUME NEW c \in Conns, c \notin open, Waiting \subseteq open, open \subseteq Conns,
           Cardinality(open) < Unbounded(MaxConnections),
           open' = open \cup {c}, Waiting' = Waiting
    PROVE  Ledger!Open(c)
<1>1. Status[c] = "closed" /\ Status' = [Status EXCEPT ![c] = "busy"]
  BY DEF Status
<1>2. Conns \ Ledger!Of("closed") = open
  BY DEF Ledger!Of, Status
<1> QED
  BY <1>1, <1>2, LedgerCounts DEF Ledger!Open

LEMMA LedgerParks ==
    ASSUME NEW c \in Conns, c \in open, c \notin Waiting,
           Waiting \subseteq open, open \subseteq Conns,
           Cardinality(Waiting) < Unbounded(KeepaliveAllowance),
           open' = open, Waiting' = Waiting \cup {c}
    PROVE  Ledger!Park(c)
<1>1. Status[c] = "busy" /\ Status' = [Status EXCEPT ![c] = "idle"]
  BY DEF Status
<1>2. Ledger!Of("idle") = Waiting
  BY DEF Ledger!Of, Status
<1> QED
  BY <1>1, <1>2, LedgerCounts DEF Ledger!Park

LEMMA LedgerDisplaces ==
    ASSUME NEW c \in Conns, NEW d \in Conns, c # d, c \in open, c \notin Waiting, d \in Waiting, d \in open,
           open' = open \ {d}, Waiting' = (Waiting \ {d}) \cup {c}
    PROVE  Ledger!Displace(c, d)
<1>1. /\ Status[c] = "busy" /\ Status[d] = "idle"
      /\ Status' = [Status EXCEPT ![c] = "idle", ![d] = "closed"]
  BY DEF Status
<1> QED
  BY <1>1 DEF Ledger!Displace

LEMMA LedgerReuses ==
    ASSUME NEW c \in Conns, c \in open, c \in Waiting, open' = open, Waiting' = Waiting \ {c}
    PROVE  Ledger!Reuse(c)
<1>1. Status[c] = "idle" /\ Status' = [Status EXCEPT ![c] = "busy"]
  BY DEF Status
<1> QED
  BY <1>1 DEF Ledger!Reuse

LEMMA LedgerCloses ==
    ASSUME NEW c \in Conns, c \in open, open' = open \ {c}, Waiting' = Waiting \ {c}
    PROVE  Ledger!Close(c)
<1>1. Status[c] # "closed" /\ Status' = [Status EXCEPT ![c] = "closed"]
  BY DEF Status
<1> QED
  BY <1>1 DEF Ledger!Close

\* Outside the trimming the ledger sees the whole list as idle.
LEMMA AllWait ==
    /\ pc # "trim" \/ ~OverAllowance => Waiting = ToSet(idle)
    /\ pc' # "trim" \/ ~OverAllowance' => Waiting' = ToSet(idle)'
BY DEF Waiting

LEMMA LastWaits ==
    ASSUME NEW S, NEW s \in Seq(S), s # <<>>
    PROVE  Last(s) = s[Len(s)] /\ Len(s) \in 1..Len(s) /\ Head(s) = s[1] /\ 1 \in 1..Len(s)
BY LenProperties, EmptySeq, HeadTailProperties DEF Last

LEMMA LedgerStep ==
    ASSUME Inv, [Next]_vars
    PROVE  [Ledger!Next]_Status
<1>1. /\ ToSet(idle) \subseteq open /\ open \subseteq Conns /\ Waiting \subseteq ToSet(idle)
      /\ idle \in Seq(Conns) /\ Len(idle) \in Nat /\ NoRepeats(idle) /\ NoConn \notin open
  BY CallShape, ConnsAssumption DEF Inv, Owned, Alive, Exclusive, TypeOK, Waiting
<1>2. /\ cur # NoConn => cur \in open /\ cur \notin ToSet(idle)
      /\ \A s \in Sources : held[s] # NoConn => held[s] \in open /\ held[s] \notin ToSet(idle)
      /\ \A i \in Opened :
           calls[i].conn # NoConn => calls[i].conn \in open /\ calls[i].conn \notin ToSet(idle)
  BY DEF Inv, Owned, Alive, Exclusive
<1> DEFINE Moved ==
             \/ UNCHANGED Status
             \/ \E c \in Conns : \/ Ledger!Open(c) \/ Ledger!Park(c) \/ Ledger!Reuse(c)
                                 \/ Ledger!Close(c)
             \/ \E c, d \in Conns : Ledger!Displace(c, d)
<1> SUFFICES Moved
  BY DEF Ledger!Next
<1>3. ASSUME open' = open, idle' = idle, pc # "trim" \/ ~OverAllowance, pc' # "trim" PROVE Moved
  BY <1>3, AllWait, LedgerStays
<1>4. ASSUME NEW c \in ToSet(idle), Shut(c), ToSet(idle') = ToSet(idle) \ {c},
             pc # "trim", pc' # "trim"
      PROVE  Moved
  <2>1. Ledger!Close(c)
    BY <1>1, <1>4, AllWait, LedgerCloses DEF Shut
  <2> QED
    BY <1>1, <2>1
<1>5. ASSUME NEW c \in open, c \notin ToSet(idle), Shut(c), idle' = idle, pc # "trim", pc' # "trim"
      PROVE  Moved
  <2>1. Ledger!Close(c)
    BY <1>1, <1>5, AllWait, LedgerCloses DEF Shut
  <2> QED
    BY <1>1, <2>1
<1>6. CASE Asked \/ Fails \/ Turns \/ Ends
  <2>1. /\ open' = open /\ idle' = idle /\ pc' # "trim"
    BY <1>6 DEF Asked, HandleMany, StreamRequest, Fails, RefuseTunnel, PoolIsFull,
       PoolDeadlinePassed, CannotStart, OpenRaises, Turns, NoneIdle, AllOpened, AllSettled,
       Trimmed, Ends, AllAbandoned, AllFinished, Closed, Return, pool, world
  <2>2. pc # "trim" \/ ~OverAllowance
    BY <1>6 DEF Asked, HandleMany, StreamRequest, Fails, RefuseTunnel, PoolIsFull,
       PoolDeadlinePassed, CannotStart, Turns, NoneIdle, Opening, AllOpened, AllSettled,
       Trimmed, Ends, AllAbandoned, AllFinished, Closed
  <2> QED
    BY <1>3, <2>1, <2>2
<1>7. CASE World \/ UNCHANGED vars
  <2>1. idle' = idle /\ open' = open /\ pc' = pc
    BY <1>7 DEF World, PeerDisturbs, Age, AnswerExpires, vars, pool, world
  <2>2. Waiting' = Waiting
    BY <2>1 DEF Waiting, OverAllowance
  <2> QED
    BY <2>1, <2>2, LedgerStays
<1>8. CASE TakeIdle
  <2> DEFINE c == idle[FirstCandidate]
  <2>1. /\ c \in ToSet(idle) /\ c \in Conns /\ ToSet(idle') = ToSet(idle) \ {c}
        /\ open' = open /\ pc # "trim" /\ pc' # "trim"
    BY <1>8, CandidateTaken DEF TakeIdle, Opening, Inv, Owned
  <2> HIDE DEF c
  <2>2. Ledger!Reuse(c)
    BY <1>1, <2>1, AllWait, LedgerReuses
  <2> QED
    BY <2>1, <2>2
<1>9. CASE DiscardStale
  BY <1>4, <1>9, CandidateTaken DEF DiscardStale, Opening, Inv, Owned
<1>10. CASE EvictForRoom \/ CloseOne
  BY <1>4, <1>10, OldestEvicted DEF EvictForRoom, CloseOne, Inv, Owned
<1>11. CASE \/ (\E fresh \in BOOLEAN : StartRace(fresh)) \/ FinishWhole \/ FinishStream
            \/ (\E k \in 1..MaxBatch : Advances(k))
            \/ (\E s \in Sources, fit \in BOOLEAN : SourceEnds(s, fit))
  <2>1. open' = open /\ idle' = idle /\ pc # "trim" /\ pc' # "trim"
    BY <1>11 DEF StartRace, FinishWhole, FinishStream, Finishing, Advances, RaceLost,
       HandshakeDone, HandshakeFails, ExchangeEnds, ExchangeFails, InState, SourceEnds, pool, world
  <2> QED
    BY <1>3, <2>1
<1>12. CASE Abandon \/ FinishBroken
  <2>1. PICK k \in Opened : Shut(calls[k].conn)
    BY <1>12, DroppingFirst, DroppingLast DEF Abandon, FinishBroken, Finishing, Inv
  <2>2. idle' = idle /\ pc # "trim" /\ pc' # "trim"
    BY <1>12 DEF Abandon, FinishBroken, Finishing
  <2>3. CASE calls[k].conn = NoConn
    BY <1>1, <1>3, <2>1, <2>2, <2>3 DEF Shut
  <2>4. CASE calls[k].conn # NoConn
    BY <1>2, <1>5, <2>1, <2>2, <2>4
  <2> QED
    BY <2>3, <2>4
<1>13. ASSUME NEW k \in 1..MaxBatch, NEW c \in Conns, RaceWon(k, c) PROVE Moved
  <2>1. /\ c \notin open /\ open' = open \cup {c} /\ idle' = idle /\ k \in Opened
        /\ calls[k].state = "racing" /\ pc = "running" /\ pc' # "trim"
    BY <1>13 DEF RaceWon, InState, Opened, pool
  <2>2. Cardinality(open) < Unbounded(MaxConnections)
    <3>1. CASE MaxConnections = None
      <4>1. IsFiniteSet(Conns) /\ open \subseteq Conns /\ open # Conns
        BY <1>1, <2>1, ConnsAssumption
      <4> QED
        BY <3>1, <4>1, FS_Subset, FS_CardinalityType DEF Unbounded
    <3>2. CASE MaxConnections # None
      <4>1. /\ cur = NoConn /\ Between = 0 /\ leased \in Nat
            /\ Cardinality(Holding) \in Nat /\ Len(calls) \in Nat
        BY <2>1, HoldingCount, CallShape DEF Inv, Phases, Between, TypeOK
      <4>2. Len(idle) + leased <= MaxConnections /\ MaxConnections \in Nat
        BY <1>1, <3>2, <4>1, LimitsAssumption DEF Inv, WithinLimit
      <4>3. Cardinality(Calling) < Len(calls) /\ Cardinality(Calling) \in Nat
        <5>1. Calling \subseteq Opened /\ k \notin Calling
          BY <2>1 DEF Calling, Opened, Inv, Connections
        <5>2. IsFiniteSet(Opened) /\ Cardinality(Opened) = Len(calls)
          <6>1. 1 \in Int /\ Len(calls) \in Int
            BY <4>1
          <6>2. /\ IsFiniteSet(1..Len(calls))
                /\ Cardinality(1..Len(calls)) = IF 1 > Len(calls) THEN 0 ELSE Len(calls) - 1 + 1
            BY <6>1, FS_Interval
          <6> QED
            BY <4>1, <6>2 DEF Opened
        <5>3. /\ Calling \subseteq Opened /\ Calling # Opened
          BY <2>1, <5>1
        <5> QED
          BY <5>2, <5>3, FS_Subset, FS_CardinalityType
      <4>4. /\ Cardinality(open) = Len(idle) + Cardinality(Calling) + Cardinality(Holding)
            /\ leased = Len(calls) + Cardinality(Holding)
        BY <1>1, <4>1, <4>3, OwnersAddUp DEF Inv, OneOwner, LeaseCountExact
      <4> QED
        BY <1>1, <3>2, <4>1, <4>2, <4>3, <4>4 DEF Unbounded
    <3> QED
      BY <3>1, <3>2
  <2>3. Ledger!Open(c)
    BY <1>1, <2>1, <2>2, AllWait, LedgerOpens
  <2> QED
    BY <2>3
<1>14. CASE ReleaseCloses
  <2>1. /\ cur # NoConn /\ Shut(cur) /\ idle' = idle /\ pc # "trim" /\ pc' # "trim"
    BY <1>14 DEF ReleaseCloses, pool, Inv, Phases
  <2> QED
    BY <1>2, <1>5, <2>1
<1>15. ASSUME NEW s \in Sources, SourceDrops(s) PROVE Moved
  BY <1>2, <1>5, <1>15 DEF SourceDrops
<1>16. CASE ReleaseKeeps
  <2>1. /\ cur # NoConn /\ cur \in Conns /\ cur \in open /\ cur \notin ToSet(idle)
        /\ open' = open /\ idle' = Append(idle, cur) /\ pc = "release" /\ pc' = "trim"
        /\ KeepaliveAllowance # 0
    BY <1>1, <1>2, <1>16 DEF ReleaseKeeps, Inv, Phases, world
  <2>2. /\ idle' \in Seq(Conns) /\ Len(idle') = Len(idle) + 1
        /\ ToSet(idle') = ToSet(idle) \cup {cur}
    BY <1>1, <2>1, AppendEntries
  <2>3. Last(idle') = cur /\ Waiting = ToSet(idle)
    BY <1>1, <2>1, <2>2, AppendProperties, AllWait DEF Last
  <2>4. CASE OverAllowance'
    <3>1. Waiting' = Waiting
      BY <2>1, <2>2, <2>3, <2>4 DEF Waiting
    <3> QED
      BY <2>1, <3>1, LedgerStays
  <2>5. CASE ~OverAllowance'
    <3>1. Waiting' = Waiting \cup {cur}
      BY <2>2, <2>3, <2>5, AllWait
    <3>2. IsFiniteSet(ToSet(idle)) /\ Cardinality(ToSet(idle)) <= Len(idle)
          /\ Cardinality(ToSet(idle)) \in Nat
      BY <1>1, EntriesBounded, FS_CardinalityType
    <3>3. Cardinality(Waiting) < Unbounded(KeepaliveAllowance)
      <4>1. CASE KeepaliveAllowance = None
        <5>1. IsFiniteSet(Conns) /\ Waiting \subseteq Conns /\ Waiting # Conns
          BY <1>1, <2>1, <2>3, ConnsAssumption
        <5> QED
          BY <4>1, <5>1, FS_Subset, FS_CardinalityType DEF Unbounded
      <4>2. CASE KeepaliveAllowance # None
        <5>1. KeepaliveAllowance \in Nat /\ KeepaliveAllowance > 0
          BY <2>1, <4>2, AllowanceType
        <5>2. Len(idle) + 1 <= KeepaliveAllowance
          BY <1>1, <2>2, <2>5, <4>2, <5>1 DEF OverAllowance, KeepaliveAllowance
        <5> QED
          BY <1>1, <2>3, <3>2, <4>2, <5>1, <5>2 DEF Unbounded
      <4> QED
        BY <4>1, <4>2
    <3>4. Ledger!Park(cur)
      BY <1>1, <2>1, <2>3, <3>1, <3>3, LedgerParks
    <3> QED
      BY <2>1, <3>4
  <2> QED
    BY <2>4, <2>5
<1>17. CASE EvictToTrim
  <2>1. /\ pc = "trim" /\ pc' = "trim" /\ OverAllowance /\ EvictOldest
    BY <1>17 DEF EvictToTrim
  <2>2. /\ KeepaliveAllowance \in Nat /\ KeepaliveAllowance > 0
        /\ Len(idle) = KeepaliveAllowance + 1
    BY <1>1, <2>1, AllowanceType DEF OverAllowance, AllowanceInv, Inv
  <2>3. idle # <<>>
    BY <2>2
  <2>4. /\ Head(idle) \in Conns /\ Head(idle) \in ToSet(idle) /\ open' = open \ {Head(idle)}
        /\ Len(idle') = Len(idle) - 1 /\ ToSet(idle') = ToSet(idle) \ {Head(idle)}
    BY <2>1, <2>3, OldestEvicted DEF Inv, Owned, Shut
  <2>5. ~OverAllowance'
    BY <1>1, <2>2, <2>4 DEF OverAllowance, KeepaliveAllowance
  <2>6. /\ Last(idle) \in ToSet(idle) /\ Head(idle) # Last(idle) /\ Last(idle) \in Conns
    <3>1. /\ Last(idle) = idle[Len(idle)] /\ Len(idle) \in 1..Len(idle)
          /\ Head(idle) = idle[1] /\ 1 \in 1..Len(idle)
      BY <1>1, <2>3, LastWaits
    <3>2. idle[Len(idle)] \in ToSet(idle)
      BY <1>1, <3>1, LenProperties DEF ToSet
    <3> QED
      BY <1>1, <2>2, <3>1, <3>2 DEF NoRepeats
  <2>7. Waiting = ToSet(idle) \ {Last(idle)} /\ Waiting' = ToSet(idle')
    BY <2>1, <2>5 DEF Waiting
  <2> DEFINE c == Last(idle)
             d == Head(idle)
  <2>8. /\ c \in Conns /\ d \in Conns /\ c # d /\ c \in open /\ c \notin Waiting
        /\ d \in Waiting /\ d \in open
        /\ open' = open \ {d} /\ Waiting' = (Waiting \ {d}) \cup {c}
    BY <1>1, <2>4, <2>6, <2>7
  <2> HIDE DEF c, d
  <2>9. Ledger!Displace(c, d)
    BY <2>8, LedgerDisplaces
  <2> QED
    BY <2>8, <2>9
<1> HIDE DEF Moved
<1>18. CASE Next
  <2>1. \/ Asked \/ Fails \/ Turns \/ Ends \/ World \/ TakeIdle
        \/ DiscardStale \/ EvictForRoom \/ EvictToTrim \/ CloseOne
        \/ (\E fresh \in BOOLEAN : StartRace(fresh))
        \/ Abandon \/ FinishBroken \/ FinishWhole \/ FinishStream \/ ReleaseKeeps \/ ReleaseCloses
        \/ (\E k \in 1..MaxBatch : Advances(k) \/ \E c \in Conns : RaceWon(k, c))
        \/ (\E s \in Sources : (\E fit \in BOOLEAN : SourceEnds(s, fit)) \/ SourceDrops(s))
    BY <1>18 DEF Next, Progress, Program, Step, Asked, Fails, Turns, Ends, Advances
  <2> QED
    BY <2>1, <1>6, <1>7, <1>8, <1>9, <1>10, <1>11, <1>12, <1>13, <1>14, <1>15, <1>16, <1>17
<1> QED
  BY <1>7, <1>18

\* The async pool implements the ledger of the synchronous one: whatever its
\* limits, every step of a task, of a batch or of a source is one the ledger
\* allows, or one it does not see.
THEOREM LedgerImplemented == Spec => ImplementsLedger
<1>1. Init => Ledger!Init
  BY DEF Init, Ledger!Init, Status
<1>2. Inv /\ [Next]_vars => [Ledger!Next]_Status
  BY LedgerStep
<1> QED
  BY <1>1, <1>2, Invariance, PTL DEF Spec, ImplementsLedger, Ledger!Spec

==============================================================================
