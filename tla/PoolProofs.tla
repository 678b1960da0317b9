------------------------------ MODULE PoolProofs ------------------------------
(***************************************************************************)
(* Proofs that the pool keeps its account of leases, its limits and the    *)
(* ownership of its sockets, for any numbers of them and any limits.       *)
(***************************************************************************)
EXTENDS Pool, SeqLemmas

Judging == {"scan", "room", "connect", "handshake", "exchange"}

HoldsOne == {"handshake", "exchange", "release"}

\* What the phases of a call say of the rest of the state.
Phases ==
    /\ pc \in Judging => call \in Calls
    /\ call.kind = "stream" => held[call.source] = NoConn
    /\ cur # NoConn <=> pc \in HoldsOne
    /\ pc = "trim" => KeepaliveAllowance # 0

\* The connection a call is opening, or is about to park, is promised a place
\* though neither the list nor the count has it.
Promised == IF pc \in {"connect", "handshake", "release"} THEN 1 ELSE 0

CountersWithinLimit ==
    MaxConnections # None => TotalCount + Promised <= MaxConnections

\* The inductive invariant.  TypeOK alone is not one (a lease given back must
\* have been counted), LeaseCountExact needs the phases, and what IsStale and
\* the closing of a socket say of the others needs OneOwner.
Inv == TypeOK /\ Phases /\ LeaseCountExact /\ CountersWithinLimit /\ OneOwner

-----------------------------------------------------------------------------
(* Facts about single definitions.                                         *)

LEMMA CallShape ==
    /\ \A c \in Calls : /\ c.kind \in {"handle", "stream"} /\ c.origin \in Origins
                        /\ c.kind = "stream" => c.source \in Sources
    /\ Idle.kind = "none"
BY DEF Calls, Idle

LEMMA FirstCandidateFound ==
    ASSUME idle \in Seq(Conns), Candidates # {}
    PROVE  /\ FirstCandidate \in Candidates /\ FirstCandidate \in 1..Len(idle)
           /\ FirstCandidate \in Nat \ {0}
           /\ \A j \in Candidates : FirstCandidate <= j
<1>1. Candidates \in SUBSET Nat /\ Candidates \subseteq 1..Len(idle)
  BY LenProperties DEF Candidates
<1>2. \E i \in Candidates : \A j \in Candidates : i <= j
  BY <1>1, FirstExists
<1>3. FirstCandidate \in Candidates /\ \A j \in Candidates : FirstCandidate <= j
  BY <1>2 DEF FirstCandidate
<1>4. Len(idle) \in Nat
  BY LenProperties
<1> QED
  BY <1>1, <1>3, <1>4

LEMMA HoldingCount ==
    ASSUME TypeOK
    PROVE  /\ IsFiniteSet(Holding) /\ Cardinality(Holding) \in Nat
           /\ \A s \in Sources :
                Cardinality(Holding \cup {s}) =
                  IF s \in Holding THEN Cardinality(Holding) ELSE Cardinality(Holding) + 1
           /\ \A s \in Holding : Cardinality(Holding \ {s}) = Cardinality(Holding) - 1
<1>1. Holding \in SUBSET Sources
  BY DEF Holding
<1>2. IsFiniteSet(Holding)
  BY <1>1, ConnsAssumption, FS_Subset
<1> QED
  BY <1>2, FS_CardinalityType, FS_AddElement, FS_RemoveElement

\* The count of leases is positive whenever something is leased.
LEMMA SomethingLeased ==
    ASSUME TypeOK, LeaseCountExact, pc = "exchange" \/ Holding # {}
    PROVE  leased - 1 \in Nat
<1>1. IsFiniteSet(Holding) /\ Cardinality(Holding) \in Nat
  BY HoldingCount
<1>2. Holding # {} => Cardinality(Holding) # 0
  BY <1>1, FS_EmptySet
<1> QED
  BY <1>1, <1>2 DEF LeaseCountExact

LEMMA ShutType ==
    ASSUME TypeOK, NEW c \in Conns, Shut(c)
    PROVE  /\ originOf' \in [Conns -> Origins \cup {NoOrigin}]
           /\ open' \subseteq Conns /\ sound' \subseteq open' /\ aged' \subseteq open'
BY DEF TypeOK, Shut

\* Taking a candidate out of the list, to be leased or to be closed.
LEMMA CandidateTaken ==
    ASSUME TypeOK, OneOwner, Candidates # {},
           idle' = RemoveAt(idle, FirstCandidate)
    PROVE  /\ idle[FirstCandidate] \in Conns
           /\ idle[FirstCandidate] \in ToSet(idle)
           /\ idle' \in Seq(Conns)
           /\ Len(idle) \in Nat /\ Len(idle') = Len(idle) - 1
           /\ ToSet(idle') = ToSet(idle) \ {idle[FirstCandidate]}
           /\ NoRepeats(idle')
<1>1. idle \in Seq(Conns) /\ NoRepeats(idle)
  BY DEF TypeOK, OneOwner, NoRepeats
<1>2. FirstCandidate \in 1..Len(idle)
  BY <1>1, FirstCandidateFound
<1>3. idle[FirstCandidate] \in Conns /\ idle[FirstCandidate] \in ToSet(idle)
  BY <1>1, <1>2, ElementOfSeq, LenProperties DEF ToSet
<1> QED
  BY <1>1, <1>2, <1>3, RemoveAtProperties, RemoveAtEntries, LenProperties

\* Closing the one that has waited longest.
LEMMA OldestEvicted ==
    ASSUME TypeOK, OneOwner, idle # <<>>, EvictOldest
    PROVE  /\ Head(idle) \in Conns /\ Head(idle) \in ToSet(idle)
           /\ Shut(Head(idle))
           /\ idle' \in Seq(Conns)
           /\ Len(idle) \in Nat /\ Len(idle') = Len(idle) - 1
           /\ ToSet(idle') = ToSet(idle) \ {Head(idle)}
           /\ NoRepeats(idle')
<1>1. idle \in Seq(Conns) /\ NoRepeats(idle)
  BY DEF TypeOK, OneOwner, NoRepeats
<1> QED
  BY <1>1, TailEntries, LenProperties DEF EvictOldest

\* A step that moves no source keeps the account if it counts the call right.
LEMMA LeaseCountKept ==
    ASSUME TypeOK, LeaseCountExact, held' = held,
           leased' - (IF pc' = "exchange" THEN 1 ELSE 0)
             = leased - (IF pc = "exchange" THEN 1 ELSE 0),
           leased' \in Nat
    PROVE  LeaseCountExact'
<1>1. Holding' = Holding
  BY DEF Holding
<1>2. Cardinality(Holding) \in Nat
  BY HoldingCount
<1>3. leased \in Nat
  BY DEF TypeOK
<1> QED
  BY <1>1, <1>2, <1>3 DEF LeaseCountExact

\* A source lets its connection go, and its lease with it.
LEMMA LeaseCountOfSource ==
    ASSUME TypeOK, LeaseCountExact, pc = "ready", pc' # "exchange",
           NEW s \in Sources, held[s] # NoConn,
           held' = [held EXCEPT ![s] = NoConn], leased' = leased - 1
    PROVE  LeaseCountExact'
<1>1. s \in Holding /\ Holding' = Holding \ {s}
  BY DEF Holding, TypeOK
<1>2. /\ Cardinality(Holding \ {s}) = Cardinality(Holding) - 1
      /\ Cardinality(Holding) \in Nat
  BY <1>1, HoldingCount
<1> QED
  BY <1>1, <1>2 DEF LeaseCountExact

-----------------------------------------------------------------------------
(* Every move of a socket from one owner to another, or to none.           *)

\* The idle list names sockets, so NoConn is never on it.
LEMMA IdleAreConns ==
    ASSUME TypeOK
    PROVE  ToSet(idle) \subseteq Conns /\ NoConn \notin Conns
BY LenProperties, ElementOfSeq, ConnsAssumption DEF TypeOK, ToSet

LEMMA NothingMoves ==
    ASSUME OneOwner, idle' = idle, held' = held, cur' = cur, open' = open
    PROVE  OneOwner'
BY DEF OneOwner, Holding

\* From the idle list to nowhere.
LEMMA IdleShut ==
    ASSUME TypeOK, OneOwner, NEW c \in ToSet(idle), Shut(c),
           held' = held, cur' = cur,
           ToSet(idle') = ToSet(idle) \ {c}, NoRepeats(idle')
    PROVE  OneOwner'
<1>1. c # cur /\ c # NoConn
  BY IdleAreConns DEF OneOwner
<1>2. Holding' = Holding /\ \A s \in Holding : held[s] # c
  BY DEF OneOwner, Holding
<1> QED
  BY <1>1, <1>2 DEF OneOwner, Shut, NoRepeats

\* From the idle list to the call.
LEMMA IdleToCall ==
    ASSUME TypeOK, OneOwner, NEW c \in ToSet(idle), cur = NoConn,
           held' = held, cur' = c, open' = open,
           ToSet(idle') = ToSet(idle) \ {c}, NoRepeats(idle')
    PROVE  OneOwner'
<1>1. c # NoConn
  BY IdleAreConns
<1>2. Holding' = Holding /\ \A s \in Holding : held[s] # c
  BY DEF OneOwner, Holding
<1> QED
  BY <1>1, <1>2 DEF OneOwner, NoRepeats

\* A socket that was closed is opened by the call.
LEMMA OpenedByCall ==
    ASSUME TypeOK, OneOwner, NEW c \in Conns, c \notin open, cur = NoConn,
           open' = open \cup {c}, cur' = c, idle' = idle, held' = held
    PROVE  OneOwner'
<1>1. c # NoConn /\ c \notin ToSet(idle)
  BY ConnsAssumption DEF OneOwner
<1>2. Holding' = Holding /\ \A s \in Holding : held[s] # c
  BY DEF OneOwner, Holding
<1> QED
  BY <1>1, <1>2 DEF OneOwner

\* From the call to nowhere.
LEMMA CallShut ==
    ASSUME TypeOK, OneOwner, cur # NoConn, Shut(cur),
           idle' = idle, held' = held, cur' = NoConn
    PROVE  OneOwner'
<1>1. cur \notin ToSet(idle) /\ NoConn \notin ToSet(idle)
  BY IdleAreConns DEF OneOwner
<1>2. Holding' = Holding /\ \A s \in Holding : held[s] # cur /\ held[s] # NoConn
  BY DEF OneOwner, Holding
<1> QED
  BY <1>1, <1>2 DEF OneOwner, Shut

\* From the call to a source.
LEMMA CallToSource ==
    ASSUME TypeOK, OneOwner, cur # NoConn, NEW s \in Sources, held[s] = NoConn,
           held' = [held EXCEPT ![s] = cur], cur' = NoConn,
           idle' = idle, open' = open
    PROVE  OneOwner'
<1>1. cur \notin ToSet(idle) /\ NoConn \notin ToSet(idle)
  BY IdleAreConns DEF OneOwner
<1>2. /\ Holding' = Holding \cup {s} /\ s \notin Holding /\ held'[s] = cur
      /\ \A t \in Holding : held'[t] = held[t] /\ held[t] # cur /\ held[t] # NoConn
  BY DEF OneOwner, Holding, TypeOK
<1> QED
  BY <1>1, <1>2 DEF OneOwner

\* From a source to the call.
LEMMA SourceToCall ==
    ASSUME TypeOK, OneOwner, cur = NoConn, NEW s \in Sources, held[s] # NoConn,
           held' = [held EXCEPT ![s] = NoConn], cur' = held[s],
           idle' = idle, open' = open
    PROVE  OneOwner'
<1>1. /\ Holding' = Holding \ {s} /\ s \in Holding
      /\ \A t \in Holding' : held'[t] = held[t] /\ held[t] # held[s]
  BY DEF OneOwner, Holding, TypeOK
<1> QED
  BY <1>1 DEF OneOwner

\* From a source to nowhere.
LEMMA SourceShut ==
    ASSUME TypeOK, OneOwner, cur = NoConn, NEW s \in Sources, held[s] # NoConn,
           held' = [held EXCEPT ![s] = NoConn], Shut(held[s]),
           idle' = idle, cur' = cur
    PROVE  OneOwner'
<1>1. /\ Holding' = Holding \ {s} /\ s \in Holding
      /\ \A t \in Holding' : held'[t] = held[t] /\ held[t] # held[s]
  BY DEF OneOwner, Holding, TypeOK
<1> QED
  BY <1>1 DEF OneOwner, Shut

\* From the call to the idle list.
LEMMA CallToIdle ==
    ASSUME TypeOK, OneOwner, cur # NoConn, cur' = NoConn,
           ToSet(idle') = ToSet(idle) \cup {cur}, NoRepeats(idle'),
           held' = held, open' = open
    PROVE  OneOwner'
<1>1. cur \in Conns /\ NoConn \notin ToSet(idle')
  BY IdleAreConns DEF TypeOK
<1>2. Holding' = Holding /\ \A s \in Holding : held[s] # cur /\ held[s] # NoConn
  BY DEF OneOwner, Holding
<1> QED
  BY <1>1, <1>2 DEF OneOwner, NoRepeats

-----------------------------------------------------------------------------
(* The invariant, one action at a time.                                    *)

LEMMA InvInit == Init => Inv
<1> SUFFICES ASSUME Init PROVE Inv
  OBVIOUS
<1>1. Holding = {} /\ Cardinality({}) = 0 /\ ToSet(idle) = {} /\ Len(idle) = 0
  BY FS_EmptySet DEF Init, Holding, ToSet
<1>2. TypeOK
  BY DEF Init, TypeOK
<1>3. Phases
  BY DEF Init, Phases, Judging, HoldsOne, Idle
<1>4. LeaseCountExact
  BY <1>1 DEF Init, LeaseCountExact
<1>5. CountersWithinLimit
  BY <1>1, LimitsAssumption DEF Init, CountersWithinLimit, TotalCount, Promised
<1>6. OneOwner
  BY <1>1 DEF Init, OneOwner
<1> QED
  BY <1>2, <1>3, <1>4, <1>5, <1>6 DEF Inv

LEMMA InvStep ==
    ASSUME Inv, [Next]_vars
    PROVE  Inv'
<1> USE DEF Inv
<1>1. ASSUME NEW c \in Calls, Begin(c)
      PROVE  Inv'
  <2>2. TypeOK'
    BY <1>1, CallShape DEF Begin, TypeOK, Phases, Judging, Return, Goto, world, Shut
  <2>3. Phases'
    BY <1>1, CallShape, ConnsAssumption DEF Begin, TypeOK, Phases, Judging, HoldsOne, Return, Goto, world
  <2>4. LeaseCountExact'
    BY <1>1, <2>2, LeaseCountKept DEF Begin, TypeOK, Return, Goto, world
  <2>5. CountersWithinLimit'
    BY <1>1, LimitsAssumption, LenProperties DEF Begin, TypeOK, CountersWithinLimit, TotalCount, Promised, RoomLeft, Return, Goto, world
  <2>6. OneOwner'
    BY <1>1, NothingMoves DEF Begin, Return, Goto, world, Phases, HoldsOne
  <2> QED
    BY <2>2, <2>3, <2>4, <2>5, <2>6
<1>2. ASSUME TakeIdle
      PROVE  Inv'
  <2>1. /\ idle[FirstCandidate] \in Conns /\ idle[FirstCandidate] \in ToSet(idle)
        /\ idle' \in Seq(Conns) /\ Len(idle) \in Nat /\ Len(idle') = Len(idle) - 1
        /\ ToSet(idle') = ToSet(idle) \ {idle[FirstCandidate]} /\ NoRepeats(idle')
    BY <1>2, CandidateTaken DEF TakeIdle
  <2>2. TypeOK'
    BY <1>2, <2>1, CallShape DEF TakeIdle, TypeOK, Phases, Judging, Return, Goto, world, Shut
  <2>3. Phases'
    BY <1>2, <2>1, CallShape, ConnsAssumption DEF TakeIdle, TypeOK, Phases, Judging, HoldsOne, Return, Goto, world
  <2>4. LeaseCountExact'
    BY <1>2, <2>1, <2>2, LeaseCountKept DEF TakeIdle, TypeOK, Return, Goto, world
  <2>5. CountersWithinLimit'
    BY <1>2, <2>1, LimitsAssumption, LenProperties DEF TakeIdle, TypeOK, CountersWithinLimit, TotalCount, Promised, RoomLeft, Return, Goto, world
  <2>6. OneOwner'
    BY <1>2, <2>1, IdleToCall DEF TakeIdle, Return, Goto, world, Phases, HoldsOne
  <2> QED
    BY <2>2, <2>3, <2>4, <2>5, <2>6
<1>3. ASSUME DiscardStale
      PROVE  Inv'
  <2>0. at' \in Nat \ {0}
    BY <1>3, FirstCandidateFound DEF DiscardStale, TypeOK
  <2>1. /\ idle[FirstCandidate] \in Conns /\ idle[FirstCandidate] \in ToSet(idle)
        /\ idle' \in Seq(Conns) /\ Len(idle) \in Nat /\ Len(idle') = Len(idle) - 1
        /\ ToSet(idle') = ToSet(idle) \ {idle[FirstCandidate]} /\ NoRepeats(idle')
    BY <1>3, CandidateTaken DEF DiscardStale
  <2>2. TypeOK'
    BY <1>3, <2>1, <2>0, CallShape DEF DiscardStale, TypeOK, Phases, Judging, Return, Goto, world, Shut
  <2>3. Phases'
    BY <1>3, <2>1, CallShape, ConnsAssumption DEF DiscardStale, TypeOK, Phases, Judging, HoldsOne, Return, Goto, world
  <2>4. LeaseCountExact'
    BY <1>3, <2>1, <2>2, LeaseCountKept DEF DiscardStale, TypeOK, Return, Goto, world
  <2>5. CountersWithinLimit'
    BY <1>3, <2>1, LimitsAssumption, LenProperties DEF DiscardStale, TypeOK, CountersWithinLimit, TotalCount, Promised, RoomLeft, Return, Goto, world
  <2>6. OneOwner'
    BY <1>3, <2>1, IdleShut DEF DiscardStale, Return, Goto, world
  <2> QED
    BY <2>2, <2>3, <2>4, <2>5, <2>6
<1>4. ASSUME NoneIdle
      PROVE  Inv'
  <2>2. TypeOK'
    BY <1>4, CallShape DEF NoneIdle, TypeOK, Phases, Judging, Return, Goto, world, Shut
  <2>3. Phases'
    BY <1>4, CallShape, ConnsAssumption DEF NoneIdle, TypeOK, Phases, Judging, HoldsOne, Return, Goto, world
  <2>4. LeaseCountExact'
    BY <1>4, <2>2, LeaseCountKept DEF NoneIdle, TypeOK, Return, Goto, world
  <2>5. CountersWithinLimit'
    BY <1>4, LimitsAssumption, LenProperties DEF NoneIdle, TypeOK, CountersWithinLimit, TotalCount, Promised, RoomLeft, Return, Goto, world
  <2>6. OneOwner'
    BY <1>4, NothingMoves DEF NoneIdle, Return, Goto, world, Phases, HoldsOne
  <2> QED
    BY <2>2, <2>3, <2>4, <2>5, <2>6
<1>5. ASSUME EvictForRoom
      PROVE  Inv'
  <2>1. /\ Head(idle) \in Conns /\ Head(idle) \in ToSet(idle) /\ Shut(Head(idle))
        /\ idle' \in Seq(Conns) /\ Len(idle) \in Nat /\ Len(idle') = Len(idle) - 1
        /\ ToSet(idle') = ToSet(idle) \ {Head(idle)} /\ NoRepeats(idle')
    BY <1>5, OldestEvicted DEF EvictForRoom
  <2>2. TypeOK'
    BY <1>5, <2>1, CallShape DEF EvictForRoom, TypeOK, Phases, Judging, Return, Goto, world, Shut
  <2>3. Phases'
    BY <1>5, <2>1, CallShape, ConnsAssumption DEF EvictForRoom, TypeOK, Phases, Judging, HoldsOne, Return, Goto, world
  <2>4. LeaseCountExact'
    BY <1>5, <2>1, <2>2, LeaseCountKept DEF EvictForRoom, TypeOK, Return, Goto, world
  <2>5. CountersWithinLimit'
    BY <1>5, <2>1, LimitsAssumption, LenProperties DEF EvictForRoom, TypeOK, CountersWithinLimit, TotalCount, Promised, RoomLeft, Return, Goto, world
  <2>6. OneOwner'
    BY <1>5, <2>1, IdleShut DEF EvictForRoom, Return, Goto, world
  <2> QED
    BY <2>2, <2>3, <2>4, <2>5, <2>6
<1>6. ASSUME PoolIsFull
      PROVE  Inv'
  <2>2. TypeOK'
    BY <1>6, CallShape DEF PoolIsFull, TypeOK, Phases, Judging, Return, Goto, world, Shut
  <2>3. Phases'
    BY <1>6, CallShape, ConnsAssumption DEF PoolIsFull, TypeOK, Phases, Judging, HoldsOne, Return, Goto, world
  <2>4. LeaseCountExact'
    BY <1>6, <2>2, LeaseCountKept DEF PoolIsFull, TypeOK, Return, Goto, world
  <2>5. CountersWithinLimit'
    BY <1>6, LimitsAssumption, LenProperties DEF PoolIsFull, TypeOK, CountersWithinLimit, TotalCount, Promised, RoomLeft, Return, Goto, world
  <2>6. OneOwner'
    BY <1>6, NothingMoves DEF PoolIsFull, Return, Goto, world, Phases, HoldsOne
  <2> QED
    BY <2>2, <2>3, <2>4, <2>5, <2>6
<1>7. ASSUME RoomFound
      PROVE  Inv'
  <2>2. TypeOK'
    BY <1>7, CallShape DEF RoomFound, TypeOK, Phases, Judging, Return, Goto, world, Shut
  <2>3. Phases'
    BY <1>7, CallShape, ConnsAssumption DEF RoomFound, TypeOK, Phases, Judging, HoldsOne, Return, Goto, world
  <2>4. LeaseCountExact'
    BY <1>7, <2>2, LeaseCountKept DEF RoomFound, TypeOK, Return, Goto, world
  <2>5. CountersWithinLimit'
    BY <1>7, LimitsAssumption, LenProperties DEF RoomFound, TypeOK, CountersWithinLimit, TotalCount, Promised, RoomLeft, Return, Goto, world
  <2>6. OneOwner'
    BY <1>7, NothingMoves DEF RoomFound, Return, Goto, world, Phases, HoldsOne
  <2> QED
    BY <2>2, <2>3, <2>4, <2>5, <2>6
<1>8. ASSUME PoolDeadlinePassed
      PROVE  Inv'
  <2>2. TypeOK'
    BY <1>8, CallShape DEF PoolDeadlinePassed, TypeOK, Phases, Judging, Return, Goto, world, Shut
  <2>3. Phases'
    BY <1>8, CallShape, ConnsAssumption DEF PoolDeadlinePassed, TypeOK, Phases, Judging, HoldsOne, Return, Goto, world
  <2>4. LeaseCountExact'
    BY <1>8, <2>2, LeaseCountKept DEF PoolDeadlinePassed, TypeOK, Return, Goto, world
  <2>5. CountersWithinLimit'
    BY <1>8, LimitsAssumption, LenProperties DEF PoolDeadlinePassed, TypeOK, CountersWithinLimit, TotalCount, Promised, RoomLeft, Return, Goto, world
  <2>6. OneOwner'
    BY <1>8, NothingMoves DEF PoolDeadlinePassed, Return, Goto, world, Phases, HoldsOne
  <2> QED
    BY <2>2, <2>3, <2>4, <2>5, <2>6
<1>9. ASSUME NEW c \in Conns, Connected(c)
      PROVE  Inv'
  <2>2. TypeOK'
    BY <1>9, CallShape DEF Connected, TypeOK, Phases, Judging, Return, Goto, world, Shut
  <2>3. Phases'
    BY <1>9, CallShape, ConnsAssumption DEF Connected, TypeOK, Phases, Judging, HoldsOne, Return, Goto, world
  <2>4. LeaseCountExact'
    <3>1. /\ held' = held /\ leased \in Nat /\ pc = "connect"
          /\ \/ pc' = "handshake" /\ leased' = leased
             \/ pc' = "exchange" /\ leased' = leased + 1
      BY <1>9 DEF Connected, TypeOK
    <3> QED
      BY <3>1, LeaseCountKept
  <2>5. CountersWithinLimit'
    BY <1>9, LimitsAssumption, LenProperties DEF Connected, TypeOK, CountersWithinLimit, TotalCount, Promised, RoomLeft, Return, Goto, world
  <2>6. OneOwner'
    BY <1>9, OpenedByCall DEF Connected, Return, Goto, world, Phases, HoldsOne
  <2> QED
    BY <2>2, <2>3, <2>4, <2>5, <2>6
<1>10. ASSUME ConnectFails
      PROVE  Inv'
  <2>2. TypeOK'
    BY <1>10, CallShape DEF ConnectFails, TypeOK, Phases, Judging, Return, Goto, world, Shut
  <2>3. Phases'
    BY <1>10, CallShape, ConnsAssumption DEF ConnectFails, TypeOK, Phases, Judging, HoldsOne, Return, Goto, world
  <2>4. LeaseCountExact'
    BY <1>10, <2>2, LeaseCountKept DEF ConnectFails, TypeOK, Return, Goto, world
  <2>5. CountersWithinLimit'
    BY <1>10, LimitsAssumption, LenProperties DEF ConnectFails, TypeOK, CountersWithinLimit, TotalCount, Promised, RoomLeft, Return, Goto, world
  <2>6. OneOwner'
    BY <1>10, NothingMoves DEF ConnectFails, Return, Goto, world, Phases, HoldsOne
  <2> QED
    BY <2>2, <2>3, <2>4, <2>5, <2>6
<1>11. ASSUME HandshakeDone
      PROVE  Inv'
  <2>2. TypeOK'
    BY <1>11, CallShape DEF HandshakeDone, TypeOK, Phases, Judging, Return, Goto, world, Shut
  <2>3. Phases'
    BY <1>11, CallShape, ConnsAssumption DEF HandshakeDone, TypeOK, Phases, Judging, HoldsOne, Return, Goto, world
  <2>4. LeaseCountExact'
    BY <1>11, <2>2, LeaseCountKept DEF HandshakeDone, TypeOK, Return, Goto, world
  <2>5. CountersWithinLimit'
    BY <1>11, LimitsAssumption, LenProperties DEF HandshakeDone, TypeOK, CountersWithinLimit, TotalCount, Promised, RoomLeft, Return, Goto, world
  <2>6. OneOwner'
    BY <1>11, NothingMoves DEF HandshakeDone, Return, Goto, world, Phases, HoldsOne
  <2> QED
    BY <2>2, <2>3, <2>4, <2>5, <2>6
<1>12. ASSUME HandshakeFails
      PROVE  Inv'
  <2>1. cur \in Conns /\ cur # NoConn
    BY <1>12 DEF HandshakeFails, Phases, HoldsOne, TypeOK
  <2>2. TypeOK'
    BY <1>12, <2>1, CallShape DEF HandshakeFails, TypeOK, Phases, Judging, Return, Goto, world, Shut
  <2>3. Phases'
    BY <1>12, <2>1, CallShape, ConnsAssumption DEF HandshakeFails, TypeOK, Phases, Judging, HoldsOne, Return, Goto, world
  <2>4. LeaseCountExact'
    BY <1>12, <2>1, <2>2, LeaseCountKept DEF HandshakeFails, TypeOK, Return, Goto, world
  <2>5. CountersWithinLimit'
    BY <1>12, <2>1, LimitsAssumption, LenProperties DEF HandshakeFails, TypeOK, CountersWithinLimit, TotalCount, Promised, RoomLeft, Return, Goto, world
  <2>6. OneOwner'
    BY <1>12, <2>1, CallShut DEF HandshakeFails, Return, Goto, world
  <2> QED
    BY <2>2, <2>3, <2>4, <2>5, <2>6
<1>13. ASSUME NEW fit \in BOOLEAN, ExchangeEnds(fit)
      PROVE  Inv'
  <2>1. cur \in Conns /\ cur \in open /\ cur # NoConn /\ leased - 1 \in Nat
    <3>1. cur \in Conns /\ cur # NoConn
      BY <1>13 DEF ExchangeEnds, Phases, HoldsOne, TypeOK
    <3>2. leased - 1 \in Nat
      BY <1>13, SomethingLeased DEF ExchangeEnds
    <3> QED
      BY <3>1, <3>2 DEF OneOwner
  <2>2. TypeOK'
    BY <1>13, <2>1, CallShape DEF ExchangeEnds, TypeOK, Phases, Judging, Return, Goto, world, Shut
  <2>3. Phases'
    BY <1>13, <2>1, CallShape, ConnsAssumption DEF ExchangeEnds, TypeOK, Phases, Judging, HoldsOne, Return, Goto, world
  <2>4. LeaseCountExact'
    BY <1>13, <2>1, <2>2, LeaseCountKept DEF ExchangeEnds, TypeOK, Return, Goto, world
  <2>5. CountersWithinLimit'
    BY <1>13, <2>1, LimitsAssumption, LenProperties DEF ExchangeEnds, TypeOK, CountersWithinLimit, TotalCount, Promised, RoomLeft, Return, Goto, world
  <2>6. OneOwner'
    BY <1>13, <2>1, NothingMoves DEF ExchangeEnds, Return, Goto, world, Phases, HoldsOne
  <2> QED
    BY <2>2, <2>3, <2>4, <2>5, <2>6
<1>14. ASSUME HeadArrives
      PROVE  Inv'
  <2>1. cur \in Conns /\ cur # NoConn /\ call.source \in Sources /\ held[call.source] = NoConn
    BY <1>14, CallShape DEF HeadArrives, Phases, HoldsOne, Judging, TypeOK
  <2>2. TypeOK'
    BY <1>14, <2>1, CallShape DEF HeadArrives, TypeOK, Phases, Judging, Return, Goto, world, Shut
  <2>3. Phases'
    BY <1>14, <2>1, CallShape, ConnsAssumption DEF HeadArrives, TypeOK, Phases, Judging, HoldsOne, Return, Goto, world
  <2>4. LeaseCountExact'
    <3>1. Holding' = Holding \cup {call.source} /\ call.source \notin Holding
      BY <1>14, <2>1 DEF HeadArrives, Holding, TypeOK
    <3>2. Cardinality(Holding') = Cardinality(Holding) + 1 /\ Cardinality(Holding) \in Nat
      BY <3>1, <2>1, HoldingCount
    <3> QED
      BY <1>14, <3>2 DEF HeadArrives, Return, LeaseCountExact
  <2>5. CountersWithinLimit'
    BY <1>14, <2>1, LimitsAssumption, LenProperties DEF HeadArrives, TypeOK, CountersWithinLimit, TotalCount, Promised, RoomLeft, Return, Goto, world
  <2>6. OneOwner'
    BY <1>14, <2>1, CallToSource DEF HeadArrives, Return, Goto, world
  <2> QED
    BY <2>2, <2>3, <2>4, <2>5, <2>6
<1>15. ASSUME ExchangeFails
      PROVE  Inv'
  <2>1. cur \in Conns /\ cur \in open /\ cur # NoConn /\ leased - 1 \in Nat
    <3>1. cur \in Conns /\ cur # NoConn
      BY <1>15 DEF ExchangeFails, Phases, HoldsOne, TypeOK
    <3>2. leased - 1 \in Nat
      BY <1>15, SomethingLeased DEF ExchangeFails
    <3> QED
      BY <3>1, <3>2 DEF OneOwner
  <2>2. TypeOK'
    BY <1>15, <2>1, CallShape DEF ExchangeFails, TypeOK, Phases, Judging, Return, Goto, world, Shut
  <2>3. Phases'
    BY <1>15, <2>1, CallShape, ConnsAssumption DEF ExchangeFails, TypeOK, Phases, Judging, HoldsOne, Return, Goto, world
  <2>4. LeaseCountExact'
    BY <1>15, <2>1, <2>2, LeaseCountKept DEF ExchangeFails, TypeOK, Return, Goto, world
  <2>5. CountersWithinLimit'
    BY <1>15, <2>1, LimitsAssumption, LenProperties DEF ExchangeFails, TypeOK, CountersWithinLimit, TotalCount, Promised, RoomLeft, Return, Goto, world
  <2>6. OneOwner'
    BY <1>15, <2>1, CallShut DEF ExchangeFails, Return, Goto, world
  <2> QED
    BY <2>2, <2>3, <2>4, <2>5, <2>6
<1>16. ASSUME ReleaseKeeps
      PROVE  Inv'
  <2>1. /\ cur # NoConn
        /\ idle' \in Seq(Conns) /\ Len(idle) \in Nat /\ Len(idle') = Len(idle) + 1
        /\ ToSet(idle') = ToSet(idle) \cup {cur} /\ NoRepeats(idle')
    <3>1. cur \in Conns /\ cur # NoConn /\ cur \notin ToSet(idle) /\ NoRepeats(idle)
      BY <1>16 DEF ReleaseKeeps, Phases, HoldsOne, TypeOK, OneOwner, NoRepeats
    <3> QED
      BY <1>16, <3>1, AppendEntries, LenProperties DEF ReleaseKeeps, TypeOK
  <2>2. TypeOK'
    BY <1>16, <2>1, CallShape DEF ReleaseKeeps, TypeOK, Phases, Judging, Return, Goto, world, Shut
  <2>3. Phases'
    BY <1>16, <2>1, CallShape, ConnsAssumption DEF ReleaseKeeps, TypeOK, Phases, Judging, HoldsOne, Return, Goto, world
  <2>4. LeaseCountExact'
    BY <1>16, <2>1, <2>2, LeaseCountKept DEF ReleaseKeeps, TypeOK, Return, Goto, world
  <2>5. CountersWithinLimit'
    BY <1>16, <2>1, LimitsAssumption, LenProperties DEF ReleaseKeeps, TypeOK, CountersWithinLimit, TotalCount, Promised, RoomLeft, Return, Goto, world
  <2>6. OneOwner'
    BY <1>16, <2>1, CallToIdle DEF ReleaseKeeps, Return, Goto, world
  <2> QED
    BY <2>2, <2>3, <2>4, <2>5, <2>6
<1>17. ASSUME ReleaseCloses
      PROVE  Inv'
  <2>1. cur \in Conns /\ cur # NoConn
    BY <1>17 DEF ReleaseCloses, Phases, HoldsOne, TypeOK
  <2>2. TypeOK'
    BY <1>17, <2>1, CallShape DEF ReleaseCloses, TypeOK, Phases, Judging, Return, Goto, world, Shut
  <2>3. Phases'
    BY <1>17, <2>1, CallShape, ConnsAssumption DEF ReleaseCloses, TypeOK, Phases, Judging, HoldsOne, Return, Goto, world
  <2>4. LeaseCountExact'
    BY <1>17, <2>1, <2>2, LeaseCountKept DEF ReleaseCloses, TypeOK, Return, Goto, world
  <2>5. CountersWithinLimit'
    BY <1>17, <2>1, LimitsAssumption, LenProperties DEF ReleaseCloses, TypeOK, CountersWithinLimit, TotalCount, Promised, RoomLeft, Return, Goto, world
  <2>6. OneOwner'
    BY <1>17, <2>1, CallShut DEF ReleaseCloses, Return, Goto, world
  <2> QED
    BY <2>2, <2>3, <2>4, <2>5, <2>6
<1>18. ASSUME EvictToTrim
      PROVE  Inv'
  <2>1. /\ Head(idle) \in Conns /\ Head(idle) \in ToSet(idle) /\ Shut(Head(idle))
        /\ idle' \in Seq(Conns) /\ Len(idle) \in Nat /\ Len(idle') = Len(idle) - 1
        /\ ToSet(idle') = ToSet(idle) \ {Head(idle)} /\ NoRepeats(idle')
    <3>1. idle # <<>>
      BY <1>18, LimitsAssumption DEF EvictToTrim, OverAllowance, KeepaliveAllowance
    <3> QED
      BY <1>18, <3>1, OldestEvicted DEF EvictToTrim
  <2>2. TypeOK'
    BY <1>18, <2>1, CallShape DEF EvictToTrim, TypeOK, Phases, Judging, Return, Goto, world, Shut
  <2>3. Phases'
    BY <1>18, <2>1, CallShape, ConnsAssumption DEF EvictToTrim, TypeOK, Phases, Judging, HoldsOne, Return, Goto, world
  <2>4. LeaseCountExact'
    BY <1>18, <2>1, <2>2, LeaseCountKept DEF EvictToTrim, TypeOK, Return, Goto, world
  <2>5. CountersWithinLimit'
    BY <1>18, <2>1, LimitsAssumption, LenProperties DEF EvictToTrim, TypeOK, CountersWithinLimit, TotalCount, Promised, RoomLeft, Return, Goto, world
  <2>6. OneOwner'
    BY <1>18, <2>1, IdleShut DEF EvictToTrim, Return, Goto, world
  <2> QED
    BY <2>2, <2>3, <2>4, <2>5, <2>6
<1>19. ASSUME Trimmed
      PROVE  Inv'
  <2>2. TypeOK'
    BY <1>19, CallShape DEF Trimmed, TypeOK, Phases, Judging, Return, Goto, world, Shut
  <2>3. Phases'
    BY <1>19, CallShape, ConnsAssumption DEF Trimmed, TypeOK, Phases, Judging, HoldsOne, Return, Goto, world
  <2>4. LeaseCountExact'
    BY <1>19, <2>2, LeaseCountKept DEF Trimmed, TypeOK, Return, Goto, world
  <2>5. CountersWithinLimit'
    BY <1>19, LimitsAssumption, LenProperties DEF Trimmed, TypeOK, CountersWithinLimit, TotalCount, Promised, RoomLeft, Return, Goto, world
  <2>6. OneOwner'
    BY <1>19, NothingMoves DEF Trimmed, Return, Goto, world, Phases, HoldsOne
  <2> QED
    BY <2>2, <2>3, <2>4, <2>5, <2>6
<1>20. ASSUME EvictToClose
      PROVE  Inv'
  <2>1. /\ Head(idle) \in Conns /\ Head(idle) \in ToSet(idle) /\ Shut(Head(idle))
        /\ idle' \in Seq(Conns) /\ Len(idle) \in Nat /\ Len(idle') = Len(idle) - 1
        /\ ToSet(idle') = ToSet(idle) \ {Head(idle)} /\ NoRepeats(idle')
    BY <1>20, OldestEvicted DEF EvictToClose
  <2>2. TypeOK'
    BY <1>20, <2>1, CallShape DEF EvictToClose, TypeOK, Phases, Judging, Return, Goto, world, Shut
  <2>3. Phases'
    BY <1>20, <2>1, CallShape, ConnsAssumption DEF EvictToClose, TypeOK, Phases, Judging, HoldsOne, Return, Goto, world
  <2>4. LeaseCountExact'
    BY <1>20, <2>1, <2>2, LeaseCountKept DEF EvictToClose, TypeOK, Return, Goto, world
  <2>5. CountersWithinLimit'
    BY <1>20, <2>1, LimitsAssumption, LenProperties DEF EvictToClose, TypeOK, CountersWithinLimit, TotalCount, Promised, RoomLeft, Return, Goto, world
  <2>6. OneOwner'
    BY <1>20, <2>1, IdleShut DEF EvictToClose, Return, Goto, world
  <2> QED
    BY <2>2, <2>3, <2>4, <2>5, <2>6
<1>21. ASSUME Closed
      PROVE  Inv'
  <2>2. TypeOK'
    BY <1>21, CallShape DEF Closed, TypeOK, Phases, Judging, Return, Goto, world, Shut
  <2>3. Phases'
    BY <1>21, CallShape, ConnsAssumption DEF Closed, TypeOK, Phases, Judging, HoldsOne, Return, Goto, world
  <2>4. LeaseCountExact'
    BY <1>21, <2>2, LeaseCountKept DEF Closed, TypeOK, Return, Goto, world
  <2>5. CountersWithinLimit'
    BY <1>21, LimitsAssumption, LenProperties DEF Closed, TypeOK, CountersWithinLimit, TotalCount, Promised, RoomLeft, Return, Goto, world
  <2>6. OneOwner'
    BY <1>21, NothingMoves DEF Closed, Return, Goto, world, Phases, HoldsOne
  <2> QED
    BY <2>2, <2>3, <2>4, <2>5, <2>6
<1>22. ASSUME NEW s \in Sources, NEW fit \in BOOLEAN, SourceEnds(s, fit)
      PROVE  Inv'
  <2>1. held[s] \in Conns /\ held[s] \in open /\ leased - 1 \in Nat /\ cur = NoConn
    <3>1. s \in Holding
      BY <1>22 DEF SourceEnds, Holding
    <3>2. leased - 1 \in Nat
      BY <3>1, SomethingLeased
    <3>3. cur = NoConn
      BY <1>22 DEF SourceEnds, Phases, HoldsOne
    <3> QED
      BY <3>1, <3>2, <3>3 DEF OneOwner, Holding, TypeOK
  <2>2. TypeOK'
    BY <1>22, <2>1, CallShape DEF SourceEnds, TypeOK, Phases, Judging, Return, Goto, world, Shut
  <2>3. Phases'
    BY <1>22, <2>1, CallShape, ConnsAssumption DEF SourceEnds, TypeOK, Phases, Judging, HoldsOne, Return, Goto, world
  <2>4. LeaseCountExact'
    BY <1>22, <2>1, <2>2, LeaseCountOfSource DEF SourceEnds, TypeOK, Return, Goto, world
  <2>5. CountersWithinLimit'
    BY <1>22, <2>1, LimitsAssumption, LenProperties DEF SourceEnds, TypeOK, CountersWithinLimit, TotalCount, Promised, RoomLeft, Return, Goto, world
  <2>6. OneOwner'
    BY <1>22, <2>1, SourceToCall DEF SourceEnds, Return, Goto, world
  <2> QED
    BY <2>2, <2>3, <2>4, <2>5, <2>6
<1>23. ASSUME NEW s \in Sources, SourceDrops(s)
      PROVE  Inv'
  <2>1. held[s] \in Conns /\ held[s] \in open /\ leased - 1 \in Nat /\ cur = NoConn
    <3>1. s \in Holding
      BY <1>23 DEF SourceDrops, Holding
    <3>2. leased - 1 \in Nat
      BY <3>1, SomethingLeased
    <3>3. cur = NoConn
      BY <1>23 DEF SourceDrops, Phases, HoldsOne
    <3> QED
      BY <3>1, <3>2, <3>3 DEF OneOwner, Holding, TypeOK
  <2>2. TypeOK'
    BY <1>23, <2>1, CallShape DEF SourceDrops, TypeOK, Phases, Judging, Return, Goto, world, Shut
  <2>3. Phases'
    BY <1>23, <2>1, CallShape, ConnsAssumption DEF SourceDrops, TypeOK, Phases, Judging, HoldsOne, Return, Goto, world
  <2>4. LeaseCountExact'
    BY <1>23, <2>1, <2>2, LeaseCountOfSource DEF SourceDrops, TypeOK, Return, Goto, world
  <2>5. CountersWithinLimit'
    BY <1>23, <2>1, LimitsAssumption, LenProperties DEF SourceDrops, TypeOK, CountersWithinLimit, TotalCount, Promised, RoomLeft, Return, Goto, world
  <2>6. OneOwner'
    BY <1>23, <2>1, SourceShut DEF SourceDrops, Return, Goto, world
  <2> QED
    BY <2>2, <2>3, <2>4, <2>5, <2>6
<1>24. ASSUME BeginClose
      PROVE  Inv'
  <2>2. TypeOK'
    BY <1>24, CallShape DEF BeginClose, TypeOK, Phases, Judging, Return, Goto, world, Shut
  <2>3. Phases'
    BY <1>24, CallShape, ConnsAssumption DEF BeginClose, TypeOK, Phases, Judging, HoldsOne, Return, Goto, world
  <2>4. LeaseCountExact'
    BY <1>24, <2>2, LeaseCountKept DEF BeginClose, TypeOK, Return, Goto, world
  <2>5. CountersWithinLimit'
    BY <1>24, LimitsAssumption, LenProperties DEF BeginClose, TypeOK, CountersWithinLimit, TotalCount, Promised, RoomLeft, Return, Goto, world
  <2>6. OneOwner'
    BY <1>24, NothingMoves DEF BeginClose, Return, Goto, world, Phases, HoldsOne
  <2> QED
    BY <2>2, <2>3, <2>4, <2>5, <2>6
<1>25. ASSUME NEW c \in Conns, PeerDisturbs(c)
      PROVE  Inv'
  <2>2. TypeOK'
    BY <1>25, CallShape DEF PeerDisturbs, TypeOK, Phases, Judging, Return, Goto, world, Shut
  <2>3. Phases'
    BY <1>25, CallShape, ConnsAssumption DEF PeerDisturbs, TypeOK, Phases, Judging, HoldsOne, Return, Goto, world
  <2>4. LeaseCountExact'
    BY <1>25, <2>2, LeaseCountKept DEF PeerDisturbs, TypeOK, Return, Goto, world
  <2>5. CountersWithinLimit'
    BY <1>25, LimitsAssumption, LenProperties DEF PeerDisturbs, TypeOK, CountersWithinLimit, TotalCount, Promised, RoomLeft, Return, Goto, world
  <2>6. OneOwner'
    BY <1>25, NothingMoves DEF PeerDisturbs, Return, Goto, world, Phases, HoldsOne
  <2> QED
    BY <2>2, <2>3, <2>4, <2>5, <2>6
<1>26. ASSUME NEW c \in Conns, Age(c)
      PROVE  Inv'
  <2>2. TypeOK'
    BY <1>26 DEF Age, TypeOK, OneOwner
  <2>3. Phases'
    BY <1>26, CallShape, ConnsAssumption DEF Age, TypeOK, Phases, Judging, HoldsOne, Return, Goto, world
  <2>4. LeaseCountExact'
    BY <1>26, <2>2, LeaseCountKept DEF Age, TypeOK, Return, Goto, world
  <2>5. CountersWithinLimit'
    BY <1>26, LimitsAssumption, LenProperties DEF Age, TypeOK, CountersWithinLimit, TotalCount, Promised, RoomLeft, Return, Goto, world
  <2>6. OneOwner'
    BY <1>26, NothingMoves DEF Age, Return, Goto, world, Phases, HoldsOne
  <2> QED
    BY <2>2, <2>3, <2>4, <2>5, <2>6
<1>27. CASE UNCHANGED vars
  <2>1. Holding' = Holding
    BY <1>27 DEF vars, Holding
  <2> QED
    BY <1>27, <2>1 DEF vars, TypeOK, Phases, LeaseCountExact, CountersWithinLimit,
       TotalCount, Promised, OneOwner
<1> QED
  BY <1>1, <1>2, <1>3, <1>4, <1>5, <1>6, <1>7, <1>8, <1>9, <1>10, <1>11, <1>12, <1>13, <1>14, <1>15, <1>16, <1>17, <1>18, <1>19, <1>20, <1>21, <1>22, <1>23, <1>24, <1>25, <1>26, <1>27 DEF Next, Progress, Program, World

\* The invariant holds in every state of every pool: nothing the calls, the
\* sources and the peers do between them breaks it.
THEOREM Invariance == Spec => []Inv
<1>1. Init => Inv
  BY InvInit
<1>2. Inv /\ [Next]_vars => Inv'
  BY InvStep
<1> QED
  BY <1>1, <1>2, PTL DEF Spec

-----------------------------------------------------------------------------
(* What follows from it.                                                   *)

\* The state keeps its types: in particular the count of leases never goes
\* below zero, at whichever of the eight places it is lowered.
THEOREM TypeCorrect == Spec => []TypeOK
<1>1. Inv => TypeOK
  BY DEF Inv
<1> QED
  BY <1>1, Invariance, PTL

\* The count of leases is the number of connections carrying an exchange.
THEOREM LeasesCounted == Spec => []LeaseCountExact
<1>1. Inv => LeaseCountExact
  BY DEF Inv
<1> QED
  BY <1>1, Invariance, PTL

\* Every open socket has one owner, and no owner has a closed one.
THEOREM SocketsOwned == Spec => []OneOwner
<1>1. Inv => OneOwner
  BY DEF Inv
<1> QED
  BY <1>1, Invariance, PTL

\* As many sockets are held by sources as sources hold one.
LEMMA StreamingCount ==
    ASSUME TypeOK
    PROVE  /\ IsFiniteSet({ held[s] : s \in Holding })
           /\ Cardinality({ held[s] : s \in Holding }) <= Cardinality(Holding)
<1> DEFINE Streaming == { held[s] : s \in Holding }
           f == [s \in Holding |-> held[s]]
<1>1. f \in Surjection(Holding, Streaming)
  BY DEF Surjection
<1>2. IsFiniteSet(Holding)
  BY HoldingCount
<1> HIDE DEF f, Streaming
<1>3. IsFiniteSet(Streaming) /\ Cardinality(Streaming) <= Cardinality(Holding)
  BY <1>1, <1>2, FS_Surjection
<1> QED
  BY <1>3 DEF Streaming

\* Three sets together are no larger than their sizes together.
LEMMA UnionBounded ==
    ASSUME NEW A, NEW B, NEW C, IsFiniteSet(A), IsFiniteSet(B), IsFiniteSet(C)
    PROVE  /\ IsFiniteSet(A \cup B \cup C)
           /\ Cardinality(A \cup B \cup C)
                <= Cardinality(A) + Cardinality(B) + Cardinality(C)
<1>1. /\ IsFiniteSet(A \cup B)
      /\ Cardinality(A \cup B) = Cardinality(A) + Cardinality(B) - Cardinality(A \cap B)
      /\ Cardinality(A \cap B) \in Nat
  BY FS_Union, FS_Intersection, FS_CardinalityType
<1>2. /\ IsFiniteSet((A \cup B) \cup C)
      /\ Cardinality((A \cup B) \cup C)
           = Cardinality(A \cup B) + Cardinality(C) - Cardinality((A \cup B) \cap C)
      /\ Cardinality((A \cup B) \cap C) \in Nat
  BY <1>1, FS_Union, FS_Intersection, FS_CardinalityType
<1>3. /\ Cardinality(A) \in Nat /\ Cardinality(B) \in Nat /\ Cardinality(C) \in Nat
      /\ Cardinality(A \cup B) \in Nat /\ Cardinality((A \cup B) \cup C) \in Nat
  BY <1>1, <1>2, FS_CardinalityType
<1> QED
  BY <1>1, <1>2, <1>3

\* There are no more sockets than the idle list, the sources and the call have.
LEMMA SocketsCounted ==
    ASSUME Inv
    PROVE  /\ IsFiniteSet(open) /\ Cardinality(open) \in Nat
           /\ Cardinality(Holding) \in Nat /\ Len(idle) \in Nat
           /\ Cardinality(open) <= Len(idle) + Cardinality(Holding)
                                     + (IF pc \in HoldsOne THEN 1 ELSE 0)
<1> DEFINE A == ToSet(idle)
           B == { held[s] : s \in Holding }
           C == IF cur = NoConn THEN {} ELSE {cur}
<1>1. IsFiniteSet(A) /\ Cardinality(A) <= Len(idle) /\ Len(idle) \in Nat
  BY EntriesBounded, LenProperties DEF Inv, TypeOK
<1>2. IsFiniteSet(B) /\ Cardinality(B) <= Cardinality(Holding)
  BY StreamingCount DEF Inv
<1>3. /\ IsFiniteSet(C)
      /\ Cardinality(C) = IF pc \in HoldsOne THEN 1 ELSE 0
  <2>1. CASE cur = NoConn
    BY <2>1, FS_EmptySet DEF Inv, Phases
  <2>2. CASE cur # NoConn
    BY <2>2, FS_Singleton DEF Inv, Phases
  <2> QED
    BY <2>1, <2>2
<1>4. open = A \cup B \cup C
  BY DEF Inv, OneOwner
<1>5. Cardinality(Holding) \in Nat
  BY HoldingCount DEF Inv
<1> HIDE DEF A, B, C
<1>6. /\ Cardinality(open) <= Cardinality(A) + Cardinality(B) + Cardinality(C)
      /\ Cardinality(A) \in Nat /\ Cardinality(B) \in Nat /\ Cardinality(C) \in Nat
      /\ Cardinality(open) \in Nat
  BY <1>1, <1>2, <1>3, <1>4, UnionBounded, FS_CardinalityType
<1> QED
  BY <1>1, <1>2, <1>3, <1>5, <1>6, FS_Subset, ConnsAssumption DEF Inv, TypeOK

\* The limit holds of the sockets themselves, at every step of every call: of
\* those being connected and those between two owners as of the rest.
THEOREM SocketsLimited == Spec => []SocketsWithinLimit
<1>1. Inv => SocketsWithinLimit
  <2> SUFFICES ASSUME Inv, MaxConnections # None
               PROVE  Cardinality(open) <= MaxConnections
    BY DEF SocketsWithinLimit
  <2>1. /\ Cardinality(open) \in Nat /\ Cardinality(Holding) \in Nat /\ Len(idle) \in Nat
        /\ Cardinality(open) <= Len(idle) + Cardinality(Holding)
                                  + (IF pc \in HoldsOne THEN 1 ELSE 0)
    BY SocketsCounted
  <2>2. Len(idle) + leased + Promised <= MaxConnections /\ MaxConnections \in Nat
    BY LimitsAssumption DEF Inv, CountersWithinLimit, TotalCount
  <2>3. Cardinality(Holding) + (IF pc \in HoldsOne THEN 1 ELSE 0) <= leased + Promised
    BY <2>1 DEF Inv, LeaseCountExact, HoldsOne, Promised
  <2>4. leased \in Nat /\ Promised \in Nat
    BY DEF Inv, TypeOK, Promised
  <2> QED
    BY <2>1, <2>2, <2>3, <2>4, SMTT(30)
<1> QED
  BY <1>1, Invariance, PTL

\* PoolTimeout is raised only when every connection the pool may have belongs
\* to a response the program has not finished.
THEOREM TimeoutsJustified == Spec => TimeoutMeansAllHeld
<1>1. Inv /\ [Next]_vars =>
        [pc = "room" /\ outcome' = "pool_timeout" /\ pc' = "ready" =>
           Cardinality(Holding) >= MaxConnections]_vars
  <2> SUFFICES ASSUME Inv, Next, pc = "room", outcome' = "pool_timeout", pc' = "ready"
               PROVE  Cardinality(Holding) >= MaxConnections
    BY DEF vars
  <2>1. PoolIsFull
    BY DEF Next, Progress, Program, World, Begin, TakeIdle, DiscardStale, NoneIdle,
       EvictForRoom, RoomFound, PoolDeadlinePassed, Connected, ConnectFails,
       HandshakeDone, HandshakeFails, ExchangeEnds, HeadArrives, ExchangeFails,
       ReleaseKeeps, ReleaseCloses, EvictToTrim, Trimmed, EvictToClose, Closed,
       SourceEnds, SourceDrops, BeginClose, PeerDisturbs, Age, Return, Goto
  <2>2. Len(idle) = 0 /\ Cardinality(Holding) = leased
    BY <2>1, HoldingCount DEF PoolIsFull, Inv, LeaseCountExact
  <2> QED
    BY <2>1, <2>2, LimitsAssumption DEF PoolIsFull, RoomLeft, TotalCount, Inv, TypeOK
<1> QED
  BY <1>1, Invariance, PTL DEF Spec, TimeoutMeansAllHeld

\* What the scan of the idle list is past is of other origins.
LookedAt ==
    pc = "scan" => \A i \in 1..Len(idle) : i < at => originOf[idle[i]] # call.origin

\* Nothing looked at, taken out or evicted brings a connection of the origin back.
LEMMA LookedAtStep ==
    ASSUME Inv, LookedAt, OpensOnlyWhenNoneIdle, [Next]_vars
    PROVE  LookedAt' /\ OpensOnlyWhenNoneIdle'
<1> DEFINE Opening == {"room", "connect", "handshake"}
<1>1. /\ idle \in Seq(Conns) /\ Len(idle) \in Nat /\ at \in Nat
      /\ ToSet(idle) \subseteq open /\ ToSet(idle) \subseteq Conns
      /\ \A i \in 1..Len(idle) : idle[i] \in ToSet(idle)
  BY LenProperties, IdleAreConns DEF Inv, TypeOK, OneOwner, ToSet
<1>2. /\ pc \in Judging => call.origin \in Origins
      /\ originOf \in [Conns -> Origins \cup {NoOrigin}] /\ NoOrigin \notin Origins
  BY CallShape, ConnsAssumption DEF Inv, Phases, TypeOK
<1>3. CASE pc' \notin Opening \cup {"scan"}
  BY <1>3 DEF LookedAt, OpensOnlyWhenNoneIdle
<1>4. CASE pc' = "scan" /\ at' = 1
  <2>1. \A i \in 1..Len(idle)' : ~(i < 1)
    OBVIOUS
  <2> QED
    BY <1>4, <2>1 DEF LookedAt, OpensOnlyWhenNoneIdle
<1>5. CASE DiscardStale
  <2> DEFINE f == FirstCandidate
  <2>1. /\ f \in Candidates /\ f \in 1..Len(idle) /\ \A j \in Candidates : f <= j
    BY <1>1, <1>5, FirstCandidateFound DEF DiscardStale
  <2>2. /\ idle' = RemoveAt(idle, f) /\ at' = f /\ pc = "scan" /\ pc' = "scan"
        /\ call' = call /\ originOf' = [originOf EXCEPT ![idle[f]] = NoOrigin]
    BY <1>5 DEF DiscardStale, Shut
  <2> SUFFICES ASSUME NEW i \in 1..Len(idle'), i < f
               PROVE  originOf'[idle'[i]] # call.origin
    BY <2>2 DEF LookedAt, OpensOnlyWhenNoneIdle
  <2> HIDE DEF f
  <2>3. i \in 1..Len(idle) /\ idle'[i] = idle[i]
    <3>1. /\ Len(idle') = Len(idle) - 1
          /\ \A j \in 1..(Len(idle) - 1) : idle'[j] = IF j < f THEN idle[j] ELSE idle[j + 1]
      BY <1>1, <2>1, <2>2, RemoveAtProperties
    <3> QED
      BY <1>1, <3>1
  <2>4. originOf[idle[i]] # call.origin
    <3>1. i \notin Candidates
      BY <1>1, <2>1, <2>3
    <3> QED
      BY <1>1, <2>2, <2>3, <3>1 DEF LookedAt, Candidates
  <2>5. idle[i] \in Conns
    BY <1>1, <2>3
  <2>6. originOf'[idle[i]] \in {originOf[idle[i]], NoOrigin}
    BY <1>2, <2>2, <2>5
  <2> QED
    BY <1>2, <2>2, <2>3, <2>4, <2>6 DEF Judging
<1>6. CASE NoneIdle
  <2>1. \A i \in 1..Len(idle) : originOf[idle[i]] # call.origin
    BY <1>1, <1>6 DEF NoneIdle, Candidates, LookedAt
  <2>2. idle' = idle /\ originOf' = originOf /\ call' = call /\ pc' = "room"
    BY <1>6 DEF NoneIdle, Goto, world
  <2>3. \A c \in ToSet(idle) : originOf[c] # call.origin
    BY <1>1, <2>1, LenProperties DEF ToSet
  <2> QED
    BY <2>2, <2>3 DEF LookedAt, OpensOnlyWhenNoneIdle
<1>7. CASE EvictForRoom
  <2>1. /\ ToSet(idle') \subseteq ToSet(idle) /\ Shut(Head(idle)) /\ Head(idle) \in Conns
        /\ pc = "room" /\ pc' = "room" /\ call' = call
    BY <1>7, OldestEvicted DEF EvictForRoom, Inv
  <2>2. \A c \in ToSet(idle') : originOf'[c] \in {originOf[c], NoOrigin}
    BY <1>1, <1>2, <2>1 DEF Shut
  <2> QED
    BY <1>2, <2>1, <2>2 DEF LookedAt, OpensOnlyWhenNoneIdle, Judging
<1>8. ASSUME NEW c \in Conns, Connected(c)
      PROVE  LookedAt' /\ OpensOnlyWhenNoneIdle'
  <2>1. /\ pc = "connect" /\ pc' # "scan" /\ c \notin ToSet(idle)
        /\ idle' = idle /\ call' = call
        /\ originOf' = [originOf EXCEPT ![c] = call.origin]
    BY <1>1, <1>8 DEF Connected
  <2>2. \A d \in ToSet(idle) : originOf'[d] = originOf[d]
    BY <1>1, <1>2, <2>1
  <2> QED
    BY <2>1, <2>2 DEF LookedAt, OpensOnlyWhenNoneIdle
<1>9. CASE /\ idle' = idle /\ originOf' = originOf /\ call' = call /\ at' = at
           /\ pc' = pc \/ (pc = "room" /\ pc' = "connect")
  BY <1>9 DEF LookedAt, OpensOnlyWhenNoneIdle
<1>10. \/ pc' \notin Opening \cup {"scan"}
       \/ pc' = "scan" /\ at' = 1
       \/ DiscardStale \/ NoneIdle \/ EvictForRoom \/ \E c \in Conns : Connected(c)
       \/ /\ idle' = idle /\ originOf' = originOf /\ call' = call /\ at' = at
          /\ pc' = pc \/ (pc = "room" /\ pc' = "connect")
  BY DEF vars, Next, Progress, Program, World, Begin, TakeIdle, PoolIsFull, RoomFound,
     PoolDeadlinePassed, ConnectFails, HandshakeDone, HandshakeFails, ExchangeEnds,
     HeadArrives, ExchangeFails, ReleaseKeeps, ReleaseCloses, EvictToTrim, Trimmed,
     EvictToClose, Closed, SourceEnds, SourceDrops, BeginClose, PeerDisturbs, Age,
     Return, Goto, world
<1> QED
  BY <1>3, <1>4, <1>5, <1>6, <1>7, <1>8, <1>9, <1>10

\* A socket is opened only for want of an idle connection to its origin, however
\* long the list is and however many of its entries turn out stale on the way.
THEOREM NoneLeftIdle == Spec => []OpensOnlyWhenNoneIdle
<1>1. Init => LookedAt /\ OpensOnlyWhenNoneIdle
  BY DEF Init, LookedAt, OpensOnlyWhenNoneIdle
<1>2. Inv /\ LookedAt /\ OpensOnlyWhenNoneIdle /\ [Next]_vars
        => LookedAt' /\ OpensOnlyWhenNoneIdle'
  BY LookedAtStep
<1> QED
  BY <1>1, <1>2, Invariance, PTL DEF Spec

-----------------------------------------------------------------------------
(* The allowance.                                                          *)

\* While the list is being trimmed it may be one over.
AllowanceInv ==
    KeepaliveAllowance # None =>
        Len(idle) <= KeepaliveAllowance + (IF pc = "trim" THEN 1 ELSE 0)

LEMMA AllowanceType == KeepaliveAllowance \in Nat \cup {None}
BY LimitsAssumption DEF KeepaliveAllowance

LEMMA AllowanceStep ==
    ASSUME Inv, AllowanceInv, [Next]_vars
    PROVE  AllowanceInv'
<1> SUFFICES ASSUME KeepaliveAllowance # None
             PROVE  Len(idle') <= KeepaliveAllowance + (IF pc' = "trim" THEN 1 ELSE 0)
  BY DEF AllowanceInv, KeepaliveAllowance
<1>1. /\ KeepaliveAllowance \in Nat /\ Len(idle) \in Nat
      /\ Len(idle) <= KeepaliveAllowance + (IF pc = "trim" THEN 1 ELSE 0)
  BY AllowanceType, LenProperties DEF AllowanceInv, Inv, TypeOK
<1>2. CASE idle' = idle /\ (pc = "trim" => pc' = "trim")
  BY <1>1, <1>2
<1>3. CASE pc' = pc /\ (DiscardStale \/ EvictForRoom \/ EvictToClose)
  <2>1. Len(idle') = Len(idle) - 1
    BY <1>3, CandidateTaken, OldestEvicted
       DEF Inv, DiscardStale, EvictForRoom, EvictToClose
  <2> QED
    BY <1>1, <1>3, <2>1
<1>4. CASE TakeIdle
  <2>1. Len(idle') = Len(idle) - 1 /\ pc = "scan" /\ pc' = "exchange"
    BY <1>4, CandidateTaken DEF Inv, TakeIdle
  <2> QED
    BY <1>1, <2>1
<1>5. CASE ReleaseKeeps
  <2>1. Len(idle') = Len(idle) + 1 /\ pc = "release" /\ pc' = "trim"
    BY <1>5 DEF ReleaseKeeps, Inv, TypeOK, Phases, HoldsOne
  <2> QED
    BY <1>1, <2>1
<1>6. CASE EvictToTrim
  <2>1. idle # <<>>
    BY <1>6, LimitsAssumption DEF EvictToTrim, OverAllowance, KeepaliveAllowance
  <2>2. Len(idle') = Len(idle) - 1 /\ pc' = pc
    BY <1>6, <2>1, OldestEvicted DEF EvictToTrim, Inv
  <2> QED
    BY <1>1, <2>2
<1>7. CASE Trimmed
  <2>1. idle' = idle /\ ~OverAllowance /\ KeepaliveAllowance # 0
    BY <1>7 DEF Trimmed, Inv, Phases
  <2>2. Len(idle) <= KeepaliveAllowance
    BY <1>1, <2>1 DEF OverAllowance
  <2> QED
    BY <1>1, <2>1, <2>2
<1>8. \/ idle' = idle /\ (pc = "trim" => pc' = "trim")
      \/ pc' = pc /\ (DiscardStale \/ EvictForRoom \/ EvictToClose)
      \/ TakeIdle \/ ReleaseKeeps \/ EvictToTrim \/ Trimmed
  BY DEF vars, Next, Progress, Program, World, Begin, DiscardStale, NoneIdle,
     EvictForRoom, PoolIsFull, RoomFound, PoolDeadlinePassed, Connected, ConnectFails,
     HandshakeDone, HandshakeFails, ExchangeEnds, HeadArrives, ExchangeFails,
     ReleaseCloses, EvictToClose, Closed, SourceEnds, SourceDrops, BeginClose,
     PeerDisturbs, Age, Return, Goto
<1> QED
  BY <1>2, <1>3, <1>4, <1>5, <1>6, <1>7, <1>8

\* Between calls no more connections are idle than the allowance, which is the
\* smaller of the two limits.
THEOREM AllowanceKept == Spec => []IdleWithinAllowance
<1>1. Init => AllowanceInv
  BY AllowanceType DEF Init, AllowanceInv
<1>2. Inv /\ AllowanceInv /\ [Next]_vars => AllowanceInv'
  BY AllowanceStep
<1>3. Inv /\ AllowanceInv => IdleWithinAllowance
  BY AllowanceType, LenProperties DEF AllowanceInv, IdleWithinAllowance, Inv, TypeOK
<1> QED
  BY <1>1, <1>2, <1>3, Invariance, PTL DEF Spec

-----------------------------------------------------------------------------
(* The pool implements the ledger.                                         *)

\* A step the ledger does not see.
LEMMA LedgerStays ==
    ASSUME open' = open, Waiting' = Waiting
    PROVE  UNCHANGED Status
BY DEF Status

LEMMA LedgerCounts == \A S : Ledger!Cardinality(S) = Cardinality(S)
BY DEF Ledger!Cardinality, Cardinality, Ledger!IsFiniteSet, IsFiniteSet

LEMMA LedgerOpens ==
    ASSUME NEW c \in Conns, c \notin open, Waiting \subseteq open, open \subseteq Conns,
           Cardinality(open) < Unbounded(MaxConnections),
           open' = open \cup {c}, Waiting' = Waiting
    PROVE  Ledger!Open(c)
<1>1. Status[c] = "closed" /\ Status' = [Status EXCEPT ![c] = "busy"]
  BY DEF Status
<1>2. Conns \ Ledger!Of("closed") = open
  BY DEF Ledger!Of, Status
<1> QED
  BY <1>1, <1>2, LedgerCounts DEF Ledger!Open

LEMMA LedgerParks ==
    ASSUME NEW c \in Conns, c \in open, c \notin Waiting,
           Waiting \subseteq open, open \subseteq Conns,
           Cardinality(Waiting) < Unbounded(KeepaliveAllowance),
           open' = open, Waiting' = Waiting \cup {c}
    PROVE  Ledger!Park(c)
<1>1. Status[c] = "busy" /\ Status' = [Status EXCEPT ![c] = "idle"]
  BY DEF Status
<1>2. Ledger!Of("idle") = Waiting
  BY DEF Ledger!Of, Status
<1> QED
  BY <1>1, <1>2, LedgerCounts DEF Ledger!Park

LEMMA LedgerDisplaces ==
    ASSUME NEW c \in Conns, NEW d \in Conns, c # d, c \in open, c \notin Waiting, d \in Waiting, d \in open,
           open' = open \ {d}, Waiting' = (Waiting \ {d}) \cup {c}
    PROVE  Ledger!Displace(c, d)
<1>1. /\ Status[c] = "busy" /\ Status[d] = "idle"
      /\ Status' = [Status EXCEPT ![c] = "idle", ![d] = "closed"]
  BY DEF Status
<1> QED
  BY <1>1 DEF Ledger!Displace

LEMMA LedgerReuses ==
    ASSUME NEW c \in Conns, c \in open, c \in Waiting, open' = open, Waiting' = Waiting \ {c}
    PROVE  Ledger!Reuse(c)
<1>1. Status[c] = "idle" /\ Status' = [Status EXCEPT ![c] = "busy"]
  BY DEF Status
<1> QED
  BY <1>1 DEF Ledger!Reuse

LEMMA LedgerCloses ==
    ASSUME NEW c \in Conns, c \in open, open' = open \ {c}, Waiting' = Waiting \ {c}
    PROVE  Ledger!Close(c)
<1>1. Status[c] # "closed" /\ Status' = [Status EXCEPT ![c] = "closed"]
  BY DEF Status
<1> QED
  BY <1>1 DEF Ledger!Close

\* Outside the trimming the ledger sees the whole list as idle.
LEMMA AllWait ==
    /\ pc # "trim" \/ ~OverAllowance => Waiting = ToSet(idle)
    /\ pc' # "trim" \/ ~OverAllowance' => Waiting' = ToSet(idle)'
BY DEF Waiting

LEMMA LastWaits ==
    ASSUME NEW S, NEW s \in Seq(S), s # <<>>
    PROVE  Last(s) = s[Len(s)] /\ Len(s) \in 1..Len(s) /\ Head(s) = s[1] /\ 1 \in 1..Len(s)
BY LenProperties, EmptySeq, HeadTailProperties DEF Last

LEMMA LedgerStep ==
    ASSUME Inv, AllowanceInv, [Next]_vars
    PROVE  [Ledger!Next]_Status
<1> USE DEF Inv
<1>1. /\ ToSet(idle) \subseteq open /\ open \subseteq Conns /\ Waiting \subseteq ToSet(idle)
      /\ idle \in Seq(Conns) /\ Len(idle) \in Nat /\ NoRepeats(idle)
      /\ cur # NoConn => cur \in open /\ cur \notin ToSet(idle)
      /\ \A s \in Holding : held[s] \in open /\ held[s] \notin ToSet(idle)
  BY LenProperties DEF OneOwner, TypeOK, Waiting, NoRepeats
<1> DEFINE Moved ==
             \/ UNCHANGED Status
             \/ \E c \in Conns : \/ Ledger!Open(c) \/ Ledger!Park(c) \/ Ledger!Reuse(c)
                                 \/ Ledger!Close(c)
             \/ \E c, d \in Conns : Ledger!Displace(c, d)
<1> SUFFICES Moved
  BY DEF Ledger!Next
<1> HIDE DEF Inv
<1>2. ASSUME open' = open, idle' = idle, pc # "trim", pc' # "trim" PROVE Moved
  BY <1>2, AllWait, LedgerStays
<1>3. ASSUME NEW c \in ToSet(idle), Shut(c), ToSet(idle') = ToSet(idle) \ {c},
             pc # "trim", pc' # "trim"
      PROVE  Moved
  <2>1. Ledger!Close(c)
    BY <1>1, <1>3, AllWait, LedgerCloses DEF Shut
  <2> QED
    BY <1>1, <2>1
<1>4. ASSUME NEW c \in open, c \notin ToSet(idle), Shut(c), idle' = idle, pc # "trim", pc' # "trim"
      PROVE  Moved
  <2>1. Ledger!Close(c)
    BY <1>1, <1>4, AllWait, LedgerCloses DEF Shut
  <2> QED
    BY <1>1, <2>1
<1>5. ASSUME EvictOldest, idle # <<>>, pc # "trim", pc' # "trim" PROVE Moved
  BY <1>3, <1>5, OldestEvicted DEF Inv
<1>6. CASE TakeIdle
  <2> DEFINE c == idle[FirstCandidate]
  <2>1. /\ c \in ToSet(idle) /\ c \in Conns /\ ToSet(idle') = ToSet(idle) \ {c}
        /\ open' = open /\ pc # "trim" /\ pc' # "trim"
    BY <1>6, CandidateTaken DEF TakeIdle, Inv
  <2> HIDE DEF c
  <2>2. Ledger!Reuse(c)
    BY <1>1, <2>1, AllWait, LedgerReuses
  <2> QED
    BY <2>1, <2>2
<1>7. CASE DiscardStale
  BY <1>3, <1>7, CandidateTaken DEF DiscardStale, Inv
<1>8. CASE NoneIdle \/ PoolIsFull \/ RoomFound \/ PoolDeadlinePassed \/ ConnectFails
           \/ HandshakeDone \/ HeadArrives \/ Closed \/ BeginClose
           \/ (\E fit \in BOOLEAN : ExchangeEnds(fit)) \/ (\E c \in Calls : Begin(c))
           \/ (\E s \in Sources, fit \in BOOLEAN : SourceEnds(s, fit))
  BY <1>2, <1>8
     DEF NoneIdle, PoolIsFull, RoomFound, PoolDeadlinePassed, ConnectFails, HandshakeDone,
         HeadArrives, Closed, BeginClose, ExchangeEnds, Begin, SourceEnds, Goto, Return, world
<1>9. CASE EvictForRoom \/ EvictToClose
  BY <1>5, <1>9 DEF EvictForRoom, EvictToClose
<1>10. ASSUME NEW c \in Conns, Connected(c) PROVE Moved
  <2>1. /\ c \notin open /\ open' = open \cup {c} /\ idle' = idle
        /\ pc = "connect" /\ pc' # "trim"
    BY <1>10 DEF Connected
  <2>2. Cardinality(open) < Unbounded(MaxConnections)
    <3>1. CASE MaxConnections = None
      <4>1. IsFiniteSet(Conns) /\ open \subseteq Conns /\ open # Conns
        BY <1>1, <2>1, ConnsAssumption
      <4> QED
        BY <3>1, <4>1, FS_Subset, FS_CardinalityType DEF Unbounded
    <3>2. CASE MaxConnections # None
      <4>1. /\ Cardinality(open) \in Nat /\ Cardinality(Holding) \in Nat
            /\ Cardinality(open) <= Len(idle) + Cardinality(Holding)
        BY <2>1, SocketsCounted DEF HoldsOne
      <4>2. leased = Cardinality(Holding) /\ Promised = 1 /\ MaxConnections \in Nat
        BY <2>1, <3>2, <4>1, LimitsAssumption DEF Inv, LeaseCountExact, Promised
      <4>3. Len(idle) + leased + 1 <= MaxConnections
        BY <3>2, <4>2 DEF Inv, CountersWithinLimit, TotalCount
      <4> QED
        BY <1>1, <3>2, <4>1, <4>2, <4>3 DEF Unbounded
    <3> QED
      BY <3>1, <3>2
  <2>3. Ledger!Open(c)
    BY <1>1, <2>1, <2>2, AllWait, LedgerOpens
  <2> QED
    BY <2>3
<1>11. CASE HandshakeFails \/ ExchangeFails \/ ReleaseCloses
  <2>1. /\ cur # NoConn /\ Shut(cur) /\ idle' = idle /\ pc # "trim" /\ pc' # "trim"
    BY <1>11 DEF HandshakeFails, ExchangeFails, ReleaseCloses, Return, Inv, Phases, HoldsOne
  <2> QED
    BY <1>1, <1>4, <2>1
<1>12. ASSUME NEW s \in Sources, SourceDrops(s) PROVE Moved
  <2>1. s \in Holding /\ Shut(held[s]) /\ idle' = idle /\ pc # "trim" /\ pc' # "trim"
    BY <1>12 DEF SourceDrops, Holding
  <2> QED
    BY <1>1, <1>4, <2>1
<1>13. CASE ReleaseKeeps
  <2>1. /\ cur # NoConn /\ cur \in Conns /\ cur \in open /\ cur \notin ToSet(idle)
        /\ open' = open /\ idle' = Append(idle, cur) /\ pc = "release" /\ pc' = "trim"
        /\ KeepaliveAllowance # 0
    BY <1>1, <1>13 DEF ReleaseKeeps, Inv, Phases, HoldsOne, world
  <2>2. /\ idle' \in Seq(Conns) /\ Len(idle') = Len(idle) + 1
        /\ ToSet(idle') = ToSet(idle) \cup {cur}
    BY <1>1, <2>1, AppendEntries
  <2>3. Last(idle') = cur /\ Waiting = ToSet(idle)
    BY <1>1, <2>1, <2>2, AppendProperties, AllWait DEF Last
  <2>4. CASE OverAllowance'
    <3>1. Waiting' = Waiting
      BY <2>1, <2>2, <2>3, <2>4 DEF Waiting
    <3> QED
      BY <2>1, <3>1, LedgerStays
  <2>5. CASE ~OverAllowance'
    <3>1. Waiting' = Waiting \cup {cur}
      BY <2>2, <2>3, <2>5, AllWait
    <3>2. IsFiniteSet(ToSet(idle)) /\ Cardinality(ToSet(idle)) <= Len(idle)
          /\ Cardinality(ToSet(idle)) \in Nat
      BY <1>1, EntriesBounded, FS_CardinalityType
    <3>3. Cardinality(Waiting) < Unbounded(KeepaliveAllowance)
      <4>1. CASE KeepaliveAllowance = None
        <5>1. IsFiniteSet(Conns) /\ Waiting \subseteq Conns /\ Waiting # Conns
          BY <1>1, <2>1, <2>3, ConnsAssumption
        <5> QED
          BY <4>1, <5>1, FS_Subset, FS_CardinalityType DEF Unbounded
      <4>2. CASE KeepaliveAllowance # None
        <5>1. KeepaliveAllowance \in Nat /\ KeepaliveAllowance > 0
          BY <2>1, <4>2, AllowanceType
        <5>2. Len(idle) + 1 <= KeepaliveAllowance
          BY <1>1, <2>2, <2>5, <4>2, <5>1 DEF OverAllowance, KeepaliveAllowance
        <5> QED
          BY <1>1, <2>3, <3>2, <4>2, <5>1, <5>2 DEF Unbounded
      <4> QED
        BY <4>1, <4>2
    <3>4. Ledger!Park(cur)
      BY <1>1, <2>1, <2>3, <3>1, <3>3, LedgerParks
    <3> QED
      BY <2>1, <3>4
  <2> QED
    BY <2>4, <2>5
<1>14. CASE EvictToTrim
  <2>1. /\ pc = "trim" /\ pc' = "trim" /\ OverAllowance /\ EvictOldest
    BY <1>14 DEF EvictToTrim
  <2>2. /\ KeepaliveAllowance \in Nat /\ KeepaliveAllowance > 0
        /\ Len(idle) = KeepaliveAllowance + 1
    BY <1>1, <2>1, AllowanceType DEF OverAllowance, AllowanceInv
  <2>3. idle # <<>>
    BY <2>2
  <2>4. /\ Head(idle) \in Conns /\ Head(idle) \in ToSet(idle) /\ open' = open \ {Head(idle)}
        /\ Len(idle') = Len(idle) - 1 /\ ToSet(idle') = ToSet(idle) \ {Head(idle)}
    BY <2>1, <2>3, OldestEvicted DEF Inv, Shut
  <2>5. ~OverAllowance'
    BY <1>1, <2>2, <2>4 DEF OverAllowance, KeepaliveAllowance
  <2>6. /\ Last(idle) \in ToSet(idle) /\ Head(idle) # Last(idle) /\ Last(idle) \in Conns
    <3>1. /\ Last(idle) = idle[Len(idle)] /\ Len(idle) \in 1..Len(idle)
          /\ Head(idle) = idle[1] /\ 1 \in 1..Len(idle)
      BY <1>1, <2>3, LastWaits
    <3>2. idle[Len(idle)] \in ToSet(idle)
      BY <1>1, <3>1, LenProperties DEF ToSet
    <3> QED
      BY <1>1, <2>2, <3>1, <3>2 DEF NoRepeats
  <2>7. Waiting = ToSet(idle) \ {Last(idle)} /\ Waiting' = ToSet(idle')
    BY <2>1, <2>5 DEF Waiting
  <2> DEFINE c == Last(idle)
             d == Head(idle)
  <2>8. /\ c \in Conns /\ d \in Conns /\ c # d /\ c \in open /\ c \notin Waiting
        /\ d \in Waiting /\ d \in open
        /\ open' = open \ {d} /\ Waiting' = (Waiting \ {d}) \cup {c}
    BY <1>1, <2>4, <2>6, <2>7
  <2> HIDE DEF c, d
  <2>9. Ledger!Displace(c, d)
    BY <2>8, LedgerDisplaces
  <2> QED
    BY <2>8, <2>9
<1>15. CASE Trimmed
  <2>1. ~OverAllowance /\ idle' = idle /\ open' = open /\ pc' # "trim"
    BY <1>15 DEF Trimmed, Return, world
  <2> QED
    BY <2>1, AllWait, LedgerStays
<1>16. CASE (\E c \in Conns : PeerDisturbs(c) \/ Age(c)) \/ UNCHANGED vars
  <2>1. idle' = idle /\ open' = open /\ pc' = pc
    BY <1>16 DEF PeerDisturbs, Age, vars
  <2>2. Waiting' = Waiting
    BY <2>1 DEF Waiting, OverAllowance
  <2> QED
    BY <2>1, <2>2, LedgerStays
<1> HIDE DEF Moved
<1> QED
  BY <1>6, <1>7, <1>8, <1>9, <1>10, <1>11, <1>12, <1>13, <1>14, <1>15, <1>16
     DEF Next, Progress, Program, World

\* The pool implements the ledger: whatever its limits, every step of it is a
\* step the ledger allows, or one the ledger does not see.
THEOREM LedgerImplemented == Spec => ImplementsLedger
<1>1. Init => Ledger!Init
  BY DEF Init, Ledger!Init, Status
<1>2. Init => AllowanceInv
  BY AllowanceType DEF Init, AllowanceInv
<1>3. Inv /\ AllowanceInv /\ [Next]_vars => AllowanceInv'
  BY AllowanceStep
<1>4. Inv /\ AllowanceInv /\ [Next]_vars => [Ledger!Next]_Status
  BY LedgerStep
<1> QED
  BY <1>1, <1>2, <1>3, <1>4, Invariance, PTL DEF Spec, ImplementsLedger, Ledger!Spec

===============================================================================
