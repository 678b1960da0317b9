------------------------------- MODULE AioPool -------------------------------
(***************************************************************************)
(* The asynchronous connection pool of httpx/_pool/aio_pool.mojo, with the *)
(* resolver cache it consults (httpx/_io/dns.mojo).                        *)
(*                                                                         *)
(* handle_many opens every request of a batch, runs all of them at once as *)
(* tasks that give the worker back at each wait, and finishes them in      *)
(* order once the last has settled.  handle_request is a batch of one, and *)
(* stream_request a batch of one that leaves the body with a source.       *)
(***************************************************************************)
EXTENDS Integers, Sequences, FiniteSets, SequencesExt

CONSTANTS
    Origins,          \* what idle connections are keyed by
    TlsOrigins,       \* those that need a handshake after the connect
    TunnelOrigins,    \* those this pool could only reach through a tunnel
    Conns,            \* identities of sockets; one that is closed may be opened again
    Sources,          \* streamed responses the program can hold at once
    None,             \* a limit that is not set
    NoConn,           \* a detached AsyncH1Connection
    NoOrigin,         \* what originOf says of a socket that is not open
    NoSource,         \* the running batch is buffered
    MaxConnections,   \* Limits.max_connections, or None
    MaxKeepalive,     \* Limits.max_keepalive_connections, or None
    MaxBatch          \* bound: the requests of one handle_many

ASSUME LimitsAssumption ==
    /\ None \notin Int
    /\ MaxConnections \in (Nat \ {0}) \cup {None}
    /\ MaxKeepalive \in Nat \cup {None}
    /\ MaxBatch \in Nat \ {0}

ASSUME ConnsAssumption ==
    /\ NoConn \notin Conns /\ NoOrigin \notin Origins /\ NoSource \notin Sources
    /\ IsFiniteSet(Conns) /\ IsFiniteSet(Sources)
    /\ TlsOrigins \subseteq Origins /\ TunnelOrigins \subseteq Origins

VARIABLES
    idle,     \* _idle: connections waiting, the one released first at the front
    leased,   \* _leased: calls opened and not finished, and unfinished sources
    originOf, \* the origin each open connection was made for
    open,     \* the sockets that are open
    sound,    \* those for which is_reusable would answer True now
    aged,     \* idle connections older than the keepalive expiry
    held,     \* AsyncPooledSource._conn of each source
    pc,       \* where the running batch has got to
    todo,     \* origins of the requests still to be opened
    calls,    \* Batch.calls: the requests opened and not finished
    streamTo, \* the source a stream_request is for, or NoSource
    cur,      \* the connection _release has in its hands
    failure,  \* the first failure of the batch, "none" so far
    outcome,  \* how the last batch ended
    cached,   \* origins whose addresses the resolver remembers
    suspect   \* history: origins every address of which refused since the lookup

pool    == <<idle, leased>>
world   == <<originOf, open, sound, aged>>
batch   == <<todo, calls, streamTo, failure>>
names   == <<cached, suspect>>
vars    == <<pool, world, held, pc, batch, cur, outcome, names>>

-----------------------------------------------------------------------------

\* Limits.keepalive_allowance: the smaller of the two bounds, None if neither.
KeepaliveAllowance ==
    IF MaxConnections # None
       /\ (MaxKeepalive = None \/ MaxKeepalive > MaxConnections)
    THEN MaxConnections
    ELSE MaxKeepalive

RoomLeft == MaxConnections # None => Len(idle) + leased < MaxConnections

\* AsyncPooledConnection.is_stale.
IsStale(c) == c \in aged \/ c \notin sound

Wanted == Head(todo)

Candidates == { i \in 1..Len(idle) : originOf[idle[i]] = Wanted }

FirstCandidate == CHOOSE i \in Candidates : \A j \in Candidates : i <= j

\* PoolCall: a request whose connection is being raced, secured or used, or
\* that has ended: "whole", or with what went wrong recorded on its Exchange.
PoolCall(o, c, s) == [origin |-> o, conn |-> c, state |-> s]

Broken == {"refused", "timed_out", "broken"}
Settled == Broken \cup {"whole"}
CallStates == {"racing", "securing", "exchanging"} \cup Settled

Init ==
    /\ idle = <<>> /\ leased = 0
    /\ originOf = [c \in Conns |-> NoOrigin]
    /\ open = {} /\ sound = {} /\ aged = {}
    /\ held = [s \in Sources |-> NoConn]
    /\ pc = "ready" /\ todo = <<>> /\ calls = <<>> /\ streamTo = NoSource
    /\ cur = NoConn /\ failure = "none" /\ outcome = "none"
    /\ cached = {} /\ suspect = {}

\* Closing a socket, or a connection that has none.
Shut(c) ==
    /\ open' = open \ {c}
    /\ sound' = sound \ {c}
    /\ aged' = aged \ {c}
    /\ originOf' = [d \in Conns |-> IF d = c THEN NoOrigin ELSE originOf[d]]

Return(how) ==
    /\ pc' = "ready" /\ outcome' = how
    /\ todo' = <<>> /\ calls' = <<>> /\ streamTo' = NoSource /\ failure' = "none"

-----------------------------------------------------------------------------
(* open, for each request of the batch in turn.                            *)

HandleMany(os) ==
    /\ pc = "ready"
    /\ pc' = "opening" /\ todo' = os
    /\ UNCHANGED <<pool, world, held, calls, streamTo, failure, cur, outcome, names>>

StreamRequest(o, s) ==
    /\ pc = "ready" /\ held[s] = NoConn
    /\ pc' = "opening" /\ todo' = <<o>> /\ streamTo' = s
    /\ UNCHANGED <<pool, world, held, calls, failure, cur, outcome, names>>

\* open raised: what the batch had opened is abandoned, then it is raised again.
OpenRaises(why) ==
    /\ pc' = "abandoning" /\ failure' = why
    /\ UNCHANGED <<todo, calls, streamTo, held, cur, outcome>>

RefuseTunnel ==
    /\ pc = "opening" /\ todo # <<>> /\ Wanted \in TunnelOrigins
    /\ OpenRaises("tunnel")
    /\ UNCHANGED <<pool, world, names>>

Opening == pc = "opening" /\ todo # <<>> /\ Wanted \notin TunnelOrigins

\* PoolCall.reusing.
TakeIdle ==
    /\ Opening /\ Candidates # {}
    /\ LET c == idle[FirstCandidate]
       IN  /\ ~IsStale(c)
           /\ idle' = RemoveAt(idle, FirstCandidate)
           /\ leased' = leased + 1
           /\ sound' = sound \ {c}
           /\ calls' = Append(calls, PoolCall(Wanted, c, "exchanging"))
           /\ todo' = Tail(todo)
    /\ UNCHANGED <<originOf, open, aged, held, pc, streamTo, failure, cur, outcome, names>>

DiscardStale ==
    /\ Opening /\ Candidates # {}
    /\ LET c == idle[FirstCandidate]
       IN  /\ IsStale(c)
           /\ idle' = RemoveAt(idle, FirstCandidate)
           /\ Shut(c)
    /\ UNCHANGED <<leased, held, pc, batch, cur, outcome, names>>

NoneIdle ==
    /\ Opening /\ Candidates = {}
    /\ pc' = "room"
    /\ UNCHANGED <<pool, world, held, batch, cur, outcome, names>>

EvictOldest == idle' = Tail(idle) /\ Shut(Head(idle))

EvictForRoom ==
    /\ pc = "room" /\ ~RoomLeft /\ idle # <<>>
    /\ EvictOldest
    /\ UNCHANGED <<leased, held, pc, batch, cur, outcome, names>>

\* Faulty: waits for a lease to come back, on the thread that holds them all.
PoolIsFullWaits ==
    /\ pc = "room" /\ ~RoomLeft /\ idle = <<>>
    /\ UNCHANGED vars

PoolIsFull ==
    /\ pc = "room" /\ ~RoomLeft /\ idle = <<>>
    /\ OpenRaises("pool_timeout")
    /\ UNCHANGED <<pool, world, names>>

PoolDeadlinePassed ==
    /\ pc = "room" /\ RoomLeft /\ MaxConnections # None
    /\ OpenRaises("pool_deadline")
    /\ UNCHANGED <<pool, world, names>>

\* start_race on a remembered answer or a fresh one, then PoolCall.opening.
StartRace(fresh) ==
    /\ pc = "room" /\ RoomLeft
    /\ ~fresh => Wanted \in cached
    /\ fresh => Wanted \notin cached
    /\ cached' = cached \cup {Wanted}
    /\ suspect' = IF fresh THEN suspect \ {Wanted} ELSE suspect
    /\ leased' = leased + 1
    /\ calls' = Append(calls, PoolCall(Wanted, NoConn, "racing"))
    /\ todo' = Tail(todo) /\ pc' = "opening"
    /\ UNCHANGED <<idle, world, held, streamTo, failure, cur, outcome>>

\* The lookup failed, or the TLS context could not be built.
CannotStart ==
    /\ pc = "room" /\ RoomLeft
    /\ Wanted \notin cached \/ Wanted \in TlsOrigins
    /\ OpenRaises("unresolved")
    /\ UNCHANGED <<pool, world, names>>

AllOpened ==
    /\ pc = "opening" /\ todo = <<>>
    /\ pc' = "running"
    /\ UNCHANGED <<pool, world, held, batch, cur, outcome, names>>

\* Faulty: the lease is not given back, nor the connection closed.
AbandonForgetting ==
    /\ pc = "abandoning" /\ calls # <<>>
    /\ calls' = Front(calls)
    /\ UNCHANGED <<pool, world, held, pc, todo, streamTo, failure, cur, outcome, names>>

\* _abandon: the last opened first; a connection it reused is closed.
Abandon ==
    /\ pc = "abandoning" /\ calls # <<>>
    /\ leased' = leased - 1
    /\ Shut(Last(calls).conn)
    /\ calls' = Front(calls)
    /\ UNCHANGED <<idle, held, pc, todo, streamTo, failure, cur, outcome, names>>

AllAbandoned ==
    /\ pc = "abandoning" /\ calls = <<>>
    /\ Return(failure)
    /\ UNCHANGED <<pool, world, held, cur, names>>

-----------------------------------------------------------------------------
(* The tasks of the batch, in any order.                                   *)

InState(i, s) == pc = "running" /\ i \in 1..Len(calls) /\ calls[i].state = s

Becomes(i, s) == calls' = [calls EXCEPT ![i].state = s]

RaceWon(i, c) ==
    /\ InState(i, "racing") /\ c \notin open
    /\ open' = open \cup {c}
    /\ originOf' = [originOf EXCEPT ![c] = calls[i].origin]
    /\ calls' = [calls EXCEPT ![i].conn = c,
                   ![i].state = IF calls[i].origin \in TlsOrigins
                                THEN "securing" ELSE "exchanging"]
    /\ UNCHANGED <<pool, sound, aged, held, pc, todo, streamTo, failure, cur, outcome, names>>

\* Every address refused, or the connect deadline passed first.
RaceLost(i, how) ==
    /\ InState(i, "racing")
    /\ how \in {"refused", "timed_out"}
    /\ Becomes(i, how)
    /\ suspect' = IF how = "refused" THEN suspect \cup {calls[i].origin} ELSE suspect
    /\ UNCHANGED <<pool, world, held, pc, todo, streamTo, failure, cur, outcome, cached>>

HandshakeDone(i) ==
    /\ InState(i, "securing")
    /\ Becomes(i, "exchanging")
    /\ UNCHANGED <<pool, world, held, pc, todo, streamTo, failure, cur, outcome, names>>

HandshakeFails(i) ==
    /\ InState(i, "securing")
    /\ \E how \in {"timed_out", "broken"} : Becomes(i, how)
    /\ UNCHANGED <<pool, world, held, pc, todo, streamTo, failure, cur, outcome, names>>

ExchangeEnds(i, fit) ==
    /\ InState(i, "exchanging")
    /\ streamTo # NoSource => ~fit
    /\ Becomes(i, "whole")
    /\ sound' = IF fit THEN sound \cup {calls[i].conn} ELSE sound
    /\ UNCHANGED <<pool, originOf, open, aged, held, pc, todo, streamTo, failure, cur, outcome, names>>

ExchangeFails(i) ==
    /\ InState(i, "exchanging")
    /\ Becomes(i, "broken")
    /\ UNCHANGED <<pool, world, held, pc, todo, streamTo, failure, cur, outcome, names>>

Step(i) ==
    \/ \E c \in Conns : RaceWon(i, c)
    \/ \E how \in {"refused", "timed_out"} : RaceLost(i, how)
    \/ HandshakeDone(i) \/ HandshakeFails(i)
    \/ \E fit \in BOOLEAN : ExchangeEnds(i, fit)
    \/ ExchangeFails(i)

\* The task group has waited for the last of them.
AllSettled ==
    /\ pc = "running" /\ \A i \in 1..Len(calls) : calls[i].state \in Settled
    /\ pc' = "finishing"
    /\ UNCHANGED <<pool, world, held, batch, cur, outcome, names>>

-----------------------------------------------------------------------------
(* finish, for each call in the order the requests went in.                *)

Finishing(s) == pc = "finishing" /\ calls # <<>> /\ Head(calls).state \in s

\* The lease is given back first, whatever comes next.
FinishWhole ==
    /\ Finishing({"whole"}) /\ streamTo = NoSource
    /\ leased' = leased - 1
    /\ cur' = Head(calls).conn
    /\ calls' = Tail(calls) /\ pc' = "release"
    /\ UNCHANGED <<idle, world, held, todo, streamTo, failure, outcome, names>>

\* Faulty: only a timeout costs the resolver its answer.
FinishBrokenRemembering ==
    /\ Finishing(Broken)
    /\ leased' = leased - 1
    /\ Shut(Head(calls).conn)
    /\ calls' = Tail(calls)
    /\ failure' = IF failure = "none" THEN Head(calls).state ELSE failure
    /\ cached' = IF Head(calls).state = "timed_out"
                 THEN cached \ {Head(calls).origin} ELSE cached
    /\ UNCHANGED <<idle, held, pc, todo, streamTo, cur, outcome, suspect>>

\* The first failure is the one the batch will raise.  A connect that was
\* refused costs the resolver its answer, one that timed out does not.
FinishBroken ==
    /\ Finishing(Broken)
    /\ leased' = leased - 1
    /\ Shut(Head(calls).conn)
    /\ calls' = Tail(calls)
    /\ failure' = IF failure = "none" THEN Head(calls).state ELSE failure
    /\ cached' = IF Head(calls).state = "refused"
                 THEN cached \ {Head(calls).origin} ELSE cached
    /\ UNCHANGED <<idle, held, pc, todo, streamTo, cur, outcome, suspect>>

\* stream_request: the lease passes to the source with the connection.
FinishStream ==
    /\ Finishing({"whole"}) /\ streamTo # NoSource
    /\ held' = [held EXCEPT ![streamTo] = Head(calls).conn]
    /\ calls' = Tail(calls)
    /\ UNCHANGED <<pool, world, pc, todo, streamTo, failure, cur, outcome, names>>

AllFinished ==
    /\ pc = "finishing" /\ calls = <<>>
    /\ Return(IF failure = "none" THEN "responses" ELSE failure)
    /\ UNCHANGED <<pool, world, held, cur, names>>

\* _release returns to the batch being finished, if there is one.  A source
\* that gives back has no batch behind it, and finds nothing left to finish.
ReleaseKeeps ==
    /\ pc = "release" /\ cur \in sound /\ KeepaliveAllowance # 0
    /\ idle' = Append(idle, cur)
    /\ cur' = NoConn /\ pc' = "trim"
    /\ UNCHANGED <<leased, world, held, batch, outcome, names>>

ReleaseCloses ==
    /\ pc = "release" /\ (cur \notin sound \/ KeepaliveAllowance = 0)
    /\ Shut(cur)
    /\ cur' = NoConn /\ pc' = "finishing"
    /\ UNCHANGED <<pool, held, batch, outcome, names>>

\* Faulty: one too many is kept.
OverAllowanceOffByOne ==
    KeepaliveAllowance # None /\ KeepaliveAllowance > 0 /\ Len(idle) > KeepaliveAllowance + 1

OverAllowance ==
    KeepaliveAllowance # None /\ KeepaliveAllowance > 0 /\ Len(idle) > KeepaliveAllowance

EvictToTrim ==
    /\ pc = "trim" /\ OverAllowance
    /\ EvictOldest
    /\ UNCHANGED <<leased, held, pc, batch, cur, outcome, names>>

Trimmed ==
    /\ pc = "trim" /\ ~OverAllowance
    /\ pc' = "finishing"
    /\ UNCHANGED <<pool, world, held, batch, cur, outcome, names>>

-----------------------------------------------------------------------------
(* The methods of an AsyncPooledSource, and AsyncConnectionPool.close.     *)

SourceEnds(s, fit) ==
    /\ pc = "ready" /\ held[s] # NoConn
    /\ held' = [held EXCEPT ![s] = NoConn]
    /\ leased' = leased - 1
    /\ sound' = IF fit THEN sound \cup {held[s]} ELSE sound
    /\ cur' = held[s] /\ pc' = "release"
    /\ UNCHANGED <<idle, originOf, open, aged, batch, outcome, names>>

\* Faulty: the connection is not taken out, so a second close drops it again.
SourceDropsTwice(s) ==
    /\ pc = "ready" /\ held[s] # NoConn
    /\ leased' = leased - 1
    /\ Shut(held[s])
    /\ UNCHANGED <<idle, held, pc, batch, cur, outcome, names>>

SourceDrops(s) ==
    /\ pc = "ready" /\ held[s] # NoConn
    /\ held' = [held EXCEPT ![s] = NoConn]
    /\ leased' = leased - 1
    /\ Shut(held[s])
    /\ UNCHANGED <<idle, pc, batch, cur, outcome, names>>

\* close: every idle connection, the oldest first.
CloseOne ==
    /\ pc \in {"ready", "closing"} /\ idle # <<>>
    /\ EvictOldest
    /\ pc' = "closing"
    /\ UNCHANGED <<leased, held, batch, cur, outcome, names>>

Closed ==
    /\ pc = "closing" /\ idle = <<>>
    /\ Return("closed")
    /\ UNCHANGED <<pool, world, held, cur, names>>

-----------------------------------------------------------------------------

PeerDisturbs(c) ==
    /\ c \in sound
    /\ sound' = sound \ {c}
    /\ UNCHANGED <<pool, originOf, open, aged, held, pc, batch, cur, outcome, names>>

Age(c) ==
    /\ c \in ToSet(idle) /\ c \notin aged
    /\ aged' = aged \cup {c}
    /\ UNCHANGED <<pool, originOf, open, sound, held, pc, batch, cur, outcome, names>>

\* A remembered answer outlives its time to live, or is pushed out.
AnswerExpires(o) ==
    /\ o \in cached
    /\ cached' = cached \ {o}
    /\ UNCHANGED <<pool, world, held, pc, batch, cur, outcome, suspect>>

Progress ==
    \/ RefuseTunnel \/ TakeIdle \/ DiscardStale \/ NoneIdle
    \/ EvictForRoom \/ PoolIsFull \/ PoolDeadlinePassed
    \/ \E fresh \in BOOLEAN : StartRace(fresh)
    \/ CannotStart \/ AllOpened \/ Abandon \/ AllAbandoned
    \/ AllSettled \/ FinishWhole \/ FinishBroken \/ FinishStream \/ AllFinished
    \/ ReleaseKeeps \/ ReleaseCloses \/ EvictToTrim \/ Trimmed
    \/ Closed

Program ==
    \/ \E n \in 1..MaxBatch : \E os \in [1..n -> Origins] : HandleMany(os)
    \/ \E o \in Origins, s \in Sources : StreamRequest(o, s)
    \/ \E s \in Sources, fit \in BOOLEAN : SourceEnds(s, fit)
    \/ \E s \in Sources : SourceDrops(s)
    \/ CloseOne

World ==
    \/ \E c \in Conns : PeerDisturbs(c) \/ Age(c)
    \/ \E o \in Origins : AnswerExpires(o)

Next == Progress \/ (\E i \in 1..MaxBatch : Step(i)) \/ Program \/ World

\* The task group runs every task, and each of its waits ends at its deadline.
\* A close that has begun goes on.
Fairness ==
    /\ WF_vars(Progress) /\ WF_vars(pc = "closing" /\ CloseOne)
    /\ \A i \in 1..MaxBatch : WF_vars(Step(i))

Spec == Init /\ [][Next]_vars /\ Fairness

-----------------------------------------------------------------------------
(* What the pool promises.                                                 *)

\* The types of the state.
TypeOK ==
    /\ idle \in Seq(Conns)
    /\ leased \in Nat
    /\ originOf \in [Conns -> Origins \cup {NoOrigin}]
    /\ open \subseteq Conns /\ sound \subseteq open /\ aged \subseteq open
    /\ held \in [Sources -> Conns \cup {NoConn}]
    /\ pc \in {"ready", "opening", "room", "abandoning", "running", "finishing",
               "release", "trim", "closing"}
    /\ todo \in Seq(Origins)
    /\ calls \in Seq([origin : Origins, conn : Conns \cup {NoConn}, state : CallStates])
    /\ streamTo \in Sources \cup {NoSource}
    /\ cur \in Conns \cup {NoConn}
    /\ failure \in Broken \cup {"none", "tunnel", "pool_timeout", "pool_deadline", "unresolved"}
    /\ outcome \in Broken \cup {"none", "tunnel", "pool_timeout", "pool_deadline",
                               "unresolved", "responses", "closed"}
    /\ cached \subseteq Origins /\ suspect \subseteq Origins

Holding == { s \in Sources : held[s] # NoConn }

Calling == { i \in 1..Len(calls) : calls[i].conn # NoConn }

\* The count covers every request opened and not finished, whether or not it
\* has a connection yet, and every unfinished source: a batch that could not be
\* opened, or that failed, gives back all it took.
LeaseCountExact == leased = Len(calls) + Cardinality(Holding)

\* Every open socket has exactly one owner: the idle list, one call of the
\* batch, one source, or _release.  No two tasks of a batch share one.
OneOwner ==
    /\ ToSet(idle) \cup { calls[i].conn : i \in Calling }
         \cup { held[s] : s \in Holding }
         \cup (IF cur = NoConn THEN {} ELSE {cur}) = open
    /\ Cardinality(open) = Len(idle) + Cardinality(Calling) + Cardinality(Holding)
                            + (IF cur = NoConn THEN 0 ELSE 1)

\* Both accounts of the pool hold at every step of every task, those of a batch
\* abandoned half way included: its leases and its sockets.
Accounted == LeaseCountExact /\ OneOwner

\* Once every address of a host has refused, no later batch races on the answer
\* that named them: the refusal is found by a task, and the answer dropped when
\* the batch is finished, before anything else is opened.
RefusedAnswerForgotten == pc = "ready" => suspect \cap cached = {}

\* A full pool is reported only when the requests of this batch opened so far
\* and the unfinished sources take every connection it may have.
TimeoutMeansAllHeld ==
    [][failure' = "pool_timeout" /\ failure # failure' =>
         Len(calls) + Cardinality(Holding) >= MaxConnections]_vars

\* Every batch ends, with its responses or a failure.
BatchesEnd == pc # "ready" ~> pc = "ready"

-----------------------------------------------------------------------------
(* The ledger the async pool implements, as Pool does.                     *)

Unbounded(bound) == IF bound = None THEN Cardinality(Conns) ELSE bound

\* A connection that has just gone over the allowance is not idle yet: it is
\* when the oldest idle one has made way for it.
Waiting == { c \in ToSet(idle) : ~(pc = "trim" /\ OverAllowance /\ c = Last(idle)) }

Status ==
    [c \in Conns |-> IF c \notin open THEN "closed" ELSE IF c \in Waiting THEN "idle" ELSE "busy"]

Ledger == INSTANCE ConnLedger WITH
    MaxOpen <- Unbounded(MaxConnections),
    MaxIdle <- Unbounded(KeepaliveAllowance),
    status <- Status

\* The async pool implements the same ledger as the synchronous one.
ImplementsLedger == Ledger!Spec

=============================================================================
