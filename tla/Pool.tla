-------------------------------- MODULE Pool --------------------------------
(***************************************************************************)
(* The synchronous connection pool of httpx/_pool/pool.mojo with the       *)
(* limits of httpx/_pool/limits.mojo.                                      *)
(*                                                                         *)
(* One program thread runs handle_request, stream_request, close and the   *)
(* methods of the PooledSources it was given, one call at a time (there is *)
(* no lock in the pool).  A call is split at the points where the rest of  *)
(* the world can move: between two candidates it judges, while it          *)
(* connects, during the exchange, between two evictions.  The world is the *)
(* peers, which close connections or speak out of turn, and the clock,     *)
(* which ages what is idle.                                                *)
(***************************************************************************)
EXTENDS Integers, Sequences, FiniteSets, SequencesExt

CONSTANTS
    Origins,          \* scheme, host and port: what idle connections are keyed by
    HandshakeOrigins, \* those reached through TLS or a tunnel after the TCP connect
    Conns,            \* identities of sockets; one that is closed may be opened again
    Sources,          \* streamed responses the program can hold at once
    None,             \* a limit that is not set
    NoConn,           \* an empty Optional[Connection]
    NoOrigin,         \* what originOf says of a socket that is not open
    MaxConnections,   \* Limits.max_connections, or None
    MaxKeepalive,     \* Limits.max_keepalive_connections, or None
    HasExpiry         \* whether Limits.keepalive_expiry is set

\* What Limits.__init__ lets through.
ASSUME LimitsAssumption ==
    /\ None \notin Int
    /\ MaxConnections \in (Nat \ {0}) \cup {None}
    /\ MaxKeepalive \in Nat \cup {None}
    /\ HasExpiry \in BOOLEAN

ASSUME ConnsAssumption ==
    /\ NoConn \notin Conns /\ NoOrigin \notin Origins
    /\ IsFiniteSet(Conns)
    /\ IsFiniteSet(Sources)
    /\ HandshakeOrigins \subseteq Origins

VARIABLES
    idle,     \* _idle: connections waiting, the one released first at the front
    leased,   \* _leased: the count of connections carrying an exchange
    originOf, \* the origin each open connection was made for
    open,     \* the sockets that are open
    sound,    \* those for which Connection.is_reusable would answer True now
    aged,     \* idle connections older than the keepalive expiry
    held,     \* PooledSource._conn of each source
    pc,       \* where the running call has got to
    call,     \* what the running call is for: its kind, origin and source
    at,       \* how far down the idle list _take_idle has looked (its i)
    cur,      \* the connection the running call has in its hands
    outcome   \* how the last call ended

vars == <<idle, leased, originOf, open, sound, aged, held, pc, call, at, cur, outcome>>

world == <<originOf, open, sound, aged>>

-----------------------------------------------------------------------------

\* Limits.keepalive_allowance: the smaller of the two bounds, None if neither.
KeepaliveAllowance ==
    IF MaxConnections # None
       /\ (MaxKeepalive = None \/ MaxKeepalive > MaxConnections)
    THEN MaxConnections
    ELSE MaxKeepalive

TotalCount == Len(idle) + leased

\* A faulty form of the next: one connection too many.
RoomLeftOffByOne == MaxConnections # None => TotalCount <= MaxConnections

RoomLeft == MaxConnections # None => TotalCount < MaxConnections

\* PooledConnection.is_stale: too old, or not fit to carry another request.
IsStale(c) == c \in aged \/ c \notin sound

\* The idle connections to the origin of the running call not yet looked at.
Candidates == { i \in 1..Len(idle) : i >= at /\ originOf[idle[i]] = call.origin }

FirstCandidate == CHOOSE i \in Candidates : \A j \in Candidates : i <= j

Idle == [kind |-> "none"]

Calls == [kind : {"handle"}, origin : Origins]
         \cup [kind : {"stream"}, origin : Origins, source : Sources]

Init ==
    /\ idle = <<>> /\ leased = 0
    /\ originOf = [c \in Conns |-> NoOrigin]
    /\ open = {} /\ sound = {} /\ aged = {}
    /\ held = [s \in Sources |-> NoConn]
    /\ pc = "ready" /\ call = Idle /\ at = 1 /\ cur = NoConn /\ outcome = "none"

\* Closing a socket: nothing about it matters any more.
Shut(c) ==
    /\ open' = open \ {c}
    /\ sound' = sound \ {c}
    /\ aged' = aged \ {c}
    /\ originOf' = [originOf EXCEPT ![c] = NoOrigin]

\* The call returns or raises.
Return(how) ==
    /\ pc' = "ready" /\ call' = Idle /\ cur' = NoConn /\ outcome' = how
    /\ UNCHANGED at

Goto(next) == pc' = next /\ UNCHANGED <<call, at, cur, outcome>>

-----------------------------------------------------------------------------
(* Beginning a call.                                                       *)

Begin(c) ==
    /\ pc = "ready"
    /\ c.kind = "stream" => held[c.source] = NoConn
    /\ pc' = "scan" /\ call' = c /\ at' = 1
    /\ UNCHANGED <<idle, leased, held, cur, outcome, world>>

(* _take_idle: one candidate at a time, out of the list before it is judged. *)

TakeIdle ==
    /\ pc = "scan" /\ Candidates # {}
    /\ LET c == idle[FirstCandidate]
       IN  /\ ~IsStale(c)
           /\ idle' = RemoveAt(idle, FirstCandidate)
           /\ leased' = leased + 1
           /\ cur' = c /\ pc' = "exchange"
           /\ sound' = sound \ {c}
           /\ UNCHANGED <<open, aged, originOf, held, call, at, outcome>>

\* Faulty: steps on past the entry that has moved into the place of the last.
DiscardStaleSkipping ==
    /\ pc = "scan" /\ Candidates # {}
    /\ LET c == idle[FirstCandidate]
       IN  /\ IsStale(c)
           /\ idle' = RemoveAt(idle, FirstCandidate)
           /\ at' = FirstCandidate + 1
           /\ Shut(c)
           /\ UNCHANGED <<leased, held, pc, call, cur, outcome>>

\* pop(i) and continue: the next entry is now the i-th.
DiscardStale ==
    /\ pc = "scan" /\ Candidates # {}
    /\ LET c == idle[FirstCandidate]
       IN  /\ IsStale(c)
           /\ idle' = RemoveAt(idle, FirstCandidate)
           /\ at' = FirstCandidate
           /\ Shut(c)
           /\ UNCHANGED <<leased, held, pc, call, cur, outcome>>

NoneIdle ==
    /\ pc = "scan" /\ Candidates = {}
    /\ Goto("room")
    /\ UNCHANGED <<idle, leased, held, world>>

(* _make_room: evict what is idle, oldest first, then look at the deadline. *)

\* Faulty: the entry goes, its descriptor stays open.
EvictOldestLeaking == idle' = Tail(idle) /\ UNCHANGED world

EvictOldest == idle' = Tail(idle) /\ Shut(Head(idle))

EvictForRoom ==
    /\ pc = "room" /\ ~RoomLeft /\ idle # <<>>
    /\ EvictOldest
    /\ UNCHANGED <<leased, held, pc, call, at, cur, outcome>>

\* Faulty: waits for a lease to come back, on the thread that holds them all.
PoolIsFullWaits ==
    /\ pc = "room" /\ ~RoomLeft /\ idle = <<>>
    /\ UNCHANGED vars

PoolIsFull ==
    /\ pc = "room" /\ ~RoomLeft /\ idle = <<>>
    /\ Return("pool_timeout")
    /\ UNCHANGED <<idle, leased, held, world>>

RoomFound ==
    /\ pc = "room" /\ RoomLeft
    /\ Goto("connect")
    /\ UNCHANGED <<idle, leased, held, world>>

\* With no limit _make_room has returned before it reads the deadline.
PoolDeadlinePassed ==
    /\ pc = "room" /\ RoomLeft /\ MaxConnections # None
    /\ Return("pool_deadline")
    /\ UNCHANGED <<idle, leased, held, world>>

(* The rest of _acquire: the socket, then TLS or a tunnel; no lease yet.    *)

Connected(c) ==
    /\ pc = "connect" /\ c \notin open
    /\ open' = open \cup {c}
    /\ originOf' = [originOf EXCEPT ![c] = call.origin]
    /\ cur' = c
    /\ IF call.origin \in HandshakeOrigins
       THEN pc' = "handshake" /\ UNCHANGED leased
       ELSE pc' = "exchange" /\ leased' = leased + 1
    /\ UNCHANGED <<idle, held, sound, aged, call, at, outcome>>

ConnectFails ==
    /\ pc = "connect"
    /\ Return("connect_error")
    /\ UNCHANGED <<idle, leased, held, world>>

HandshakeDone ==
    /\ pc = "handshake"
    /\ pc' = "exchange" /\ leased' = leased + 1
    /\ UNCHANGED <<idle, held, call, at, cur, outcome, world>>

HandshakeFails ==
    /\ pc = "handshake"
    /\ Shut(cur)
    /\ Return("connect_error")
    /\ UNCHANGED <<idle, leased, held>>

-----------------------------------------------------------------------------
(* The exchange.  `fit` is what the connection will say of itself after.    *)

\* The body of a buffered response has ended.
ExchangeEnds(fit) ==
    /\ pc = "exchange" /\ call.kind = "handle"
    /\ leased' = leased - 1
    /\ sound' = IF fit THEN sound \cup {cur} ELSE sound
    /\ Goto("release")
    /\ UNCHANGED <<idle, held, open, aged, originOf>>

\* The head of a streamed response is in: the lease now belongs to the source.
HeadArrives ==
    /\ pc = "exchange" /\ call.kind = "stream"
    /\ held' = [held EXCEPT ![call.source] = cur]
    /\ Return("response")
    /\ UNCHANGED <<idle, leased, world>>

\* Faulty: the lease is not given back on the way out.
ExchangeFailsLeasing ==
    /\ pc = "exchange"
    /\ Shut(cur)
    /\ Return("exchange_error")
    /\ UNCHANGED <<idle, leased, held>>

ExchangeFails ==
    /\ pc = "exchange"
    /\ leased' = leased - 1
    /\ Shut(cur)
    /\ Return("exchange_error")
    /\ UNCHANGED <<idle, held>>

(* The methods of a PooledSource.                                          *)

\* read_chunk found the end of the body: _give_back.
SourceEnds(s, fit) ==
    /\ pc = "ready" /\ held[s] # NoConn
    /\ held' = [held EXCEPT ![s] = NoConn]
    /\ leased' = leased - 1
    /\ sound' = IF fit THEN sound \cup {held[s]} ELSE sound
    /\ cur' = held[s] /\ pc' = "release"
    /\ UNCHANGED <<idle, open, aged, originOf, call, at, outcome>>

\* Faulty: the connection is not taken out, so a second close drops it again.
SourceDropsTwice(s) ==
    /\ pc = "ready" /\ held[s] # NoConn
    /\ leased' = leased - 1
    /\ Shut(held[s])
    /\ UNCHANGED <<idle, held, pc, call, at, cur, outcome>>

\* _drop: read_chunk raised, or close, or __deinit__ on an unfinished body.
SourceDrops(s) ==
    /\ pc = "ready" /\ held[s] # NoConn
    /\ held' = [held EXCEPT ![s] = NoConn]
    /\ leased' = leased - 1
    /\ Shut(held[s])
    /\ UNCHANGED <<idle, pc, call, at, cur, outcome>>

(* _release, then the trimming of the idle list to its allowance.          *)

ReleaseKeeps ==
    /\ pc = "release" /\ cur \in sound /\ KeepaliveAllowance # 0
    /\ idle' = Append(idle, cur)
    /\ cur' = NoConn /\ pc' = "trim"
    /\ UNCHANGED <<leased, held, call, at, outcome, world>>

ReleaseCloses ==
    /\ pc = "release" /\ (cur \notin sound \/ KeepaliveAllowance = 0)
    /\ Shut(cur)
    /\ Return("response")
    /\ UNCHANGED <<idle, leased, held>>

\* Faulty: one too many is kept.
OverAllowanceOffByOne ==
    KeepaliveAllowance # None /\ KeepaliveAllowance > 0 /\ Len(idle) > KeepaliveAllowance + 1

OverAllowance ==
    KeepaliveAllowance # None /\ KeepaliveAllowance > 0 /\ Len(idle) > KeepaliveAllowance

EvictToTrim ==
    /\ pc = "trim" /\ OverAllowance
    /\ EvictOldest
    /\ UNCHANGED <<leased, held, pc, call, at, cur, outcome>>

Trimmed ==
    /\ pc = "trim" /\ ~OverAllowance
    /\ Return("response")
    /\ UNCHANGED <<idle, leased, held, world>>

(* ConnectionPool.close: every idle connection, and no leased one.         *)

BeginClose ==
    /\ pc = "ready"
    /\ Goto("closing")
    /\ UNCHANGED <<idle, leased, held, world>>

EvictToClose ==
    /\ pc = "closing" /\ idle # <<>>
    /\ EvictOldest
    /\ UNCHANGED <<leased, held, pc, call, at, cur, outcome>>

Closed ==
    /\ pc = "closing" /\ idle = <<>>
    /\ Return("closed")
    /\ UNCHANGED <<idle, leased, held, world>>

-----------------------------------------------------------------------------
(* The world.                                                              *)

\* The peer closed, or sent what nobody asked for: is_reusable turns False.
PeerDisturbs(c) ==
    /\ c \in sound
    /\ sound' = sound \ {c}
    /\ UNCHANGED <<idle, leased, held, pc, call, at, cur, outcome, open, aged, originOf>>

\* An idle connection passes the keepalive expiry.
Age(c) ==
    /\ HasExpiry /\ c \in ToSet(idle) /\ c \notin aged
    /\ aged' = aged \cup {c}
    /\ UNCHANGED <<idle, leased, held, pc, call, at, cur, outcome, open, sound, originOf>>

\* What the running call does of its own accord, once it has begun.
Progress ==
    \/ TakeIdle \/ DiscardStale \/ NoneIdle
    \/ EvictForRoom \/ PoolIsFull \/ RoomFound \/ PoolDeadlinePassed
    \/ \E c \in Conns : Connected(c)
    \/ ConnectFails \/ HandshakeDone \/ HandshakeFails
    \/ \E fit \in BOOLEAN : ExchangeEnds(fit)
    \/ HeadArrives \/ ExchangeFails
    \/ ReleaseKeeps \/ ReleaseCloses \/ EvictToTrim \/ Trimmed
    \/ EvictToClose \/ Closed

\* What the program decides to do next.
Program ==
    \/ \E c \in Calls : Begin(c)
    \/ \E s \in Sources, fit \in BOOLEAN : SourceEnds(s, fit)
    \/ \E s \in Sources : SourceDrops(s)
    \/ BeginClose

World == \E c \in Conns : PeerDisturbs(c) \/ Age(c)

Next == Progress \/ Program \/ World

\* Every wait inside a call ends: the connect, write and read deadlines, or
\* the peer, see to that.  Nothing makes the program call the pool again.
Spec == Init /\ [][Next]_vars /\ WF_vars(Progress)

-----------------------------------------------------------------------------
(* What the pool promises.                                                 *)

\* The types of the state, and the phases in which the call holds a socket.
TypeOK ==
    /\ idle \in Seq(Conns)
    /\ leased \in Nat
    /\ originOf \in [Conns -> Origins \cup {NoOrigin}]
    /\ open \subseteq Conns /\ sound \subseteq open /\ aged \subseteq open
    /\ held \in [Sources -> Conns \cup {NoConn}]
    /\ pc \in {"ready", "scan", "room", "connect", "handshake", "exchange",
               "release", "trim", "closing"}
    /\ call \in Calls \cup {Idle} /\ at \in Nat \ {0}
    /\ cur \in Conns \cup {NoConn}
    /\ outcome \in {"none", "response", "pool_timeout", "pool_deadline",
                    "connect_error", "exchange_error", "closed"}

Holding == { s \in Sources : held[s] # NoConn }

\* _leased is adjusted by hand at eight places; it must stay the number of
\* connections that really carry an exchange, whichever way each one ended.
LeaseCountExact ==
    leased = Cardinality(Holding) + (IF pc = "exchange" THEN 1 ELSE 0)

\* Every open socket is in exactly one place: on the idle list once, with one
\* source, or in the hands of the call.  None is shared and none is lost, and
\* no closed one is kept anywhere.
OneOwner ==
    /\ ToSet(idle) \cup { held[s] : s \in Holding }
         \cup (IF cur = NoConn THEN {} ELSE {cur}) = open
    /\ \A i, j \in 1..Len(idle) : idle[i] = idle[j] => i = j
    /\ \A s \in Holding :
         /\ held[s] \notin ToSet(idle)
         /\ held[s] # cur
         /\ \A t \in Holding : held[t] = held[s] => t = s
    /\ cur \notin ToSet(idle)

\* The limit is kept on the sockets themselves and not only on the counters:
\* those being connected, and those whose lease has just been given back and
\* are not yet parked or closed, are covered too.
SocketsWithinLimit ==
    MaxConnections # None => Cardinality(open) <= MaxConnections

\* No more connections are kept idle than the allowance, between calls.
IdleWithinAllowance ==
    pc # "trim" /\ KeepaliveAllowance # None => Len(idle) <= KeepaliveAllowance

\* "Reused if there is a sound one to reuse" (_acquire): by the time a call
\* makes room for a socket and opens it, no connection to its origin is idle,
\* though the scan of _take_idle takes entries out of the list it is walking and
\* evictions follow it.  What it left would wait there beside the new one.
OpensOnlyWhenNoneIdle ==
    pc \in {"room", "connect", "handshake"} =>
        \A c \in ToSet(idle) : originOf[c] # call.origin

\* PoolTimeout is only raised when as many streamed responses as the pool may
\* have connections are unfinished: nothing idle was there to give up, and no
\* lease was lost on the way.
TimeoutMeansAllHeld ==
    [][pc = "room" /\ outcome' = "pool_timeout" /\ pc' = "ready" =>
         Cardinality(Holding) >= MaxConnections]_vars

\* A call that has begun returns or raises, whatever peers and clock do.
CallsReturn == pc # "ready" ~> pc = "ready"

-----------------------------------------------------------------------------
(* The ledger the pool implements.                                         *)

Unbounded(bound) == IF bound = None THEN Cardinality(Conns) ELSE bound

\* A connection that has just gone over the allowance is not idle yet: it is
\* when the oldest idle one has made way for it.
Waiting == { c \in ToSet(idle) : ~(pc = "trim" /\ OverAllowance /\ c = Last(idle)) }

Status ==
    [c \in Conns |-> IF c \notin open THEN "closed" ELSE IF c \in Waiting THEN "idle" ELSE "busy"]

Ledger == INSTANCE ConnLedger WITH
    MaxOpen <- Unbounded(MaxConnections),
    MaxIdle <- Unbounded(KeepaliveAllowance),
    status <- Status

\* The pool implements the ledger: every step of it is one of the ledger's, or
\* changes nothing the ledger sees.
ImplementsLedger == Ledger!Spec

=============================================================================
