-------------------------------- MODULE Race --------------------------------
(***************************************************************************)
(* Happy Eyeballs: the staggered race of connects that                     *)
(* connect_to_addresses (httpx/_io/connect.mojo) runs on its own thread    *)
(* and _race_step (httpx/_io/aio_connect.mojo) runs a pass at a time.      *)
(*                                                                         *)
(* A pass checks the deadline, starts the next attempt if its turn has     *)
(* come, then asks every attempt in flight how it is doing.  The network   *)
(* answers attempts, and the clock moves, between any two steps.           *)
(***************************************************************************)
EXTENDS Integers, Sequences, FiniteSets, FiniteSetsExt

CONSTANTS
    Addresses,    \* how many addresses the resolver gave, tried in order
    MaxAttempts,  \* MAX_ATTEMPTS: attempts in flight at once
    Delay,        \* ATTEMPT_DELAY_MS, in ticks of the clock
    Deadline      \* the tick at which the connect deadline expires

ASSUME RaceAssumption ==
    /\ Addresses \in Nat \ {0} /\ MaxAttempts \in Nat \ {0}
    /\ Delay \in Nat \ {0} /\ Deadline \in Nat

VARIABLES
    now,       \* the monotonic clock, in ticks; it stops at the deadline
    status,    \* what the network has made of each address
    pending,   \* the attempts in flight, in the order they were started
    next,      \* next_address: the first one not tried
    nextStart, \* next_start_ns: when the next attempt may start
    phase,     \* the half of the pass that comes next
    verdict,   \* "racing", or how the race ended
    winner,    \* the attempt whose socket the race hands out
    lastStart, \* history: when an attempt was last started
    mishap     \* history: whether one has failed since

vars == <<now, status, pending, next, nextStart, phase, verdict, winner, lastStart, mishap>>
history == <<lastStart, mishap>>

Nobody == 0

Init ==
    /\ now = 0 /\ nextStart = 0
    /\ status = [a \in 1..Addresses |-> "untried"]
    /\ pending = <<>> /\ next = 1
    /\ phase = "start" /\ verdict = "racing" /\ winner = Nobody
    /\ lastStart = -Delay /\ mishap = FALSE

Racing(half) == verdict = "racing" /\ phase = half

-----------------------------------------------------------------------------

TimeLeft == now < Deadline

\* Faulty: with attempts in flight, the deadline is not looked at.
DeadlinePassedWhenIdle ==
    /\ Racing("start") /\ ~TimeLeft /\ pending = <<>>
    /\ verdict' = "timeout" /\ pending' = <<>>
    /\ UNCHANGED <<now, status, next, nextStart, phase, winner, history>>

DeadlinePassed ==
    /\ Racing("start") /\ ~TimeLeft
    /\ verdict' = "timeout" /\ pending' = <<>>
    /\ UNCHANGED <<now, status, next, nextStart, phase, winner, history>>

\* Faulty: the stagger is forgotten, every address is started at once.
TurnHasComeUnstaggered ==
    /\ next <= Addresses
    /\ Len(pending) < MaxAttempts

\* Faulty: the ceiling on attempts in flight is not looked at.
TurnHasComeUncapped == next <= Addresses /\ now >= nextStart

TurnHasCome ==
    /\ next <= Addresses
    /\ Len(pending) < MaxAttempts
    /\ now >= nextStart

\* start_connect: under way, over at once, or not even a socket to be had.
StartAttempt(how) ==
    /\ Racing("start") /\ TimeLeft /\ TurnHasCome
    /\ status' = [status EXCEPT ![next] = IF how = "no_socket" THEN "refused" ELSE how]
    /\ pending' = IF how = "no_socket" THEN pending ELSE Append(pending, next)
    /\ next' = next + 1
    /\ nextStart' = now + Delay
    /\ phase' = "judge"
    /\ lastStart' = now /\ mishap' = (how = "no_socket")
    /\ UNCHANGED <<now, verdict, winner>>

NothingToStart ==
    /\ Racing("start") /\ TimeLeft /\ ~TurnHasCome
    /\ phase' = "judge"
    /\ UNCHANGED <<now, status, pending, next, nextStart, verdict, winner, history>>

\* The entries of the list that winner_index finds connected, and those it
\* finds failed and takes out.
Up   == { i \in 1..Len(pending) : status[pending[i]] = "connected" }
Lost == { i \in 1..Len(pending) : status[pending[i]] = "refused" }

\* Faulty: as many entries go as have failed, but from the end of the list.
SurvivorsAtFront == SubSeq(pending, 1, Len(pending) - Cardinality(Lost))

Survivors ==
    LET kept[i \in 0..Len(pending)] ==
          IF i = 0 THEN <<>>
          ELSE IF i \in Lost THEN kept[i - 1]
          ELSE Append(kept[i - 1], pending[i])
    IN  kept[Len(pending)]

\* The list is walked from its end.  An entry found connected is kept as an
\* index, and a failed one met after it, nearer the front, is removed: the
\* index then names the entry behind, or none.
FoundAt == Min(Up)

Won ==
    /\ Racing("judge") /\ Up # {}
    /\ IF FoundAt <= Len(Survivors)
       THEN verdict' = "won" /\ winner' = Survivors[FoundAt]
       ELSE verdict' = "out_of_range" /\ UNCHANGED winner
    /\ pending' = <<>>
    /\ UNCHANGED <<now, status, next, nextStart, phase, history>>

\* Faulty: the addresses that were never tried are forgotten.
ExhaustedWhenIdle == Survivors = <<>>

Exhausted == Survivors = <<>> /\ next > Addresses

\* A failure brings the next start forward.
NoneYet ==
    /\ Racing("judge") /\ Up = {}
    /\ pending' = Survivors
    /\ nextStart' = IF Lost # {} THEN now ELSE nextStart
    /\ mishap' = (mishap \/ Lost # {})
    /\ verdict' = IF Exhausted THEN "refused" ELSE verdict
    /\ phase' = "start"
    /\ UNCHANGED <<now, status, next, winner, lastStart>>

-----------------------------------------------------------------------------

NetworkAnswers(a) ==
    /\ status[a] = "connecting" /\ verdict = "racing"
    /\ \E s \in {"connected", "refused"} : status' = [status EXCEPT ![a] = s]
    /\ UNCHANGED <<now, pending, next, nextStart, phase, verdict, winner, history>>

Tick ==
    /\ now < Deadline /\ verdict = "racing"
    /\ now' = now + 1
    /\ UNCHANGED <<status, pending, next, nextStart, phase, verdict, winner, history>>

Pass ==
    \/ DeadlinePassed \/ NothingToStart \/ Won \/ NoneYet
    \/ \E how \in {"connecting", "connected", "refused", "no_socket"} : StartAttempt(how)

Next == Pass \/ Tick \/ \E a \in 1..Addresses : NetworkAnswers(a)

\* The loop runs, and parks between passes, so time passes.
Spec == Init /\ [][Next]_vars /\ WF_vars(Pass) /\ WF_vars(Tick)

-----------------------------------------------------------------------------
(* What the race promises.                                                 *)

\* The types of the state; no attempt is in flight once the race has ended.
TypeOK ==
    /\ now \in 0..Deadline
    /\ status \in [1..Addresses -> {"untried", "connecting", "connected", "refused"}]
    /\ pending \in Seq(1..Addresses)
    /\ Len(pending) <= MaxAttempts
    /\ next \in 1..(Addresses + 1)
    /\ nextStart \in 0..(Deadline + Delay)
    /\ phase \in {"start", "judge"}
    /\ verdict \in {"racing", "won", "out_of_range", "refused", "timeout"}
    /\ winner \in 0..Addresses
    /\ lastStart \in Int /\ mishap \in BOOLEAN
    /\ verdict # "racing" => pending = <<>>

\* Connection refused is only said when every address was tried and failed.
RefusedMeansAllRefused ==
    verdict = "refused" => \A a \in 1..Addresses : status[a] = "refused"

\* An attempt still undecided, or decided and not yet looked at, is in flight
\* exactly once: none is lost track of while others are started and dropped.
NoAttemptLost ==
    verdict = "racing" =>
        /\ \A a \in 1..Addresses : status[a] \in {"connecting", "connected"} =>
             Cardinality({ i \in 1..Len(pending) : pending[i] = a }) = 1
        /\ \A i, j \in 1..Len(pending) : i < j => pending[i] < pending[j]

\* No connection storm: an attempt starts within the delay of the one before
\* only if some attempt has failed in between.
Staggered ==
    [][lastStart' # lastStart /\ ~mishap => lastStart' - lastStart >= Delay]_vars

\* The race ends, whatever the network never answers.
RaceEnds == verdict = "racing" ~> verdict # "racing"

\* The docstring of connect.mojo: "connect to the address that answers".  The
\* socket handed out is one that has connected.
WinnerIsConnected ==
    verdict \in {"won", "out_of_range"} => winner # Nobody /\ status[winner] = "connected"

=============================================================================
