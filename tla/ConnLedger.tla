------------------------------ MODULE ConnLedger ------------------------------
(***************************************************************************)
(* What a connection pool promises its program, whatever it keeps inside:  *)
(* each connection is closed, idle or busy; at most MaxOpen of them are    *)
(* not closed and at most MaxIdle are idle; a connection becomes idle only *)
(* by finishing, and busy only by being opened or taken from the idle.     *)
(* Pool and AioPool (httpx/_pool/pool.mojo and aio_pool.mojo) both         *)
(* implement it.                                                           *)
(***************************************************************************)
EXTENDS Integers, FiniteSets

CONSTANTS
    Conns,   \* identities of connections
    MaxOpen, \* how many may be open at once
    MaxIdle  \* how many may be idle at once

VARIABLE status

Of(s) == { c \in Conns : status[c] = s }

Init == status = [c \in Conns |-> "closed"]

Open(c) ==
    /\ status[c] = "closed"
    /\ Cardinality(Conns \ Of("closed")) < MaxOpen
    /\ status' = [status EXCEPT ![c] = "busy"]

Park(c) ==
    /\ status[c] = "busy"
    /\ Cardinality(Of("idle")) < MaxIdle
    /\ status' = [status EXCEPT ![c] = "idle"]

\* A connection is parked in the place of one that waited longer.
Displace(c, d) ==
    /\ status[c] = "busy" /\ status[d] = "idle"
    /\ status' = [status EXCEPT ![c] = "idle", ![d] = "closed"]

Reuse(c) ==
    /\ status[c] = "idle"
    /\ status' = [status EXCEPT ![c] = "busy"]

Close(c) ==
    /\ status[c] # "closed"
    /\ status' = [status EXCEPT ![c] = "closed"]

Next ==
    \/ \E c \in Conns : Open(c) \/ Park(c) \/ Reuse(c) \/ Close(c)
    \/ \E c, d \in Conns : Displace(c, d)

Spec == Init /\ [][Next]_status

===============================================================================
