------------------------------- MODULE MCPool -------------------------------
(***************************************************************************)
(* Instances of Pool for TLC.                                              *)
(***************************************************************************)
EXTENDS Pool, TLC

\* Sockets and sources are interchangeable: nothing is chosen among them.
Interchangeable == Permutations(Conns) \cup Permutations(Sources)

=============================================================================
