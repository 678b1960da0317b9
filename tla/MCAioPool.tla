------------------------------ MODULE MCAioPool ------------------------------
(***************************************************************************)
(* Instances of AioPool for TLC.                                           *)
(***************************************************************************)
EXTENDS AioPool, TLC

==============================================================================
