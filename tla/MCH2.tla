-------------------------------- MODULE MCH2 --------------------------------
(***************************************************************************)
(* An instance of H2 for TLC: a server that shuts the windows of its       *)
(* streams, or opens them and allows one stream only.                      *)
(***************************************************************************)
EXTENDS H2

Announced == {[window |-> 0, streams |-> 2], [window |-> 2, streams |-> 1]}

=============================================================================
