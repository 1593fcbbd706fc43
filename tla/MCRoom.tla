------------------------------- MODULE MCRoom -------------------------------
(* Room in its host, on a few connections; connections are interchangeable. *)
EXTENDS Host, TLC

ConnSymmetry == Permutations(Conns)

=============================================================================
