----------------------------- MODULE MCSession -----------------------------
(* Session for a few players; players, and connections, are interchangeable. *)
EXTENDS Session, TLC

Symmetry == Permutations(Conns) \cup Permutations(Players)

=============================================================================
