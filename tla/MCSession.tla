------------------------------ MODULE MCSession ------------------------------
(* Model-checking instance of Session. *)
EXTENDS Session, TLC

Symmetry == Permutations(Containers) \cup Permutations(Conns)

=============================================================================
