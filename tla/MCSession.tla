----------------------------- MODULE MCSession ------------------------------
(* Session on a small instance: the cfg files give the bounds.             *)
EXTENDS Session, TLC

Symmetry == Permutations(Requests)
=============================================================================
