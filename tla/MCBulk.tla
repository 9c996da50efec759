------------------------------- MODULE MCBulk -------------------------------
(* Bulk on a small instance: the cfg gives the bounds.                     *)
EXTENDS Bulk
=============================================================================
