---------------------------- MODULE MCConnection ----------------------------
(* Connection on a small instance: the cfg files give the bounds.          *)
EXTENDS Connection, TLC
=============================================================================
