------------------------- MODULE MCClientTransport --------------------------
(* ClientTransport on a small instance: the cfg files give the bounds.     *)
EXTENDS ClientTransport, TLC
=============================================================================
