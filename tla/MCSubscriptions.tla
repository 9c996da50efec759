-------------------------- MODULE MCSubscriptions ---------------------------
(* Subscriptions on a small instance: the cfg files give the bounds.       *)
EXTENDS Subscriptions, TLC

\* Requests on the sessions, or POSTed by the clients that have a stream, too.
MCOnSessions == [s \in Clients |-> IF s \in Stdio THEN 2 ELSE 0]
MCPosted     == [s \in Clients |-> 1]

\* The list changes are alike.
MCSymmetry == Permutations(ListChanges)
=============================================================================
