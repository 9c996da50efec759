------------------------------ MODULE Exchange ------------------------------
(***************************************************************************)
(* What a JSON-RPC correlator promises, whichever side of the connection   *)
(* it runs on.  An exchange is one request and its single outcome.  It is  *)
(* opened at most once; the peer may reply only to an exchange that was    *)
(* opened; it ends exactly once, answered by a reply to that very exchange *)
(* or failed; it never changes after that.  Once the connection is over,   *)
(* an open exchange ends.                                                  *)
(*                                                                         *)
(* session.request on the server (Session.tla) and stdioTransport.roundTrip*)
(* on the client (ClientTransport.tla) are both shown to implement it.     *)
(***************************************************************************)

CONSTANT Ids    \* the identities of the exchanges

VARIABLES
  status,       \* what the requester knows of each exchange
  replied,      \* the exchanges the peer has replied to
  over          \* the connection (or its context) has ended

vars == <<status, replied, over>>

Init ==
  /\ status = [i \in Ids |-> "idle"]
  /\ replied = {}
  /\ over = FALSE

Open(i) ==
  /\ status[i] = "idle"
  /\ status' = [status EXCEPT ![i] = "open"]
  /\ UNCHANGED <<replied, over>>

PeerReplies(i) ==
  /\ status[i] # "idle"
  /\ replied' = replied \cup {i}
  /\ UNCHANGED <<status, over>>

Answer(i) ==
  /\ status[i] = "open"
  /\ i \in replied
  /\ status' = [status EXCEPT ![i] = "answered"]
  /\ UNCHANGED <<replied, over>>

Fail(i) ==
  /\ status[i] = "open"
  /\ status' = [status EXCEPT ![i] = "failed"]
  /\ UNCHANGED <<replied, over>>

End ==
  /\ over' = TRUE
  /\ UNCHANGED <<status, replied>>

Next ==
  \/ \E i \in Ids : Open(i) \/ PeerReplies(i) \/ Answer(i) \/ Fail(i)
  \/ End

\* The safety part, and the promise that an exchange does not stay open once
\* its reply is in or the connection is over.
Safety == Init /\ [][Next]_vars

Spec ==
  /\ Safety
  /\ \A i \in Ids : WF_vars((over \/ i \in replied) /\ (Answer(i) \/ Fail(i)))
=============================================================================
