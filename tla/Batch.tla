------------------------------- MODULE Batch --------------------------------
(***************************************************************************)
(* What contrib.CallToolsBulk promises, however it runs the calls: each    *)
(* call is made at most once; a call may be left out only when another one *)
(* failed and the batch stops on errors, or when the context ended; nothing*)
(* is in flight, and no outcome changes, once the batch has returned; and  *)
(* a failure that was recorded is reported.                                *)
(*                                                                         *)
(* callSequential and callParallel are both shown to implement it (Bulk).  *)
(***************************************************************************)

CONSTANT Slots   \* the calls of the batch

VARIABLES
  stops,      \* whether it stops on the first error (fixed from the start)
  slot,       \* what has become of each call
  ended,      \* the caller's context has ended
  over,       \* the batch has returned
  reported    \* it returned an error

vars == <<stops, slot, ended, over, reported>>

Failed == {i \in Slots : slot[i] = "failed"}
Excuse == ended \/ (stops /\ Failed # {})

Init ==
  /\ stops \in BOOLEAN
  /\ slot = [i \in Slots |-> "pending"]
  /\ ended = FALSE
  /\ over = FALSE
  /\ reported = FALSE

Start(i) ==
  /\ ~over /\ slot[i] = "pending"
  /\ slot' = [slot EXCEPT ![i] = "running"]
  /\ UNCHANGED <<stops, ended, over, reported>>

Finish(i, outcome) ==
  /\ ~over /\ slot[i] = "running"
  /\ slot' = [slot EXCEPT ![i] = outcome]
  /\ UNCHANGED <<stops, ended, over, reported>>

Skip(i) ==
  /\ ~over /\ slot[i] = "pending" /\ Excuse
  /\ slot' = [slot EXCEPT ![i] = "skipped"]
  /\ UNCHANGED <<stops, ended, over, reported>>

End ==
  /\ ended' = TRUE
  /\ UNCHANGED <<stops, slot, over, reported>>

\* The calls that were not come to by then are left out.
Return ==
  /\ ~over
  /\ \A i \in Slots : slot[i] # "running"
  /\ (\E i \in Slots : slot[i] = "pending") => Excuse
  /\ slot' = [i \in Slots |-> IF slot[i] = "pending" THEN "skipped" ELSE slot[i]]
  /\ reported' \in {b \in BOOLEAN : (Failed # {} => b) /\ (b => Failed # {} \/ ended)}
  /\ over' = TRUE
  /\ UNCHANGED <<stops, ended>>

Next ==
  \/ \E i \in Slots : \/ Start(i) \/ Skip(i)
                      \/ \E outcome \in {"ok", "failed"} : Finish(i, outcome)
  \/ End \/ Return

Spec == Init /\ [][Next]_vars
=============================================================================
