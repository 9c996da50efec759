------------------------------- MODULE MCMount -------------------------------
(* Mount on two servers that may mount each other.  The first has a tool and *)
(* a template; the second has two tools whose names differ by a prefix, a    *)
(* resource that the template's pattern also matches, and the same template. *)
EXTENDS Mount, TLC

CONSTANTS A, B, p, x, v

MCInitial ==
  (A :> [tool |-> << <<x>> >>, resource |-> << >>, template |-> << >>, prompt |-> << >>])
  @@ (B :> [tool |-> << <<x>>, <<p, x>> >>, resource |-> << <<x>> >>,
            template |-> << <<v>> >>, prompt |-> << >>])

MCPrefixes == { << >>, <<p>> }

\* A template that composing the other's template under the prefix p collides with.
MCLate == { [server |-> A, kind |-> "template", key |-> <<p, v>>] }

MCGuesses == { <<p, x>> }
=============================================================================
