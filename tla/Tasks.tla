-------------------------------- MODULE Tasks --------------------------------
(***************************************************************************)
(* A caller of the stateless packages: it takes up one task and makes the   *)
(* calls the task needs, one after another.  What each answers is kept.     *)
(***************************************************************************)
EXTENDS Integers, Sequences

VARIABLES task,              \* [kind, of]
          answers            \* what its calls have answered so far

taskVars == <<task, answers>>

t == task.of

\* The next call of a task of this kind, after n calls, answers x.
NextCall(kind, n, x) ==
  /\ task.kind = kind
  /\ Len(answers) = n
  /\ answers' = Append(answers, x)
  /\ UNCHANGED task

After(kind, n) == task.kind = kind /\ Len(answers) = n
=============================================================================
