-------------------------------- MODULE Bulk ---------------------------------
(***************************************************************************)
(* The bulk tool caller: CallToolsBulk with its sequential and its parallel*)
(* executor (contrib/bulk.go), run over the loopback connection of a       *)
(* BulkToolCaller, which anyone may Close meanwhile (contrib/caller.go).   *)
(*                                                                         *)
(* Processes.  In parallel mode each call of the batch has a goroutine; at *)
(* most Limit of them hold a token of the semaphore.  In sequential mode   *)
(* the caller itself makes one call after another.  A call is an exchange  *)
(* over the loopback session, where a handler goroutine runs it.  The      *)
(* handler of a call in Nested is the bulk meta-tool again: it makes a     *)
(* batch of one call over the same loopback session and waits for it.      *)
(***************************************************************************)
EXTENDS Naturals, Sequences, FiniteSets

CONSTANTS
  N,          \* the number of calls of the batch
  Nested,     \* those of them that call the bulk meta-tool itself
  Limits,     \* values of BulkOptions.MaxConcurrency
  Modes       \* values of BulkOptions.Parallel

ASSUME BulkAssumption ==
  /\ N \in Nat \ {0}
  /\ Nested \subseteq 1 .. N
  /\ Limits \subseteq Nat
  /\ Modes \subseteq BOOLEAN

Slots    == 1 .. N
Inner(b) == N + b                            \* the call made by the handler of b
Calls    == Slots \cup {Inner(b) : b \in Nested}

VARIABLES
  opts,      \* the batch's BulkOptions
  ctxDone,   \* the caller's context has ended
  stopped,   \* callParallel has called its cancel
  worker,    \* where the call's goroutine (or the caller, at that call) is
  slots,     \* how many tokens the semaphore holds
  results,   \* the results, "none" where there is none (yet)
  errs,      \* the slots whose failure was appended to errs, 0 for ctx.Err()
  caller,    \* whether CallToolsBulk has returned
  late,      \* history: the calls made after stopped
  task,      \* the server's handler of each call
  closer,    \* how far BulkToolCaller.Close is
  serve      \* the goroutine that runs the loopback ServeStdio

batchVars == <<opts, stopped, slots, errs, caller, late>>
loopVars  == <<closer, serve>>
vars == <<opts, ctxDone, stopped, worker, slots, results, errs, caller, late, task,
          closer, serve>>

\* MaxConcurrency <= 0, or more than there are calls, is one goroutine per call.
Limit == IF opts.max = 0 \/ opts.max > N THEN N ELSE opts.max

Init ==
  /\ opts \in [parallel : Modes, max : Limits, continue : BOOLEAN]
  /\ ctxDone = FALSE
  /\ stopped = FALSE
  /\ worker = [i \in Slots |-> "wait"]
  /\ slots = 0
  /\ results = [i \in Slots |-> "none"]
  /\ errs = << >>
  /\ caller = "running"
  /\ late = {}
  /\ task = [c \in Calls |-> "none"]
  /\ closer = "idle"
  /\ serve = "running"

ChildDone == ctxDone \/ stopped

-----------------------------------------------------------------------------
(* A goroutine of callParallel.                                             *)

\* select: the send on the semaphore, ready while it has room
Acquire(i) ==
  /\ opts.parallel
  /\ worker[i] = "wait" /\ slots < Limit
  /\ slots' = slots + 1
  /\ worker' = [worker EXCEPT ![i] = "check"]
  /\ UNCHANGED <<opts, ctxDone, stopped, results, errs, caller, late, task, loopVars>>

\* select: the child context; nothing was acquired
SkipAtSelect(i) ==
  /\ opts.parallel
  /\ worker[i] = "wait" /\ ChildDone
  /\ results' = [results EXCEPT ![i] = "skipped"]
  /\ worker' = [worker EXCEPT ![i] = "done"]
  /\ UNCHANGED <<batchVars, ctxDone, task, loopVars>>

CallUnchecked(i) ==                          \* mutant of CheckContext: no second look
  /\ worker[i] = "check"
  /\ worker' = [worker EXCEPT ![i] = "call"]
  /\ UNCHANGED <<batchVars, ctxDone, results, task, loopVars>>

\* select may take the semaphore although the context is done: look again
CheckContext(i) ==
  /\ worker[i] = "check"
  /\ IF ChildDone
     THEN /\ results' = [results EXCEPT ![i] = "skipped"]
          /\ worker' = [worker EXCEPT ![i] = "release"]
     ELSE /\ worker' = [worker EXCEPT ![i] = "call"]
          /\ UNCHANGED results
  /\ UNCHANGED <<batchVars, ctxDone, task, loopVars>>

SkipFailures(i) ==                           \* mutant of RecordFailure: errs forgotten
  /\ opts.parallel
  /\ worker[i] = "record"
  /\ worker' = [worker EXCEPT ![i] = IF opts.continue THEN "release" ELSE "cancel"]
  /\ UNCHANGED <<batchVars, ctxDone, results, task, loopVars>>

RecordFailure(i) ==
  /\ opts.parallel
  /\ worker[i] = "record"
  /\ errs' = Append(errs, i)
  /\ worker' = [worker EXCEPT ![i] = IF opts.continue THEN "release" ELSE "cancel"]
  /\ UNCHANGED <<opts, ctxDone, stopped, slots, results, caller, late, task, loopVars>>

CancelRest(i) ==
  /\ worker[i] = "cancel"
  /\ stopped' = TRUE
  /\ worker' = [worker EXCEPT ![i] = "release"]
  /\ UNCHANGED <<opts, ctxDone, slots, results, errs, caller, late, task, loopVars>>

KeepToken(i) ==                              \* mutant of Release
  /\ worker[i] = "release"
  /\ worker' = [worker EXCEPT ![i] = "done"]
  /\ UNCHANGED <<batchVars, ctxDone, results, task, loopVars>>

\* the deferred receive from the semaphore, then wg.Done
Release(i) ==
  /\ worker[i] = "release"
  /\ slots' = slots - 1
  /\ worker' = [worker EXCEPT ![i] = "done"]
  /\ UNCHANGED <<opts, ctxDone, stopped, results, errs, caller, late, task, loopVars>>

\* wg.Wait has returned
ReturnParallel ==
  /\ opts.parallel /\ caller = "running"
  /\ \A i \in Slots : worker[i] = "done"
  /\ caller' = "returned"
  /\ UNCHANGED <<opts, ctxDone, stopped, worker, slots, results, errs, late, task, loopVars>>

-----------------------------------------------------------------------------
(* The loop of callSequential.                                              *)

\* The loop is at call i: those before it have been made.
At(i) ==
  /\ ~opts.parallel /\ caller = "running" /\ worker[i] = "wait"
  /\ \A j \in 1 .. (i - 1) : worker[j] = "done"

StartNext(i) ==
  /\ At(i) /\ ~ctxDone
  /\ worker' = [worker EXCEPT ![i] = "call"]
  /\ UNCHANGED <<batchVars, ctxDone, results, task, loopVars>>

\* ctx.Err() before a call: what there is so far is returned, with that error
StopBefore(i) ==
  /\ At(i) /\ ctxDone
  /\ errs' = Append(errs, 0)
  /\ caller' = "returned"
  /\ UNCHANGED <<opts, ctxDone, stopped, worker, slots, results, late, task, loopVars>>

GoOn(i) ==                                   \* mutant of RecordInLoop: never stops
  /\ ~opts.parallel
  /\ worker[i] = "record"
  /\ worker' = [worker EXCEPT ![i] = "done"]
  /\ errs' = IF opts.continue THEN Append(errs, i) ELSE errs
  /\ UNCHANGED <<opts, ctxDone, stopped, slots, results, caller, late, task, loopVars>>

RecordInLoop(i) ==
  /\ ~opts.parallel
  /\ worker[i] = "record"
  /\ worker' = [worker EXCEPT ![i] = "done"]
  /\ errs' = Append(errs, i)
  /\ caller' = IF opts.continue THEN caller ELSE "returned"
  /\ UNCHANGED <<opts, ctxDone, stopped, slots, results, late, task, loopVars>>

ReturnSequential ==
  /\ ~opts.parallel /\ caller = "running"
  /\ \A i \in Slots : worker[i] = "done"
  /\ caller' = "returned"
  /\ UNCHANGED <<opts, ctxDone, stopped, worker, slots, results, errs, late, task, loopVars>>

-----------------------------------------------------------------------------
(* invoke: one exchange with the loopback server (ClientTransport, Session).*)

\* The context the call is made under.
CallContextDone == ctxDone \/ (opts.parallel /\ stopped)

\* A line that the server reads after its context was cancelled is dropped.
SendCall(i) ==
  /\ worker[i] = "call"
  /\ worker' = [worker EXCEPT ![i] = "await"]
  /\ task' = IF closer = "idle" THEN [task EXCEPT ![i] = "running"] ELSE task
  /\ late' = IF stopped THEN late \cup {i} ELSE late
  /\ UNCHANGED <<opts, ctxDone, stopped, slots, results, errs, caller, loopVars>>

\* The outcome is stored; a success leaves the goroutine or the turn of the loop.
Store(i, outcome) ==
  /\ results' = [results EXCEPT ![i] = outcome]
  /\ worker' = [worker EXCEPT ![i] = IF outcome # "ok" THEN "record"
                                       ELSE IF opts.parallel THEN "release" ELSE "done"]
  /\ UNCHANGED <<batchVars, ctxDone, task, loopVars>>

\* The response: a result, a result with isError, or a JSON-RPC error.
TakeResult(i) ==
  /\ worker[i] = "await" /\ task[i] = "replied"
  /\ \E outcome \in (IF i \in Nested THEN {"ok"} ELSE {"ok", "isError", "err"}) :
       Store(i, outcome)

\* roundTrip's other cases: the context, or the transport is closed
LoopShut == closer \in {"shut", "waiting", "returned"}

TakeError(i) ==
  /\ worker[i] = "await"
  /\ CallContextDone \/ LoopShut
  /\ Store(i, "err")

-----------------------------------------------------------------------------
(* The server's handlers.                                                   *)

\* A tool's own code returns.
Handle(c) ==
  /\ task[c] = "running" /\ c \notin Nested
  /\ task' = [task EXCEPT ![c] = "replied"]
  /\ UNCHANGED <<batchVars, ctxDone, worker, results, loopVars>>

\* handleCallsBulk: with b.loop nil CallToolsBulk fails, which is not passed on
StartInner(b) ==
  /\ task[b] = "running"
  /\ task' = IF closer \in {"waiting", "returned"}
             THEN [task EXCEPT ![b] = "replied"]
             ELSE [task EXCEPT ![b] = "asking",
                               ![Inner(b)] = IF closer = "idle" THEN "running" ELSE @]
  /\ UNCHANGED <<batchVars, ctxDone, worker, results, loopVars>>

\* Its context is the loopback session's, which Close cancels first.
FinishInner(b) ==
  /\ task[b] = "asking"
  /\ task[Inner(b)] = "replied" \/ closer # "idle"
  /\ task' = [task EXCEPT ![b] = "replied"]
  /\ UNCHANGED <<batchVars, ctxDone, worker, results, loopVars>>

\* The session ends at the end of its input, or at the first line it reads after
\* its context was cancelled; it waits for its handlers.
DroppedLine == \E i \in Slots : worker[i] = "await" /\ task[i] = "none"

ServeEnds ==
  /\ serve = "running"
  /\ LoopShut \/ (closer # "idle" /\ DroppedLine)
  /\ \A c \in Calls : task[c] \notin {"running", "asking"}
  /\ serve' = "done"
  /\ UNCHANGED <<batchVars, ctxDone, worker, results, task, closer>>

-----------------------------------------------------------------------------
(* BulkToolCaller.Close, and the caller's context.                          *)

CloseStep(from, to) ==
  /\ closer = from
  /\ closer' = to
  /\ UNCHANGED <<batchVars, ctxDone, worker, results, task, serve>>

WaitBeforeClosing ==                         \* mutant of CloseLoop: serveDone first
  serve = "done" /\ CloseStep("cancelled", "shut")

CloseCancels == CloseStep("idle", "cancelled")
CloseLoop    == CloseStep("cancelled", "shut")        \* fails what is pending
ForgetLoop   == CloseStep("shut", "waiting")          \* b.loop = nil
CloseReturns == serve = "done" /\ CloseStep("waiting", "returned")

EndContext ==
  /\ ~ctxDone
  /\ ctxDone' = TRUE
  /\ UNCHANGED <<batchVars, worker, results, task, loopVars>>

-----------------------------------------------------------------------------
WorkerStep(i) ==
  \/ Acquire(i) \/ SkipAtSelect(i) \/ CheckContext(i)
  \/ RecordFailure(i) \/ CancelRest(i) \/ Release(i)
  \/ StartNext(i) \/ StopBefore(i) \/ RecordInLoop(i)
  \/ SendCall(i) \/ TakeResult(i) \/ TakeError(i)

Return == ReturnParallel \/ ReturnSequential

HandlerStep(c) ==
  \/ Handle(c)
  \/ c \in Nested /\ (StartInner(c) \/ FinishInner(c))

CloserStep == CloseLoop \/ ForgetLoop \/ CloseReturns

Next ==
  \/ \E i \in Slots : WorkerStep(i)
  \/ Return
  \/ \E c \in Calls : HandlerStep(c)
  \/ CloseCancels \/ CloserStep \/ ServeEnds
  \/ EndContext

Spec == Init /\ [][Next]_vars

(***************************************************************************)
(* Every goroutine that can run does, and a tool's handler returns.        *)
(* Nothing makes anyone cancel or close.                                   *)
(***************************************************************************)
FairSpec ==
  /\ Spec
  /\ \A i \in Slots : WF_vars(WorkerStep(i))
  /\ WF_vars(Return)
  /\ \A c \in Calls : WF_vars(HandlerStep(c))
  /\ WF_vars(CloserStep)
  /\ WF_vars(ServeEnds)

-----------------------------------------------------------------------------
TypeOK ==
  /\ opts \in [parallel : Modes, max : Limits, continue : BOOLEAN]
  /\ ctxDone \in BOOLEAN
  /\ stopped \in BOOLEAN
  /\ worker \in [Slots -> {"wait", "check", "call", "await", "record", "cancel",
                           "release", "done"}]
  /\ slots \in Nat
  /\ results \in [Slots -> {"none", "ok", "isError", "err", "skipped"}]
  /\ errs \in Seq(0 .. N)
  /\ caller \in {"running", "returned"}
  /\ late \subseteq Slots
  /\ task \in [Calls -> {"none", "running", "asking", "replied"}]
  /\ closer \in {"idle", "cancelled", "shut", "waiting", "returned"}
  /\ serve \in {"running", "done"}

InFlight == {i \in Slots : worker[i] \in {"call", "await", "record", "cancel"}}
HasFailed(i) == results[i] \in {"isError", "err"}


\* At most Limit calls are in flight at a time, and once callParallel has cancelled
\* the rest of the batch fewer than Limit are still made: only a goroutine that
\* held a token and had looked at the context before may go on (the second look,
\* bulk.go:226), and the one that failed keeps its token until it has cancelled.
BoundedFanOut == Cardinality(InFlight) <= (IF opts.parallel THEN Limit ELSE 1)
StopsPromptly == Cardinality(late) < Limit
FanOut == BoundedFanOut /\ StopsPromptly

\* When the batch returns, every failure of a call that was made is among the errors
\* it returns, and no error at all means that every call succeeded, as long as the
\* caller's context has not ended (bulk.go:181, 234 and 245).
ErrorTellsFailures ==
  caller = "returned" =>
    /\ \A i \in Slots : HasFailed(i) => \E k \in DOMAIN errs : errs[k] = i
    /\ errs = << >> /\ ~ctxDone => \A i \in Slots : results[i] = "ok"

\* "it is nil when all calls succeed", and "every call is attempted and the returned
\* error is the join of all failures" (bulk.go:135-150): what the code does not keep
\* when the caller's context ends, since a skipped call adds nothing to errs.
NilMeansAllRan ==
  caller = "returned" /\ errs = << >> => \A i \in Slots : results[i] = "ok"

\* The batch returns, even when the loopback connection is closed under it or a
\* call of it is the meta-tool again (caller.go:143): nobody waits for a token for ever.
BatchReturns == <>(caller = "returned")

\* Close returns although handlers of the session it waits for are themselves
\* calling through the connection it closes (caller.go:155-169).
CloseEnds == closer = "cancelled" ~> closer = "returned"

\* Either executor implements the abstract batch: a call made is running, a call
\* that the sequential executor left out of its results is skipped.
SlotOf(i) ==
  CASE worker[i] \in {"call", "await"}                     -> "running"
    [] worker[i] \notin {"call", "await"} /\ HasFailed(i)  -> "failed"
    [] results[i] = "ok"                                   -> "ok"
    [] results[i] = "skipped"                              -> "skipped"
    [] OTHER -> IF caller = "returned" THEN "skipped" ELSE "pending"

BatchSpec == INSTANCE Batch WITH
  stops <- ~opts.continue, slot <- [i \in Slots |-> SlotOf(i)], ended <- ctxDone,
  over <- caller = "returned", reported <- caller = "returned" /\ errs # << >>

ImplementsBatch == BatchSpec!Spec
=============================================================================
