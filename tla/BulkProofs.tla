----------------------------- MODULE BulkProofs ------------------------------
(***************************************************************************)
(* Proofs about Bulk, for batches of any size, any limit, any set of calls *)
(* that are the meta-tool again, and both executors.                       *)
(*                                                                         *)
(* The semaphore's count is the number of goroutines that hold a token, so *)
(* it bounds the calls in flight.  The goroutine that cancels the rest     *)
(* holds one of those tokens itself, and from then on no goroutine comes   *)
(* to a call: what may still be sent is what was at its call already.      *)
(***************************************************************************)
EXTENDS Bulk, TLAPS, FiniteSetTheorems

Reported(i) == \E k \in DOMAIN errs : errs[k] = i
SomeFailed == \E i \in Slots : HasFailed(i)

\* The sequential executor is at one call at a time and cancels nothing.
OneAtATime ==
  ~opts.parallel =>
    /\ ~stopped
    /\ \A i \in Slots : worker[i] \in {"wait", "call", "await", "record", "done"}
    /\ \A i, j \in Slots : j < i /\ worker[i] # "wait" => worker[j] = "done"

\* The goroutines between their send on the semaphore and their receive.
Holders == {i \in Slots : worker[i] \notin {"wait", "done"}}

Tokens ==
  opts.parallel => slots = Cardinality(Holders) /\ slots <= Limit

\* Nothing is at work behind a batch that has returned.
NobodyLeft ==
  /\ \A i \in Slots : worker[i] \notin {"wait", "done"} => caller = "running"
  /\ caller = "returned" /\ (opts.parallel \/ errs = << >>) =>
       \A i \in Slots : worker[i] = "done"

\* What a goroutine has stored when.
Stored ==
  \A i \in Slots :
    /\ worker[i] \in {"wait", "check", "call", "await"} => results[i] = "none"
    /\ worker[i] \in {"record", "cancel"} => HasFailed(i)
    /\ worker[i] \in {"release", "done"} => results[i] # "none"
    /\ worker[i] = "cancel" => opts.parallel /\ ~opts.continue /\ errs # << >>
    /\ HasFailed(i) => worker[i] = "record" \/ Reported(i)
    /\ results[i] = "skipped" => ctxDone \/ stopped

ErrsHaveCause == errs # << >> => ctxDone \/ SomeFailed

\* The calls that were made, or will be, after the batch was cancelled.
Calling == {i \in Slots : worker[i] = "call"}

Stopping ==
  /\ stopped => opts.parallel /\ ~opts.continue /\ SomeFailed /\ errs # << >>
  /\ stopped => Cardinality(late \cup Calling) < Limit
  /\ ~stopped => late = {}

IInv ==
  /\ TypeOK
  /\ OneAtATime
  /\ Tokens
  /\ NobodyLeft
  /\ Stored
  /\ ErrsHaveCause
  /\ Stopping

-----------------------------------------------------------------------------
\* There are finitely many calls, and at least one of them may run.
LEMMA SlotsFacts ==
  /\ IsFiniteSet(Slots)
  /\ Slots \subseteq Nat
  /\ \A S \in SUBSET Slots : IsFiniteSet(S) /\ Cardinality(S) \in Nat
<1>1. IsFiniteSet(Slots)
  BY BulkAssumption, FS_Interval DEF Slots
<1>2. Slots \subseteq Nat
  BY BulkAssumption DEF Slots
<1>3. ASSUME NEW S \in SUBSET Slots
      PROVE  IsFiniteSet(S) /\ Cardinality(S) \in Nat
  BY <1>1, <1>3, FS_Subset, FS_CardinalityType
<1> QED
  BY <1>1, <1>2, <1>3

LEMMA LimitPositive == TypeOK => Limit \in Nat /\ Limit > 0
<1> SUFFICES ASSUME TypeOK PROVE Limit \in Nat /\ Limit > 0
  OBVIOUS
<1>1. opts \in [parallel : Modes, max : Limits, continue : BOOLEAN]
  BY DEF TypeOK
<1>2. opts.max \in Limits
  BY <1>1
<1>3. opts.max \in Nat
  BY <1>2, BulkAssumption
<1>4. N \in Nat /\ N > 0
  BY BulkAssumption
<1> QED
  BY <1>3, <1>4 DEF Limit

\* Appending to a list keeps its members and adds one.
LEMMA Appending ==
  ASSUME NEW S, NEW s \in Seq(S), NEW e \in S
  PROVE  /\ Append(s, e) \in Seq(S)
         /\ Append(s, e) # << >>
         /\ \E k \in DOMAIN Append(s, e) : Append(s, e)[k] = e
         /\ \A x : (\E k \in DOMAIN s : s[k] = x) =>
                     \E k \in DOMAIN Append(s, e) : Append(s, e)[k] = x
<1>1. Append(s, e) \in Seq(S) /\ Len(Append(s, e)) = Len(s) + 1 /\ Len(s) \in Nat
  OBVIOUS
<1>2. Append(s, e)[Len(s) + 1] = e /\ Len(s) + 1 \in DOMAIN Append(s, e)
  OBVIOUS
<1>3. \A k \in DOMAIN s : k \in DOMAIN Append(s, e) /\ Append(s, e)[k] = s[k]
  OBVIOUS
<1>4. Append(s, e) # << >>
  BY <1>1
<1> QED
  BY <1>1, <1>2, <1>3, <1>4

\* The bounds a run checks follow from the invariant.
LEMMA InvFanOut == IInv => FanOut
<1> SUFFICES ASSUME IInv PROVE BoundedFanOut /\ StopsPromptly
  BY DEF FanOut
<1> USE DEF IInv
<1>1. InFlight \subseteq Slots /\ Holders \subseteq Slots /\ InFlight \subseteq Holders
  BY DEF InFlight, Holders
<1>2. BoundedFanOut
  <2>1. CASE opts.parallel
    <3>1. Cardinality(InFlight) <= Cardinality(Holders)
      BY <1>1, SlotsFacts, FS_Subset
    <3> QED
      BY <2>1, <3>1, <1>1, SlotsFacts, LimitPositive DEF Tokens, BoundedFanOut
  <2>2. CASE ~opts.parallel
    <3>1. \A i, j \in InFlight : i = j
      BY <2>2, <1>1, SlotsFacts DEF OneAtATime, InFlight
    <3>2. InFlight = {} \/ \E i \in InFlight : InFlight = {i}
      BY <3>1
    <3>3. Cardinality(InFlight) \in {0, 1}
      BY <3>2, FS_EmptySet, FS_Singleton
    <3> QED
      BY <2>2, <3>3 DEF BoundedFanOut
  <2> QED
    BY <2>1, <2>2
<1>3. StopsPromptly
  <2>1. CASE stopped
    <3>1. late \cup Calling \subseteq Slots
      BY DEF TypeOK, Calling
    <3>2. Cardinality(late) <= Cardinality(late \cup Calling)
      BY <3>1, SlotsFacts, FS_Subset
    <3> QED
      BY <2>1, <3>1, <3>2, SlotsFacts, LimitPositive DEF Stopping, StopsPromptly, TypeOK
  <2>2. CASE ~stopped
    BY <2>2, FS_EmptySet, LimitPositive DEF Stopping, StopsPromptly
  <2> QED
    BY <2>1, <2>2
<1> QED
  BY <1>2, <1>3

LEMMA InvErrorTellsFailures == IInv => ErrorTellsFailures
<1> SUFFICES ASSUME IInv, caller = "returned"
             PROVE  /\ \A i \in Slots : HasFailed(i) => Reported(i)
                    /\ errs = << >> /\ ~ctxDone => \A i \in Slots : results[i] = "ok"
  BY DEF ErrorTellsFailures, Reported
<1>1. \A i \in Slots : HasFailed(i) => Reported(i)
  BY DEF IInv, Stored, NobodyLeft
<1>2. ASSUME errs = << >>, ~ctxDone, NEW i \in Slots
      PROVE  results[i] = "ok"
  <2>1. worker[i] = "done" /\ ~stopped
    BY <1>2 DEF IInv, NobodyLeft, Stopping
  <2>2. ~Reported(i)
    BY <1>2 DEF Reported
  <2> QED
    BY <1>1, <1>2, <2>1, <2>2 DEF IInv, Stored, HasFailed, TypeOK
<1> QED
  BY <1>1, <1>2

-----------------------------------------------------------------------------
LEMMA InitIInv == Init => IInv
<1> SUFFICES ASSUME Init PROVE IInv
  OBVIOUS
<1> USE DEF Init
<1>1. TypeOK
  <2>1. errs \in Seq(0 .. N) /\ slots \in Nat /\ late \subseteq Slots
    OBVIOUS
  <2> QED
    BY <2>1 DEF TypeOK
<1>2. OneAtATime /\ NobodyLeft /\ Stored /\ ErrsHaveCause /\ Stopping
  BY DEF OneAtATime, NobodyLeft, Stored, HasFailed, ErrsHaveCause, Stopping
<1>3. Tokens
  <2>1. Holders = {}
    BY DEF Holders
  <2> QED
    BY <1>1, <2>1, FS_EmptySet, LimitPositive DEF Tokens
<1> QED
  BY <1>1, <1>2, <1>3 DEF IInv

-----------------------------------------------------------------------------
(* Steps that leave the batch alone.                                        *)

LEMMA LoopIInv ==
  ASSUME IInv, TypeOK', UNCHANGED <<batchVars, worker, results>>, ctxDone => ctxDone'
  PROVE  IInv'
<1> USE DEF batchVars, IInv
<1>1. Limit' = Limit /\ Holders' = Holders /\ Calling' = Calling
  BY DEF Limit, Holders, Calling
<1>2. SomeFailed' = SomeFailed /\ \A i \in Slots : HasFailed(i)' = HasFailed(i) /\ Reported(i)' = Reported(i)
  BY DEF SomeFailed, HasFailed, Reported
<1>3. OneAtATime' /\ Tokens' /\ NobodyLeft'
  BY <1>1 DEF OneAtATime, Tokens, NobodyLeft
<1>4. Stored' /\ ErrsHaveCause' /\ Stopping'
  BY <1>1, <1>2 DEF Stored, ErrsHaveCause, Stopping
<1> QED
  BY <1>3, <1>4

-----------------------------------------------------------------------------
(* Facts used by several steps.                                             *)

LEMMA SameOutcomes ==
  ASSUME UNCHANGED <<results, errs>>
  PROVE  /\ SomeFailed' = SomeFailed
         /\ \A i \in Slots : HasFailed(i)' = HasFailed(i) /\ Reported(i)' = Reported(i)
  BY DEF SomeFailed, HasFailed, Reported

LEMMA SameLimit == ASSUME UNCHANGED opts PROVE Limit' = Limit
  BY DEF Limit

\* A step that appends to errs.
LEMMA MoreErrs ==
  ASSUME TypeOK, NEW e \in 0 .. N, errs' = Append(errs, e), UNCHANGED results
  PROVE  /\ errs' \in Seq(0 .. N) /\ errs' # << >>
         /\ SomeFailed' = SomeFailed
         /\ \A i \in Slots : HasFailed(i)' = HasFailed(i) /\ (Reported(i) => Reported(i)')
         /\ e \in Slots => Reported(e)'
<1>0. errs \in Seq(0 .. N)
  BY DEF TypeOK
<1>1. /\ Append(errs, e) \in Seq(0 .. N)
      /\ Append(errs, e) # << >>
      /\ \E k \in DOMAIN Append(errs, e) : Append(errs, e)[k] = e
      /\ \A x : (\E k \in DOMAIN errs : errs[k] = x) =>
                  \E k \in DOMAIN Append(errs, e) : Append(errs, e)[k] = x
  BY <1>0, Appending
<1> QED
  BY <1>1 DEF SomeFailed, HasFailed, Reported

\* A goroutine moves on and keeps its token, or moves on without one.
LEMMA SameHolders ==
  ASSUME TypeOK, NEW i \in Slots, NEW x, worker' = [worker EXCEPT ![i] = x],
         worker[i] \in {"wait", "done"} <=> x \in {"wait", "done"}
  PROVE  Holders' = Holders
  BY DEF TypeOK, Holders

\* A goroutine moves on, neither to its call nor from it.
LEMMA SameCalling ==
  ASSUME TypeOK, NEW i \in Slots, NEW x, worker' = [worker EXCEPT ![i] = x],
         worker[i] # "call", x # "call"
  PROVE  Calling' = Calling
  BY DEF TypeOK, Calling

-----------------------------------------------------------------------------
(* The goroutines of callParallel.                                          *)

LEMMA AcquireIInv ==
  ASSUME IInv, NEW i \in Slots, Acquire(i)
  PROVE  IInv'
<1> USE DEF Acquire, IInv, loopVars
<1>1. worker'[i] = "check" /\ \A j \in Slots : j # i => worker'[j] = worker[j]
  BY DEF TypeOK
<1>2. TypeOK'
  BY DEF TypeOK
<1>3. Limit' = Limit /\ Calling' = Calling
  BY SameLimit, SameCalling
<1>4. OneAtATime' /\ NobodyLeft'
  <2>1. caller = "running"
    BY DEF NobodyLeft, TypeOK
  <2> QED
    BY <1>1, <2>1 DEF OneAtATime, NobodyLeft
<1>5. Tokens'
  <2>1. Holders' = Holders \cup {i} /\ i \notin Holders
    BY <1>1 DEF Holders
  <2>2. IsFiniteSet(Holders) /\ Cardinality(Holders) \in Nat
    BY SlotsFacts DEF Holders
  <2>3. Cardinality(Holders') = Cardinality(Holders) + 1
    BY <2>1, <2>2, FS_AddElement
  <2> QED
    BY <1>3, <2>2, <2>3, LimitPositive DEF Tokens
<1>6. Stored' /\ ErrsHaveCause' /\ Stopping'
  BY <1>1, <1>3, SameOutcomes DEF Stored, ErrsHaveCause, Stopping
<1> QED
  BY <1>2, <1>4, <1>5, <1>6

\* Nothing was stored before, and what is stored now is not a failure.
LEMMA Skipped ==
  ASSUME TypeOK, NEW i \in Slots, results[i] = "none", UNCHANGED errs,
         results' = [results EXCEPT ![i] = "skipped"]
  PROVE  /\ SomeFailed' = SomeFailed
         /\ \A j \in Slots : HasFailed(j)' = HasFailed(j) /\ Reported(j)' = Reported(j)
  BY DEF TypeOK, SomeFailed, HasFailed, Reported

LEMMA SkipAtSelectIInv ==
  ASSUME IInv, NEW i \in Slots, SkipAtSelect(i)
  PROVE  IInv'
<1> USE DEF SkipAtSelect, IInv, batchVars, loopVars, ChildDone
<1>1. /\ worker'[i] = "done" /\ results'[i] = "skipped"
      /\ \A j \in Slots : j # i => worker'[j] = worker[j] /\ results'[j] = results[j]
  BY DEF TypeOK
<1>2. TypeOK'
  BY DEF TypeOK
<1>3. Limit' = Limit /\ Calling' = Calling /\ Holders' = Holders
  BY SameLimit, SameCalling, SameHolders
<1>4. results[i] = "none"
  BY DEF Stored
<1>5. OneAtATime' /\ Tokens' /\ NobodyLeft'
  BY <1>1, <1>3 DEF OneAtATime, Tokens, NobodyLeft
<1>6. Stored'
  <2>1. \A j \in Slots : HasFailed(j)' = HasFailed(j) /\ Reported(j)' = Reported(j)
    BY <1>4, Skipped
  <2>2. ~HasFailed(i) /\ (ctxDone \/ stopped)
    BY <1>4 DEF HasFailed
  <2> SUFFICES ASSUME NEW j \in Slots
               PROVE  /\ worker'[j] \in {"wait", "check", "call", "await"} => results'[j] = "none"
                      /\ worker'[j] \in {"record", "cancel"} => HasFailed(j)'
                      /\ worker'[j] \in {"release", "done"} => results'[j] # "none"
                      /\ worker'[j] = "cancel" => opts.parallel /\ ~opts.continue /\ errs # << >>
                      /\ HasFailed(j)' => worker'[j] = "record" \/ Reported(j)'
                      /\ results'[j] = "skipped" => ctxDone \/ stopped
    BY DEF Stored
  <2>3. CASE j = i
    BY <1>1, <2>1, <2>2, <2>3
  <2>4. CASE j # i
    BY <1>1, <2>1, <2>4 DEF Stored
  <2> QED
    BY <2>3, <2>4
<1>7. ErrsHaveCause' /\ Stopping'
  BY <1>3, <1>4, Skipped DEF ErrsHaveCause, Stopping
<1> QED
  BY <1>2, <1>5, <1>6, <1>7

LEMMA CheckContextIInv ==
  ASSUME IInv, NEW i \in Slots, CheckContext(i)
  PROVE  IInv'
<1> USE DEF CheckContext, IInv, batchVars, loopVars, ChildDone
<1>1. opts.parallel /\ results[i] = "none" /\ Limit' = Limit
  BY SameLimit DEF OneAtATime, Stored
<1>2. CASE ChildDone
  <2>1. /\ worker'[i] = "release" /\ results'[i] = "skipped"
        /\ \A j \in Slots : j # i => worker'[j] = worker[j] /\ results'[j] = results[j]
    BY <1>2 DEF TypeOK
  <2>2. TypeOK'
    BY <1>2 DEF TypeOK
  <2>3. Calling' = Calling /\ Holders' = Holders
    BY <1>2, SameCalling, SameHolders
  <2>4. OneAtATime' /\ Tokens' /\ NobodyLeft'
    BY <1>1, <2>1, <2>3 DEF OneAtATime, Tokens, NobodyLeft
  <2>5. Stored' /\ ErrsHaveCause' /\ Stopping'
    BY <1>1, <1>2, <2>1, <2>3, Skipped DEF Stored, ErrsHaveCause, Stopping
  <2> QED
    BY <2>2, <2>4, <2>5
<1>3. CASE ~ChildDone
  <2>1. worker'[i] = "call" /\ \A j \in Slots : j # i => worker'[j] = worker[j]
    BY <1>3 DEF TypeOK
  <2>2. TypeOK'
    BY <1>3 DEF TypeOK
  <2>3. Holders' = Holders
    BY <1>3, SameHolders
  <2>4. OneAtATime' /\ Tokens' /\ NobodyLeft'
    BY <1>1, <2>1, <2>3 DEF OneAtATime, Tokens, NobodyLeft
  <2>5. Stored' /\ ErrsHaveCause' /\ Stopping'
    BY <1>1, <1>3, <2>1, SameOutcomes DEF Stored, ErrsHaveCause, Stopping
  <2> QED
    BY <2>2, <2>4, <2>5
<1> QED
  BY <1>2, <1>3

LEMMA RecordFailureIInv ==
  ASSUME IInv, NEW i \in Slots, RecordFailure(i)
  PROVE  IInv'
<1> USE DEF RecordFailure, IInv, loopVars
<1>1. /\ worker'[i] \in {"release", "cancel"}
      /\ worker'[i] = "cancel" => ~opts.continue
      /\ \A j \in Slots : j # i => worker'[j] = worker[j]
  BY DEF TypeOK
<1>2. i \in 0 .. N
  BY BulkAssumption DEF Slots
<1>3. /\ errs' \in Seq(0 .. N) /\ errs' # << >>
      /\ SomeFailed' = SomeFailed /\ Reported(i)'
      /\ \A j \in Slots : HasFailed(j)' = HasFailed(j) /\ (Reported(j) => Reported(j)')
  BY <1>2, MoreErrs
<1>4. TypeOK'
  BY <1>3 DEF TypeOK
<1>5. Limit' = Limit /\ Calling' = Calling /\ Holders' = Holders
  BY SameLimit, SameCalling, SameHolders
<1>6. HasFailed(i) /\ SomeFailed
  BY DEF Stored, SomeFailed
<1>7. OneAtATime' /\ Tokens' /\ NobodyLeft'
  BY <1>1, <1>5 DEF OneAtATime, Tokens, NobodyLeft
<1>8. Stored'
  <2> SUFFICES ASSUME NEW j \in Slots
               PROVE  /\ worker'[j] \in {"wait", "check", "call", "await"} => results[j] = "none"
                      /\ worker'[j] \in {"record", "cancel"} => HasFailed(j)
                      /\ worker'[j] \in {"release", "done"} => results[j] # "none"
                      /\ worker'[j] = "cancel" => opts.parallel /\ ~opts.continue
                      /\ HasFailed(j) => worker'[j] = "record" \/ Reported(j)'
                      /\ results[j] = "skipped" => ctxDone \/ stopped
    BY <1>3 DEF Stored
  <2>1. CASE j = i
    BY <1>1, <1>3, <1>6, <2>1 DEF Stored, HasFailed
  <2>2. CASE j # i
    BY <1>1, <1>3, <2>2 DEF Stored
  <2> QED
    BY <2>1, <2>2
<1>9. ErrsHaveCause' /\ Stopping'
  BY <1>3, <1>5, <1>6 DEF ErrsHaveCause, Stopping
<1> QED
  BY <1>4, <1>7, <1>8, <1>9

\* The canceller holds a token and is at no call: the calls that may still be made
\* have one of the other tokens each.
LEMMA CancelRestIInv ==
  ASSUME IInv, NEW i \in Slots, CancelRest(i)
  PROVE  IInv'
<1> USE DEF CancelRest, IInv, loopVars
<1>1. worker'[i] = "release" /\ \A j \in Slots : j # i => worker'[j] = worker[j]
  BY DEF TypeOK
<1>2. TypeOK'
  BY DEF TypeOK
<1>3. Limit' = Limit /\ Calling' = Calling /\ Holders' = Holders
  BY SameLimit, SameCalling, SameHolders
<1>4. opts.parallel /\ ~opts.continue /\ errs # << >> /\ HasFailed(i) /\ SomeFailed
  BY DEF Stored, SomeFailed
<1>5. OneAtATime' /\ Tokens' /\ NobodyLeft'
  BY <1>1, <1>3, <1>4 DEF OneAtATime, Tokens, NobodyLeft
<1>6. Stored' /\ ErrsHaveCause'
  BY <1>1, <1>4, SameOutcomes DEF Stored, ErrsHaveCause, HasFailed
<1>7. Cardinality(late \cup Calling) < Limit
  <2>1. CASE stopped
    BY <2>1 DEF Stopping
  <2>2. CASE ~stopped
    <3>1. late \cup Calling = Calling
      BY <2>2 DEF Stopping
    <3>2. Calling \subseteq Holders \ {i} /\ i \in Holders /\ Holders \subseteq Slots
      BY DEF Calling, Holders
    <3>3. IsFiniteSet(Holders) /\ Cardinality(Holders) \in Nat
      BY <3>2, SlotsFacts
    <3>4. /\ IsFiniteSet(Holders \ {i})
          /\ Cardinality(Holders \ {i}) = Cardinality(Holders) - 1
      BY <3>2, <3>3, FS_RemoveElement
    <3>5. Cardinality(Calling) <= Cardinality(Holders \ {i}) /\ IsFiniteSet(Calling)
      BY <3>2, <3>4, FS_Subset
    <3>6. Cardinality(Calling) \in Nat
      BY <3>5, FS_CardinalityType
    <3>7. Cardinality(Holders) <= Limit /\ Limit \in Nat
      BY <1>4, LimitPositive DEF Tokens
    <3>8. Cardinality(Calling) < Limit
      BY ONLY <3>3, <3>4, <3>5, <3>6, <3>7
    <3> QED
      BY <3>1, <3>8
  <2> QED
    BY <2>1, <2>2
<1>8. Stopping'
  BY <1>3, <1>4, <1>7, SameOutcomes DEF Stopping
<1> QED
  BY <1>2, <1>5, <1>6, <1>8

LEMMA ReleaseIInv ==
  ASSUME IInv, NEW i \in Slots, Release(i)
  PROVE  IInv'
<1> USE DEF Release, IInv, loopVars
<1>1. worker'[i] = "done" /\ \A j \in Slots : j # i => worker'[j] = worker[j]
  BY DEF TypeOK
<1>2. opts.parallel
  BY DEF OneAtATime
<1>3. Limit' = Limit /\ Calling' = Calling
  BY SameLimit, SameCalling
<1>4. Tokens' /\ slots' \in Nat
  <2>1. Holders' = Holders \ {i} /\ i \in Holders /\ Holders \subseteq Slots
    BY <1>1 DEF Holders
  <2>2. IsFiniteSet(Holders) /\ Cardinality(Holders) \in Nat
    BY <2>1, SlotsFacts
  <2>3. Cardinality(Holders') = Cardinality(Holders) - 1 /\ Cardinality(Holders') \in Nat
    BY <2>1, <2>2, FS_RemoveElement, FS_CardinalityType
  <2> QED
    BY <1>2, <1>3, <2>2, <2>3, LimitPositive DEF Tokens
<1>5. TypeOK'
  BY <1>4 DEF TypeOK
<1>6. OneAtATime' /\ NobodyLeft'
  BY <1>1, <1>2 DEF OneAtATime, NobodyLeft
<1>7. Stored' /\ ErrsHaveCause' /\ Stopping'
  BY <1>1, <1>3, SameOutcomes DEF Stored, ErrsHaveCause, Stopping
<1> QED
  BY <1>4, <1>5, <1>6, <1>7

\* Both executors return when every call has been made or skipped.
LEMMA ReturnIInv ==
  ASSUME IInv, Return
  PROVE  IInv'
<1> USE DEF Return, ReturnParallel, ReturnSequential, IInv, loopVars
<1>1. TypeOK'
  BY DEF TypeOK
<1>2. Limit' = Limit /\ Calling' = Calling /\ Holders' = Holders
  BY SameLimit DEF Calling, Holders
<1>3. OneAtATime' /\ Tokens' /\ NobodyLeft'
  BY <1>2 DEF OneAtATime, Tokens, NobodyLeft
<1>4. UNCHANGED <<opts, ctxDone, stopped, worker, results, errs, late>>
  OBVIOUS
<1>5. SomeFailed' = SomeFailed /\ \A j \in Slots : HasFailed(j)' = HasFailed(j) /\ Reported(j)' = Reported(j)
  BY <1>4, SameOutcomes
<1>6. Stored'
  BY <1>4, <1>5 DEF Stored
<1>7. ErrsHaveCause' /\ Stopping'
  BY <1>2, <1>4, <1>5 DEF ErrsHaveCause, Stopping
<1> QED
  BY <1>1, <1>3, <1>6, <1>7

-----------------------------------------------------------------------------
(* The loop of callSequential.                                              *)

LEMMA StartNextIInv ==
  ASSUME IInv, NEW i \in Slots, StartNext(i)
  PROVE  IInv'
<1> USE DEF StartNext, At, IInv, batchVars, loopVars
<1>1. worker'[i] = "call" /\ \A j \in Slots : j # i => worker'[j] = worker[j]
  BY DEF TypeOK
<1>2. TypeOK'
  BY DEF TypeOK
<1>3. OneAtATime'
  <2>1. ASSUME NEW k \in Slots, NEW j \in Slots, j < k, worker'[k] # "wait"
        PROVE  worker'[j] = "done"
    <3>1. CASE k = i
      BY <1>1, <2>1, <3>1, BulkAssumption DEF Slots
    <3>2. CASE k # i
      BY <1>1, <2>1, <3>2 DEF OneAtATime
    <3> QED
      BY <3>1, <3>2
  <2> QED
    BY <1>1, <2>1 DEF OneAtATime
<1>4. Tokens' /\ NobodyLeft'
  BY <1>1 DEF Tokens, NobodyLeft
<1>5. Stored' /\ ErrsHaveCause' /\ Stopping'
  BY <1>1, SameOutcomes DEF Stored, ErrsHaveCause, Stopping, OneAtATime
<1> QED
  BY <1>2, <1>3, <1>4, <1>5

\* The calls after the one the loop is at have not begun.
LEMMA Ahead ==
  ASSUME IInv, ~opts.parallel, NEW i \in Slots, worker[i] # "done",
         worker[i] # "wait" \/ \A k \in 1 .. (i - 1) : worker[k] = "done",
         NEW j \in Slots, j # i
  PROVE  worker[j] \in {"wait", "done"}
<1>1. j \in 1 .. (i - 1) \/ i < j
  BY BulkAssumption DEF Slots
<1>2. CASE i < j
  BY <1>2 DEF IInv, OneAtATime
<1>3. CASE j \in 1 .. (i - 1)
  <2>1. j < i
    BY <1>3, SlotsFacts
  <2> QED
    BY <1>3, <2>1 DEF IInv, OneAtATime
<1> QED
  BY <1>1, <1>2, <1>3

LEMMA StopBeforeIInv ==
  ASSUME IInv, NEW i \in Slots, StopBefore(i)
  PROVE  IInv'
<1> USE DEF StopBefore, At, IInv, loopVars
<1>1. 0 \in 0 .. N
  BY BulkAssumption
<1>2. /\ errs' \in Seq(0 .. N) /\ errs' # << >>
      /\ SomeFailed' = SomeFailed
      /\ \A j \in Slots : HasFailed(j)' = HasFailed(j) /\ (Reported(j) => Reported(j)')
  BY <1>1, MoreErrs
<1>3. TypeOK'
  BY <1>2 DEF TypeOK
<1>4. OneAtATime' /\ Tokens'
  BY DEF OneAtATime, Tokens
<1>5. NobodyLeft'
  BY <1>2, Ahead DEF NobodyLeft
<1>6. Stored' /\ ErrsHaveCause' /\ Stopping'
  BY <1>2 DEF Stored, ErrsHaveCause, Stopping, OneAtATime
<1> QED
  BY <1>3, <1>4, <1>5, <1>6

LEMMA RecordInLoopIInv ==
  ASSUME IInv, NEW i \in Slots, RecordInLoop(i)
  PROVE  IInv'
<1> USE DEF RecordInLoop, IInv, loopVars
<1>1. worker'[i] = "done" /\ \A j \in Slots : j # i => worker'[j] = worker[j]
  BY DEF TypeOK
<1>2. i \in 0 .. N
  BY BulkAssumption DEF Slots
<1>3. /\ errs' \in Seq(0 .. N) /\ errs' # << >>
      /\ SomeFailed' = SomeFailed /\ Reported(i)'
      /\ \A j \in Slots : HasFailed(j)' = HasFailed(j) /\ (Reported(j) => Reported(j)')
  BY <1>2, MoreErrs
<1>4. TypeOK'
  BY <1>3 DEF TypeOK
<1>5. HasFailed(i) /\ SomeFailed
  BY DEF Stored, SomeFailed
<1>6. OneAtATime' /\ Tokens'
  BY <1>1 DEF OneAtATime, Tokens
<1>7. NobodyLeft'
  BY <1>1, <1>3, Ahead DEF NobodyLeft
<1>8. Stored'
  BY <1>1, <1>3, <1>5 DEF Stored, HasFailed
<1>9. ErrsHaveCause' /\ Stopping'
  BY <1>3, <1>5 DEF ErrsHaveCause, Stopping, OneAtATime
<1> QED
  BY <1>4, <1>6, <1>7, <1>8, <1>9

-----------------------------------------------------------------------------
(* The exchange of a call.                                                  *)

LEMMA SendCallIInv ==
  ASSUME IInv, NEW i \in Slots, SendCall(i)
  PROVE  IInv'
<1> USE DEF SendCall, IInv, loopVars
<1>1. worker'[i] = "await" /\ \A j \in Slots : j # i => worker'[j] = worker[j]
  BY DEF TypeOK
<1>2. TypeOK'
  <2>1. task' \in [Calls -> {"none", "running", "asking", "replied"}]
    BY DEF TypeOK
  <2>2. late' \subseteq Slots
    BY DEF TypeOK
  <2> QED
    BY <2>1, <2>2 DEF TypeOK
<1>3. Limit' = Limit /\ Holders' = Holders
  BY SameLimit, SameHolders
<1>4. OneAtATime' /\ Tokens' /\ NobodyLeft'
  BY <1>1, <1>3 DEF OneAtATime, Tokens, NobodyLeft
<1>5. Stored' /\ ErrsHaveCause'
  BY <1>1, SameOutcomes DEF Stored, ErrsHaveCause
<1>6. Stopping'
  <2>1. CASE stopped
    <3>1. late' \cup Calling' = late \cup Calling
      BY <1>1, <2>1 DEF Calling
    <3> QED
      BY <1>3, <2>1, <3>1, SameOutcomes DEF Stopping
  <2>2. CASE ~stopped
    BY <2>2 DEF Stopping
  <2> QED
    BY <2>1, <2>2
<1> QED
  BY <1>2, <1>4, <1>5, <1>6

LEMMA StoreIInv ==
  ASSUME IInv, NEW i \in Slots, worker[i] = "await",
         NEW o \in {"ok", "isError", "err"}, Store(i, o)
  PROVE  IInv'
<1> USE DEF Store, IInv, batchVars, loopVars
<1>1. /\ results'[i] = o
      /\ o # "ok" => worker'[i] = "record"
      /\ o = "ok" /\ opts.parallel => worker'[i] = "release"
      /\ o = "ok" /\ ~opts.parallel => worker'[i] = "done"
      /\ \A j \in Slots : j # i => worker'[j] = worker[j] /\ results'[j] = results[j]
  BY DEF TypeOK
<1>2. TypeOK'
  BY DEF TypeOK
<1>3. Limit' = Limit /\ Calling' = Calling
  BY <1>1, SameLimit DEF Calling
<1>4. results[i] = "none" /\ caller = "running"
  BY DEF Stored, NobodyLeft
<1>5. OneAtATime' /\ NobodyLeft'
  BY <1>1, <1>4 DEF OneAtATime, NobodyLeft
<1>6. Tokens'
  <2>1. opts.parallel => Holders' = Holders
    BY <1>1 DEF Holders
  <2> QED
    BY <1>3, <2>1 DEF Tokens
<1>7. /\ \A j \in Slots : j # i => HasFailed(j)' = HasFailed(j) /\ Reported(j)' = Reported(j)
      /\ ~HasFailed(i) /\ (HasFailed(i)' <=> o # "ok")
  BY <1>1, <1>4 DEF HasFailed, Reported
<1>8. SomeFailed => SomeFailed'
  BY <1>7 DEF SomeFailed
<1>9. Stored'
  <2> SUFFICES ASSUME NEW j \in Slots
               PROVE  /\ worker'[j] \in {"wait", "check", "call", "await"} => results'[j] = "none"
                      /\ worker'[j] \in {"record", "cancel"} => HasFailed(j)'
                      /\ worker'[j] \in {"release", "done"} => results'[j] # "none"
                      /\ worker'[j] = "cancel" => opts.parallel /\ ~opts.continue /\ errs # << >>
                      /\ HasFailed(j)' => worker'[j] = "record" \/ Reported(j)'
                      /\ results'[j] = "skipped" => ctxDone \/ stopped
    BY DEF Stored
  <2>1. CASE j = i
    BY <1>1, <1>7, <2>1
  <2>2. CASE j # i
    BY <1>1, <1>7, <2>2 DEF Stored
  <2> QED
    BY <2>1, <2>2
<1>10. ErrsHaveCause' /\ Stopping'
  BY <1>3, <1>8 DEF ErrsHaveCause, Stopping
<1> QED
  BY <1>2, <1>5, <1>6, <1>9, <1>10

\* Handlers, Close and the caller's context do not touch the batch.
LEMMA HandlerIInv ==
  ASSUME IInv, NEW c \in Calls, HandlerStep(c)
  PROVE  IInv'
<1> USE DEF HandlerStep, IInv, loopVars
<1>1. task' \in [Calls -> {"none", "running", "asking", "replied"}]
  <2>1. task \in [Calls -> {"none", "running", "asking", "replied"}]
    BY DEF TypeOK
  <2> QED
    BY <2>1 DEF Handle, StartInner, FinishInner
<1>2. UNCHANGED <<batchVars, ctxDone, worker, results, loopVars>>
  BY DEF Handle, StartInner, FinishInner
<1>3. TypeOK'
  BY <1>1, <1>2 DEF TypeOK, batchVars
<1> QED
  BY <1>2, <1>3, LoopIInv

LEMMA CloseIInv ==
  ASSUME IInv, CloseCancels \/ CloserStep \/ ServeEnds \/ EndContext
  PROVE  IInv'
<1> USE DEF CloseCancels, CloserStep, CloseLoop, ForgetLoop, CloseReturns, CloseStep,
            ServeEnds, EndContext, batchVars, loopVars
<1>1. closer' \in {"idle", "cancelled", "shut", "waiting", "returned"}
  BY DEF IInv, TypeOK
<1>2. serve' \in {"running", "done"}
  BY DEF IInv, TypeOK
<1>5. ctxDone' \in BOOLEAN /\ (ctxDone => ctxDone')
  BY DEF IInv, TypeOK
<1>3. UNCHANGED <<batchVars, worker, results, task>>
  OBVIOUS
<1>4. TypeOK'
  BY <1>1, <1>2, <1>3, <1>5 DEF IInv, TypeOK
<1> QED
  BY <1>3, <1>4, <1>5, LoopIInv

LEMMA NextIInv == IInv /\ [Next]_vars => IInv'
<1> SUFFICES ASSUME IInv, [Next]_vars PROVE IInv'
  OBVIOUS
<1>1. ASSUME NEW i \in Slots, WorkerStep(i)
      PROVE  IInv'
  <2>1. CASE TakeResult(i)
    BY <2>1, StoreIInv DEF TakeResult
  <2>2. CASE TakeError(i)
    BY <2>2, StoreIInv DEF TakeError
  <2> QED
    BY <1>1, <2>1, <2>2, AcquireIInv, SkipAtSelectIInv, CheckContextIInv, RecordFailureIInv,
       CancelRestIInv, ReleaseIInv, StartNextIInv, StopBeforeIInv, RecordInLoopIInv,
       SendCallIInv DEF WorkerStep
<1>2. CASE UNCHANGED vars
  <2>1. TypeOK' /\ UNCHANGED <<batchVars, worker, results>> /\ ctxDone' = ctxDone
    BY <1>2 DEF vars, batchVars, IInv, TypeOK
  <2> QED
    BY <2>1, LoopIInv
<1> QED
  BY <1>1, <1>2, ReturnIInv, HandlerIInv, CloseIInv DEF Next

LEMMA SpecIInv == Spec => []IInv
  BY InitIInv, NextIInv, PTL DEF Spec

\* The variables keep their types: the semaphore never holds less than nothing.
THEOREM TypeCorrect == Spec => []TypeOK
<1>1. IInv => TypeOK
  BY DEF IInv
<1> QED
  BY <1>1, SpecIInv, PTL

\* callParallel never has more than MaxConcurrency calls in flight, and after a failure
\* has cancelled the batch fewer than that are still sent (bulk.go:208-243).
THEOREM FanOutBounded == Spec => []FanOut
  BY InvFanOut, SpecIInv, PTL

\* A failed call is always among the errors that CallToolsBulk returns, and a nil error
\* means that every call succeeded while the caller's context was live
\* (bulk.go:181, 234, 245).
THEOREM FailuresAreReported == Spec => []ErrorTellsFailures
  BY InvErrorTellsFailures, SpecIInv, PTL

-----------------------------------------------------------------------------
(* Both executors implement Batch.                                          *)

\* What a call has come to in the abstract batch, by where its goroutine is.
StatusFits(i) ==
  /\ worker[i] \in {"wait", "check"} =>
       SlotOf(i) = IF caller = "returned" THEN "skipped" ELSE "pending"
  /\ worker[i] \in {"call", "await"} => SlotOf(i) = "running"
  /\ worker[i] \in {"record", "cancel"} => SlotOf(i) = "failed"
  /\ worker[i] \in {"release", "done"} =>
       /\ HasFailed(i) => SlotOf(i) = "failed"
       /\ results[i] = "ok" => SlotOf(i) = "ok"
       /\ results[i] = "skipped" => SlotOf(i) = "skipped"
       /\ HasFailed(i) \/ results[i] \in {"ok", "skipped"}
  /\ HasFailed(i) <=> SlotOf(i) = "failed"

LEMMA SlotFacts == IInv => \A i \in Slots : StatusFits(i)
<1> SUFFICES ASSUME IInv, NEW i \in Slots PROVE StatusFits(i)
  OBVIOUS
<1>1. /\ worker[i] \in {"wait", "check", "call", "await", "record", "cancel", "release", "done"}
      /\ results[i] \in {"none", "ok", "isError", "err", "skipped"}
  BY DEF IInv, TypeOK
<1>2. /\ worker[i] \in {"wait", "check", "call", "await"} => results[i] = "none"
      /\ worker[i] \in {"record", "cancel"} => HasFailed(i)
      /\ worker[i] \in {"release", "done"} => results[i] # "none"
  BY DEF IInv, Stored
<1>3. CASE worker[i] \in {"wait", "check"}
  BY <1>2, <1>3 DEF SlotOf, HasFailed, StatusFits
<1>4. CASE worker[i] \in {"call", "await"}
  BY <1>2, <1>4 DEF SlotOf, HasFailed, StatusFits
<1>5. CASE worker[i] \in {"record", "cancel"}
  BY <1>2, <1>5 DEF SlotOf, HasFailed, StatusFits
<1>6. CASE worker[i] \in {"release", "done"}
  BY <1>1, <1>2, <1>6 DEF SlotOf, HasFailed, StatusFits
<1> QED
  BY <1>1, <1>3, <1>4, <1>5, <1>6

LEMMA SlotFactsNext == IInv' => \A i \in Slots : StatusFits(i)'
<1>1. IInv' => (\A i \in Slots : StatusFits(i))'
  BY SlotFacts, PTL
<1> QED
  BY <1>1

\* The status of a call depends on nothing else.
LEMMA SlotSame ==
  ASSUME UNCHANGED caller, NEW i \in Slots, worker'[i] = worker[i], results'[i] = results[i]
  PROVE  SlotOf(i)' = SlotOf(i)
  BY DEF SlotOf, HasFailed

LEMMA FailedSlots == IInv => (BatchSpec!Failed # {} <=> SomeFailed)
  BY SlotFacts DEF BatchSpec!Failed, SomeFailed, StatusFits

\* Why a call may be left out.
LEMMA ExcuseFacts == IInv => (BatchSpec!Excuse <=> ctxDone \/ (~opts.continue /\ SomeFailed))
  BY FailedSlots DEF BatchSpec!Excuse

LEMMA InitBatch == Init => BatchSpec!Init
<1> SUFFICES ASSUME Init PROVE BatchSpec!Init
  OBVIOUS
<1>1. IInv
  BY InitIInv
<1>2. \A i \in Slots : SlotOf(i) = "pending"
  BY <1>1, SlotFacts DEF Init, StatusFits
<1>3. opts.continue \in BOOLEAN
  BY DEF Init
<1> QED
  BY <1>2, <1>3 DEF Init, BatchSpec!Init

\* A step that changes no call's status and does not return.
LEMMA BatchStutters ==
  ASSUME IInv, UNCHANGED <<opts, ctxDone, caller>>, caller = "returned" => UNCHANGED errs,
         \A i \in Slots : SlotOf(i)' = SlotOf(i)
  PROVE  UNCHANGED BatchSpec!vars
  BY DEF BatchSpec!vars, IInv, TypeOK

\* A step that changes one call's status while the batch runs.
LEMMA BatchMoves ==
  ASSUME UNCHANGED <<opts, ctxDone, caller>>, caller = "running",
         NEW i \in Slots, NEW x, SlotOf(i)' = x,
         \A j \in Slots : j # i => SlotOf(j)' = SlotOf(j)
  PROVE  /\ ~(caller = "returned")
         /\ [j \in Slots |-> SlotOf(j)]' = [[j \in Slots |-> SlotOf(j)] EXCEPT ![i] = x]
         /\ (~opts.continue)' = ~opts.continue
         /\ ctxDone' = ctxDone
         /\ (caller = "returned")' = (caller = "returned")
         /\ (caller = "returned" /\ errs # << >>)' = (caller = "returned" /\ errs # << >>)
  OBVIOUS

\* Which steps these are: a call is made, is left out, or has an outcome.
LEMMA WorkerBatch ==
  ASSUME IInv, IInv', NEW i \in Slots, WorkerStep(i), caller' = "running"
  PROVE  BatchSpec!Next \/ UNCHANGED BatchSpec!vars
<1>1. caller = "running" /\ UNCHANGED <<opts, ctxDone, caller>>
  BY DEF WorkerStep, Acquire, SkipAtSelect, CheckContext, RecordFailure, CancelRest, Release,
         StartNext, StopBefore, RecordInLoop, SendCall, TakeResult, TakeError, Store,
         batchVars, loopVars, IInv, TypeOK
<1>2. \A j \in Slots : j # i => worker'[j] = worker[j] /\ results'[j] = results[j]
  BY DEF WorkerStep, Acquire, SkipAtSelect, CheckContext, RecordFailure, CancelRest, Release,
         StartNext, StopBefore, RecordInLoop, SendCall, TakeResult, TakeError, Store,
         batchVars, loopVars, IInv, TypeOK
<1>3. \A j \in Slots : j # i => SlotOf(j)' = SlotOf(j)
  BY <1>1, <1>2, SlotSame
<1>4. CASE SlotOf(i)' = SlotOf(i)
  BY <1>1, <1>3, <1>4, BatchStutters
<1>5. CASE SlotOf(i) = "pending" /\ SlotOf(i)' = "running"
  <2>1. BatchSpec!Start(i)
    BY <1>1, <1>3, <1>5, BatchMoves DEF BatchSpec!Start
  <2> QED
    BY <2>1 DEF BatchSpec!Next
<1>6. CASE /\ SlotOf(i) = "pending" /\ SlotOf(i)' = "skipped"
           /\ ctxDone \/ (~opts.continue /\ SomeFailed)
  <2>1. BatchSpec!Skip(i)
    BY <1>1, <1>3, <1>6, BatchMoves, ExcuseFacts DEF BatchSpec!Skip
  <2> QED
    BY <2>1 DEF BatchSpec!Next
<1>7. ASSUME SlotOf(i) = "running", NEW o \in {"ok", "failed"}, SlotOf(i)' = o
      PROVE  BatchSpec!Next
  <2>1. BatchSpec!Finish(i, o)
    BY <1>1, <1>3, <1>7, BatchMoves DEF BatchSpec!Finish
  <2> QED
    BY <2>1 DEF BatchSpec!Next
<1>8. \/ SlotOf(i)' = SlotOf(i)
      \/ SlotOf(i) = "pending" /\ SlotOf(i)' = "running"
      \/ /\ SlotOf(i) = "pending" /\ SlotOf(i)' = "skipped"
         /\ ctxDone \/ (~opts.continue /\ SomeFailed)
      \/ SlotOf(i) = "running" /\ SlotOf(i)' \in {"ok", "failed"}
  <2>1. /\ worker'[i] \in {"wait", "check"} => SlotOf(i)' = "pending"
        /\ worker'[i] \in {"call", "await"} => SlotOf(i)' = "running"
        /\ worker'[i] \in {"record", "cancel"} => SlotOf(i)' = "failed"
        /\ worker'[i] \in {"release", "done"} =>
             /\ HasFailed(i)' => SlotOf(i)' = "failed"
             /\ results'[i] = "ok" => SlotOf(i)' = "ok"
             /\ results'[i] = "skipped" => SlotOf(i)' = "skipped"
             /\ HasFailed(i)' \/ results'[i] \in {"ok", "skipped"}
    BY SlotFactsNext DEF StatusFits
  <2>2. /\ worker[i] \in {"wait", "check"} => SlotOf(i) = "pending"
        /\ worker[i] \in {"call", "await"} => SlotOf(i) = "running"
        /\ worker[i] \in {"record", "cancel"} => SlotOf(i) = "failed"
        /\ worker[i] \in {"release", "done"} =>
             /\ HasFailed(i) => SlotOf(i) = "failed"
             /\ results[i] = "ok" => SlotOf(i) = "ok"
             /\ results[i] = "skipped" => SlotOf(i) = "skipped"
             /\ HasFailed(i) \/ results[i] \in {"ok", "skipped"}
    BY <1>1, SlotFacts DEF StatusFits
  <2>3. worker \in [Slots -> {"wait", "check", "call", "await", "record", "cancel",
                              "release", "done"}]
        /\ results \in [Slots -> {"none", "ok", "isError", "err", "skipped"}]
    BY DEF IInv, TypeOK
  <2>4. CASE Acquire(i) \/ StartNext(i) \/ SendCall(i)
    BY <2>1, <2>2, <2>3, <2>4 DEF Acquire, StartNext, At, SendCall
  <2>5. CASE RecordFailure(i) \/ CancelRest(i) \/ Release(i) \/ RecordInLoop(i)
    <3>1. worker[i] \in {"record", "cancel", "release"} /\ worker'[i] \in {"cancel", "release", "done"}
          /\ results' = results /\ (worker[i] = "release" => worker'[i] = "done")
      BY <2>3, <2>5 DEF RecordFailure, CancelRest, Release, RecordInLoop
    <3>2. HasFailed(i)' <=> HasFailed(i)
      BY <3>1 DEF HasFailed
    <3>3. worker[i] \in {"record", "cancel"} => HasFailed(i)
      BY DEF IInv, Stored
    <3>4. CASE HasFailed(i)
      BY <2>1, <2>2, <3>1, <3>2, <3>4
    <3>5. CASE ~HasFailed(i)
      <4>1. worker[i] = "release" /\ worker'[i] = "done" /\ results'[i] = results[i]
        BY <3>1, <3>3, <3>5
      <4> QED
        BY <2>1, <2>2, <3>2, <3>5, <4>1
    <3> QED
      BY <3>4, <3>5
  <2>6. CASE SkipAtSelect(i) \/ (CheckContext(i) /\ ChildDone)
    <3>1. /\ worker[i] \in {"wait", "check"} /\ ChildDone
          /\ worker'[i] \in {"done", "release"} /\ results'[i] = "skipped"
      BY <2>3, <2>6 DEF SkipAtSelect, CheckContext
    <3>2. ctxDone \/ (~opts.continue /\ SomeFailed)
      BY <3>1 DEF ChildDone, IInv, Stopping
    <3> QED
      BY <2>1, <2>2, <3>1, <3>2
  <2>7. CASE CheckContext(i) /\ ~ChildDone
    BY <2>1, <2>2, <2>3, <2>7 DEF CheckContext
  <2>8. CASE TakeResult(i) \/ TakeError(i)
    <3>1. worker[i] = "await"
      BY <2>8 DEF TakeResult, TakeError
    <3>2. PICK o \in {"ok", "isError", "err"} : Store(i, o)
      BY <2>8 DEF TakeResult, TakeError
    <3>3. results'[i] = o /\ worker'[i] \in {"record", "release", "done"}
      BY <2>3, <3>2 DEF Store
    <3>4. HasFailed(i)' <=> o # "ok"
      BY <3>3 DEF HasFailed
    <3>5. worker'[i] = "record" => o # "ok"
      BY <2>3, <3>2 DEF Store
    <3> QED
      BY <2>1, <2>2, <3>1, <3>3, <3>4, <3>5
  <2>9. ~StopBefore(i)
    BY <1>1 DEF StopBefore
  <2> QED
    BY <2>4, <2>5, <2>6, <2>7, <2>8, <2>9 DEF WorkerStep
<1> QED
  BY <1>4, <1>5, <1>6, <1>7, <1>8

\* The batch returns: nothing runs, and what it did not come to it is excused for.
LEMMA ReturnBatch ==
  ASSUME IInv, IInv', caller = "running", caller' = "returned", UNCHANGED <<opts, ctxDone, results>>,
         \A i \in Slots : /\ worker[i] \in {"wait", "record", "done"}
                          /\ worker'[i] \in {"wait", "done"}
                          /\ worker'[i] = "wait" <=> worker[i] = "wait",
         (\E i \in Slots : worker[i] = "wait") => ctxDone \/ (~opts.continue /\ SomeFailed)
  PROVE  BatchSpec!Return
<1>1. \A i \in Slots :
        /\ worker[i] = "wait" => SlotOf(i) = "pending" /\ SlotOf(i)' = "skipped"
        /\ worker[i] # "wait" => SlotOf(i) # "pending" /\ SlotOf(i)' = SlotOf(i)
        /\ SlotOf(i) # "running"
  <2> SUFFICES ASSUME NEW i \in Slots
               PROVE  /\ worker[i] = "wait" => SlotOf(i) = "pending" /\ SlotOf(i)' = "skipped"
                      /\ worker[i] # "wait" => SlotOf(i) # "pending" /\ SlotOf(i)' = SlotOf(i)
                      /\ SlotOf(i) # "running"
    OBVIOUS
  <2>1. HasFailed(i)' <=> HasFailed(i)
    BY DEF HasFailed
  <2>2. worker[i] = "record" => HasFailed(i)
    BY DEF IInv, Stored
  <2>3. /\ worker[i] = "wait" => SlotOf(i) = "pending"
        /\ worker[i] = "record" => SlotOf(i) = "failed"
        /\ worker[i] = "done" =>
             /\ HasFailed(i) => SlotOf(i) = "failed"
             /\ results[i] = "ok" => SlotOf(i) = "ok"
             /\ results[i] = "skipped" => SlotOf(i) = "skipped"
             /\ HasFailed(i) \/ results[i] \in {"ok", "skipped"}
    BY SlotFacts DEF StatusFits
  <2>4. /\ worker'[i] = "wait" => SlotOf(i)' = "skipped"
        /\ worker'[i] = "done" =>
             /\ HasFailed(i)' => SlotOf(i)' = "failed"
             /\ results'[i] = "ok" => SlotOf(i)' = "ok"
             /\ results'[i] = "skipped" => SlotOf(i)' = "skipped"
    BY SlotFactsNext DEF StatusFits
  <2> QED
    BY <2>1, <2>2, <2>3, <2>4
<1>2. [i \in Slots |-> SlotOf(i)]' =
        [i \in Slots |-> IF [j \in Slots |-> SlotOf(j)][i] = "pending"
                         THEN "skipped" ELSE [j \in Slots |-> SlotOf(j)][i]]
  BY <1>1
<1>3. (\E i \in Slots : SlotOf(i) = "pending") => BatchSpec!Excuse
  BY <1>1, ExcuseFacts
<1>4. (\E i \in Slots : HasFailed(i)') <=> SomeFailed
  BY DEF SomeFailed, HasFailed
<1>5. SomeFailed => errs' # << >>
  BY <1>4 DEF IInv, Stored, NobodyLeft, Reported
<1>6. errs' # << >> => SomeFailed \/ ctxDone
  BY <1>4 DEF IInv, ErrsHaveCause, SomeFailed
<1>7. (caller = "returned" /\ errs # << >>)' \in
        {b \in BOOLEAN : (BatchSpec!Failed # {} => b) /\ (b => BatchSpec!Failed # {} \/ ctxDone)}
  BY <1>5, <1>6, FailedSlots
<1> QED
  BY <1>1, <1>2, <1>3, <1>7 DEF BatchSpec!Return

LEMMA NextBatch ==
  ASSUME IInv, IInv', [Next]_vars
  PROVE  BatchSpec!Next \/ UNCHANGED BatchSpec!vars
<1>1. ASSUME NEW i \in Slots, WorkerStep(i)
      PROVE  BatchSpec!Next \/ UNCHANGED BatchSpec!vars
  <2>1. CASE caller' = "running"
    BY <1>1, <2>1, WorkerBatch
  <2>2. CASE StopBefore(i)
    <3>1. /\ ~opts.parallel /\ ctxDone /\ caller = "running" /\ caller' = "returned"
          /\ worker[i] = "wait" /\ UNCHANGED <<opts, ctxDone, worker, results>>
          /\ \A j \in 1 .. (i - 1) : worker[j] = "done"
      BY <2>2 DEF StopBefore, At
    <3>2. \A j \in Slots : worker[j] \in {"wait", "done"}
      BY <3>1, Ahead
    <3>3. BatchSpec!Return
      BY <3>1, <3>2, ReturnBatch
    <3> QED
      BY <3>3 DEF BatchSpec!Next
  <2>3. CASE RecordInLoop(i) /\ caller' = "returned"
    <3>1. /\ ~opts.parallel /\ worker[i] = "record" /\ worker' = [worker EXCEPT ![i] = "done"]
          /\ UNCHANGED <<opts, ctxDone, results>>
      BY <2>3 DEF RecordInLoop
    <3>2. worker \in [Slots -> {"wait", "check", "call", "await", "record", "cancel",
                                "release", "done"}]
      BY DEF IInv, TypeOK
    <3>3. caller = "running" /\ SomeFailed
      BY <3>1 DEF IInv, NobodyLeft, Stored, SomeFailed
    <3>4. ~opts.continue
      BY <2>3, <3>3 DEF RecordInLoop, IInv, TypeOK
    <3>5. \A j \in Slots : j # i => worker[j] \in {"wait", "done"}
      BY <3>1, Ahead
    <3>6. BatchSpec!Return
      BY <2>3, <3>1, <3>2, <3>3, <3>4, <3>5, ReturnBatch
    <3> QED
      BY <3>6 DEF BatchSpec!Next
  <2>4. caller' \in {"running", "returned"}
    BY DEF IInv, TypeOK
  <2>5. CASE caller = "returned"
    <3>1. worker[i] \in {"wait", "done"} /\ (opts.parallel => worker[i] = "done")
      BY <2>5 DEF IInv, NobodyLeft
    <3> QED
      BY <1>1, <2>5, <3>1
         DEF WorkerStep, Acquire, SkipAtSelect, CheckContext, RecordFailure, CancelRest, Release,
             StartNext, StopBefore, RecordInLoop, SendCall, TakeResult, TakeError, At
  <2>6. CASE caller = "running" /\ caller' = "returned"
    BY <1>1, <2>2, <2>3, <2>6
       DEF WorkerStep, Acquire, SkipAtSelect, CheckContext, RecordFailure, CancelRest, Release,
           StartNext, SendCall, TakeResult, TakeError, Store, batchVars
  <2>7. caller \in {"running", "returned"}
    BY DEF IInv, TypeOK
  <2> QED
    BY <2>1, <2>4, <2>5, <2>6, <2>7
<1>2. CASE Return
  <2>1. /\ caller = "running" /\ caller' = "returned"
        /\ \A i \in Slots : worker[i] = "done"
        /\ UNCHANGED <<opts, ctxDone, worker, results>>
    BY <1>2 DEF Return, ReturnParallel, ReturnSequential
  <2>2. BatchSpec!Return
    BY <2>1, ReturnBatch
  <2> QED
    BY <2>2 DEF BatchSpec!Next
<1>3. ASSUME NEW c \in Calls, HandlerStep(c)
      PROVE  UNCHANGED BatchSpec!vars
  <2>1. UNCHANGED <<opts, ctxDone, caller, errs, worker, results>>
    BY <1>3 DEF HandlerStep, Handle, StartInner, FinishInner, batchVars
  <2> QED
    BY <2>1, SlotSame, BatchStutters
<1>4. CASE CloseCancels \/ CloserStep \/ ServeEnds
  <2>1. UNCHANGED <<opts, ctxDone, caller, errs, worker, results>>
    BY <1>4 DEF CloseCancels, CloserStep, CloseLoop, ForgetLoop, CloseReturns, CloseStep,
                ServeEnds, batchVars
  <2> QED
    BY <2>1, SlotSame, BatchStutters
<1>5. CASE EndContext
  <2>1. UNCHANGED <<opts, caller, errs, worker, results>> /\ ctxDone' = TRUE
    BY <1>5 DEF EndContext, batchVars
  <2>2. \A i \in Slots : SlotOf(i)' = SlotOf(i)
    BY <2>1, SlotSame
  <2>3. BatchSpec!End
    BY <2>1, <2>2 DEF BatchSpec!End
  <2> QED
    BY <2>3 DEF BatchSpec!Next
<1>6. CASE UNCHANGED vars
  <2>1. UNCHANGED <<opts, ctxDone, caller, errs, worker, results>>
    BY <1>6 DEF vars
  <2> QED
    BY <2>1, SlotSame, BatchStutters
<1> QED
  BY <1>1, <1>2, <1>3, <1>4, <1>5, <1>6 DEF Next

\* CallToolsBulk keeps the contract of Batch whichever executor runs it: a call is left
\* out only when another one failed and the batch stops on errors or the caller's
\* context ended, and every failure is reported (bulk.go:133-152, 163-247).
THEOREM BatchImplemented == Spec => ImplementsBatch
<1>1. IInv /\ IInv' /\ [Next]_vars => [BatchSpec!Next]_BatchSpec!vars
  BY NextBatch
<1> QED
  BY <1>1, InitBatch, SpecIInv, PTL DEF Spec, ImplementsBatch, BatchSpec!Spec
=============================================================================
