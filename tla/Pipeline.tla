------------------------------ MODULE Pipeline -------------------------------
(***************************************************************************)
(* What a request passes through when a server is driven by a              *)
(* middleware.Dispatcher (middleware/middleware.go), and the client that   *)
(* repeats it: contrib.Retry (contrib/helpers.go).                         *)
(*                                                                         *)
(* Processes.  Each caller runs one Retry; each note is one notification.  *)
(* A request runs down the chain and its response back up on one goroutine;*)
(* the chain's shared state is the bucket of RateLimit and the counters of *)
(* Metrics, each behind a mutex of its own.  Requests have one method, so  *)
(* one bucket and one set of counters: those of other keys do not interact.*)
(*                                                                         *)
(* Recovery and ErrorHandling have their default settings (a message that  *)
(* is not empty, no MaskAll, no IncludeError).  Logging and Timing change  *)
(* nothing that a response depends on: they are one kind, "observe".       *)
(***************************************************************************)
EXTENDS Integers, Sequences, FiniteSets

CONSTANTS
  Callers,      \* goroutines that call Retry
  Notes,        \* notifications
  Chains,       \* the chains to consider, each a sequence of Kinds, outermost first
  Outcomes,     \* what the terminal handler may do
  Capacity,     \* RateLimit's capacity, in units of 1/TokenUnit of a token
  TokenUnit,    \* what a request takes
  Refill,       \* what a tick of the clock brings
  MaxAttempts,  \* RetryPolicy
  BaseDelay, MaxDelay, Multiplier,
  Retryable,    \* RetryIf: the failures that are tried again
  MaxTime       \* bound: how far the clock goes

Kinds    == {"recovery", "errors", "metrics", "limit", "observe"}
Failures == {"limited", "invalid", "internal", "masked", "lost"}

ASSUME PipelineAssumption ==
  /\ Callers \cap Notes = {}
  /\ Chains \subseteq Seq(Kinds)
  /\ \A ch \in Chains : \A i, j \in DOMAIN ch : ch[i] = ch[j] => i = j
  /\ Outcomes \subseteq {"ok", "invalid", "internal", "panic"}
  /\ Capacity \in Nat /\ TokenUnit \in Nat /\ Refill \in Nat
  /\ Capacity >= TokenUnit
  /\ MaxAttempts \in Nat /\ MaxAttempts >= 1
  /\ BaseDelay \in Nat /\ MaxDelay \in Nat /\ Multiplier \in Nat
  /\ Retryable \subseteq Failures
  /\ MaxTime \in Nat

Requests  == Callers \cup Notes
Responses == {"none", "nil", "ok", "panic"} \cup Failures

VARIABLES
  chain,     \* the chain
  now,       \* the clock
  bucket,    \* RateLimit's bucket: tokens and the time of the last refill
  stats,     \* Metrics' counters
  at,        \* where each request is: 0 outside, i at middleware i, Len + 1 the terminal
  way,       \* "down", "take" (the clock was read, the lock not taken), "up"
  read,      \* the clock RateLimit read for the request
  resp,      \* the response on its way up
  crashed,   \* a panic left the chain: the process is gone
  call,      \* each Retry: "call", "wait" (for the response), "sleep", "done"
  attempt,   \* which attempt it is at
  delay,     \* the next delay
  result,    \* what Retry (or, for a note, the chain) returned
  taken,     \* history: tokens taken
  first,     \* history: the time at which the bucket began
  served,    \* history: how often the terminal handler ran for each request
  answered   \* history: the responses that left the chain

chainVars == <<bucket, stats, at, way, read, resp, taken, first, served>>
retryVars == <<call, attempt, delay, result>>
vars == <<chain, now, chainVars, crashed, retryVars, answered>>

Last == Len(chain)
NoBucket == [tokens |-> 0, last |-> -1]

Init ==
  /\ chain \in Chains
  /\ now = 0
  /\ bucket = NoBucket
  /\ stats = [success |-> 0, errors |-> 0]
  /\ at = [r \in Requests |-> 0]
  /\ way = [r \in Requests |-> "down"]
  /\ read = [r \in Requests |-> 0]
  /\ resp = [r \in Requests |-> "none"]
  /\ crashed = FALSE
  /\ call = [r \in Requests |-> "call"]
  /\ attempt = [c \in Callers |-> 1]
  /\ delay = [c \in Callers |-> BaseDelay]
  /\ result = [r \in Requests |-> "none"]
  /\ taken = 0
  /\ first = 0
  /\ served = [r \in Requests |-> 0]
  /\ answered = [success |-> 0, errors |-> 0]

IsNotification(r) == r \in Notes
Down(r, kind) == at[r] \in 1 .. Last /\ way[r] = "down" /\ chain[at[r]] = kind
Up(r, kind)   == at[r] \in 1 .. Last /\ way[r] = "up" /\ chain[at[r]] = kind

\* errorResponse: a notification gets none
ErrorResponse(r, error) == IF IsNotification(r) THEN "nil" ELSE error
IsError(response) == response \in Failures

-----------------------------------------------------------------------------
(* Down the chain: next(mc).                                                *)

Next1(r) == at' = [at EXCEPT ![r] = @ + 1]

\* The middlewares that do nothing before next, and notifications at RateLimit.
PassDown(r) ==
  /\ ~crashed
  /\ \/ \E kind \in {"recovery", "errors", "metrics", "observe"} : Down(r, kind)
     \/ Down(r, "limit") /\ IsNotification(r)
  /\ Next1(r)
  /\ UNCHANGED <<chain, now, bucket, stats, way, read, resp, taken, first, served, crashed,
                 retryVars, answered>>

\* allow: now := r.now(), before the lock
ReadClock(r) ==
  /\ ~crashed
  /\ Down(r, "limit") /\ ~IsNotification(r)
  /\ read' = [read EXCEPT ![r] = now]
  /\ way' = [way EXCEPT ![r] = "take"]
  /\ UNCHANGED <<chain, now, bucket, stats, at, resp, taken, first, served, crashed,
                 retryVars, answered>>

Lesser(a, b) == IF a < b THEN a ELSE b

RefilledBack(t) ==                     \* mutant of Refilled: last set back
  IF bucket = NoBucket THEN [tokens |-> Capacity, last |-> t]
  ELSE [tokens |-> IF t > bucket.last
                   THEN Lesser(Capacity, bucket.tokens + (t - bucket.last) * Refill)
                   ELSE bucket.tokens,
        last   |-> t]

\* The bucket as a request with clock reading t finds it.
Refilled(t) ==
  IF bucket = NoBucket THEN [tokens |-> Capacity, last |-> t]
  ELSE IF t > bucket.last
  THEN [tokens |-> Lesser(Capacity, bucket.tokens + (t - bucket.last) * Refill), last |-> t]
  ELSE bucket

\* allow, with the lock held, and what OnRequest makes of it
TakeToken(r) ==
  /\ ~crashed
  /\ at[r] # 0 /\ way[r] = "take"
  /\ LET b == Refilled(read[r])
     IN IF b.tokens >= TokenUnit
        THEN /\ bucket' = [b EXCEPT !.tokens = @ - TokenUnit]
             /\ taken' = taken + 1
             /\ Next1(r)
             /\ way' = [way EXCEPT ![r] = "down"]
             /\ UNCHANGED resp
        ELSE /\ bucket' = b
             /\ resp' = [resp EXCEPT ![r] = ErrorResponse(r, "limited")]
             /\ way' = [way EXCEPT ![r] = "up"]
             /\ at' = [at EXCEPT ![r] = @ - 1]
             /\ UNCHANGED taken
  /\ first' = IF bucket = NoBucket THEN read[r] ELSE first
  /\ UNCHANGED <<chain, now, stats, read, served, crashed, retryVars, answered>>

\* The terminal: Server.Dispatch.  Nothing in it recovers a handler's panic.
Serve(r) ==
  /\ ~crashed
  /\ at[r] = Last + 1 /\ way[r] = "down"
  /\ \E o \in Outcomes :
       resp' = [resp EXCEPT ![r] = IF o # "panic" /\ IsNotification(r) THEN "nil" ELSE o]
  /\ served' = [served EXCEPT ![r] = @ + 1]
  /\ way' = [way EXCEPT ![r] = "up"]
  /\ at' = [at EXCEPT ![r] = @ - 1]
  /\ UNCHANGED <<chain, now, bucket, stats, read, taken, first, crashed, retryVars, answered>>

-----------------------------------------------------------------------------
(* Up the chain.  A panic passes a middleware that does not recover, and    *)
(* none of what that middleware does after next happens.                    *)

Prev(r) == at' = [at EXCEPT ![r] = @ - 1]

PassUp(r) ==
  /\ ~crashed
  /\ \/ Up(r, "limit") \/ Up(r, "observe")
     \/ Up(r, "metrics") /\ resp[r] = "panic"
  /\ Prev(r)
  /\ UNCHANGED <<chain, now, bucket, stats, way, read, resp, taken, first, served, crashed,
                 retryVars, answered>>

CountAll(r) ==                          \* mutant of Count: an error response is a success too
  /\ ~crashed
  /\ Up(r, "metrics") /\ resp[r] # "panic"
  /\ stats' = [stats EXCEPT !.success = @ + 1,
                            !.errors = IF IsError(resp[r]) THEN @ + 1 ELSE @]
  /\ Prev(r)
  /\ UNCHANGED <<chain, now, bucket, way, read, resp, taken, first, served, crashed,
                 retryVars, answered>>

\* Metrics.OnRequest after next
Count(r) ==
  /\ ~crashed
  /\ Up(r, "metrics") /\ resp[r] # "panic"
  /\ stats' = IF IsError(resp[r]) THEN [stats EXCEPT !.errors = @ + 1]
                                  ELSE [stats EXCEPT !.success = @ + 1]
  /\ Prev(r)
  /\ UNCHANGED <<chain, now, bucket, way, read, resp, taken, first, served, crashed,
                 retryVars, answered>>

MaskPanics(r) == IF resp[r] = "panic" THEN ErrorResponse(r, "masked")   \* mutant of Masked
                 ELSE resp[r]

\* ErrorHandling.OnRequest: panics and internal errors are masked
Masked(r) == IF resp[r] \in {"panic", "internal"} THEN ErrorResponse(r, "masked")
             ELSE resp[r]

\* Recovery.OnRequest: a panic becomes an internal error with a fixed message
Recovered(r) == IF resp[r] = "panic" THEN ErrorResponse(r, "masked") ELSE resp[r]

Convert(r) ==
  /\ ~crashed
  /\ \/ Up(r, "errors")   /\ resp' = [resp EXCEPT ![r] = Masked(r)]
     \/ Up(r, "recovery") /\ resp' = [resp EXCEPT ![r] = Recovered(r)]
  /\ Prev(r)
  /\ UNCHANGED <<chain, now, bucket, stats, way, read, taken, first, served, crashed,
                 retryVars, answered>>

-----------------------------------------------------------------------------
(* The driver: one request enters the chain, and its response leaves it.    *)

Enter(r) ==
  /\ ~crashed
  /\ call[r] = "call"
  /\ at' = [at EXCEPT ![r] = 1]
  /\ way' = [way EXCEPT ![r] = "down"]
  /\ resp' = [resp EXCEPT ![r] = "none"]
  /\ call' = [call EXCEPT ![r] = "wait"]
  /\ UNCHANGED <<chain, now, bucket, stats, read, taken, first, served, crashed,
                 attempt, delay, result, answered>>

\* An unrecovered panic ends the process.
Crash(r) ==
  /\ ~crashed
  /\ at[r] = 0 /\ way[r] = "up" /\ call[r] = "wait" /\ resp[r] = "panic"
  /\ crashed' = TRUE
  /\ UNCHANGED <<chain, now, chainVars, retryVars, answered>>

Leaving(r) ==
  /\ ~crashed
  /\ at[r] = 0 /\ way[r] = "up" /\ call[r] = "wait" /\ resp[r] # "panic"
  /\ answered' = IF IsError(resp[r]) THEN [answered EXCEPT !.errors = @ + 1]
                                     ELSE [answered EXCEPT !.success = @ + 1]
  /\ UNCHANGED <<chain, now, chainVars, crashed>>

-----------------------------------------------------------------------------
(* Retry.                                                                   *)

\* A policy without a multiplier doubles.
mult == IF Multiplier = 0 THEN 2 ELSE Multiplier

GrownFreely(d) == d * mult               \* mutant of Grown: not capped

Grown(d) ==
  LET longer == d * mult
  IN IF d > 0 /\ MaxDelay > 0 /\ longer > MaxDelay THEN MaxDelay ELSE longer

\* The call failed: give up, or sleep before the next attempt.
Failed(c, failure) ==
  IF attempt[c] = MaxAttempts \/ failure \notin Retryable
  THEN /\ call' = [call EXCEPT ![c] = "done"]
       /\ result' = [result EXCEPT ![c] = failure]
  ELSE /\ call' = [call EXCEPT ![c] = "sleep"]
       /\ UNCHANGED result

\* A note's sender does not look at what comes back; a caller takes the result, or
\* an error: the server's, or one of its transport after the server has answered.
Deliver(r) ==
  /\ Leaving(r)
  /\ IF r \in Notes \/ resp[r] = "ok"
     THEN /\ call' = [call EXCEPT ![r] = "done"]
          /\ result' = [result EXCEPT ![r] = resp[r]]
     ELSE Failed(r, resp[r])
  /\ UNCHANGED <<attempt, delay>>

DeliverLost(c) ==
  /\ c \in Callers
  /\ Leaving(c)
  /\ Failed(c, "lost")
  /\ UNCHANGED <<attempt, delay>>

\* sleep returns: the timer has fired
Wake(c) ==
  /\ ~crashed
  /\ call[c] = "sleep"
  /\ call' = [call EXCEPT ![c] = "call"]
  /\ attempt' = [attempt EXCEPT ![c] = @ + 1]
  /\ delay' = [delay EXCEPT ![c] = Grown(@)]
  /\ UNCHANGED <<chain, now, chainVars, crashed, result, answered>>

\* sleep returns: the caller's context has ended, now or at any time before
WakeCancelled(c) ==
  /\ ~crashed
  /\ call[c] = "sleep"
  /\ call' = [call EXCEPT ![c] = "done"]
  /\ result' = [result EXCEPT ![c] = "cancelled"]
  /\ UNCHANGED <<chain, now, chainVars, crashed, attempt, delay, answered>>

Tick ==
  /\ ~crashed
  /\ now < MaxTime
  /\ now' = now + 1
  /\ UNCHANGED <<chain, chainVars, crashed, retryVars, answered>>

-----------------------------------------------------------------------------
ChainStep(r) ==
  \/ Enter(r) \/ PassDown(r) \/ ReadClock(r) \/ TakeToken(r) \/ Serve(r)
  \/ PassUp(r) \/ Count(r) \/ Convert(r) \/ Crash(r) \/ Deliver(r) \/ DeliverLost(r)

RetryStep(c) == Wake(c) \/ WakeCancelled(c)

Next ==
  \/ \E r \in Requests : ChainStep(r)
  \/ \E c \in Callers : RetryStep(c)
  \/ Tick

Spec == Init /\ [][Next]_vars

-----------------------------------------------------------------------------
TypeOK ==
  /\ chain \in Chains
  /\ now \in 0 .. MaxTime
  /\ bucket \in [tokens : Nat, last : -1 .. MaxTime]
  /\ stats \in [success : Nat, errors : Nat]
  /\ at \in [Requests -> Nat]
  /\ way \in [Requests -> {"down", "take", "up"}]
  /\ read \in [Requests -> 0 .. MaxTime]
  /\ resp \in [Requests -> Responses]
  /\ crashed \in BOOLEAN
  /\ call \in [Requests -> {"call", "wait", "sleep", "done"}]
  /\ attempt \in [Callers -> 1 .. MaxAttempts]
  /\ delay \in [Callers -> Nat]
  /\ result \in [Requests -> Responses \cup {"cancelled"}]
  /\ taken \in Nat
  /\ first \in 0 .. MaxTime
  /\ served \in [Requests -> Nat]
  /\ answered \in [success : Nat, errors : Nat]

\* The tokens given out never exceed what the bucket began with and the clock has
\* brought since, although requests come to it out of the order of their readings
\* (ratelimit.go:105): no stretch of time is credited twice.
RateBound ==
  bucket # NoBucket =>
    /\ bucket.tokens <= Capacity
    /\ taken * TokenUnit + bucket.tokens <= Capacity + (now - first) * Refill

Has(kind) == \E i \in 1 .. Last : chain[i] = kind
Outermost(kind) == Last > 0 /\ chain[1] = kind

\* With ErrorHandling anywhere in the chain no panic and no internal message leaves
\* it, with Recovery no panic does, and a notification is never answered, whatever
\* the order of the chain (errorhandling.go:31-101).
NothingEscapes ==
  \A r \in Requests : at[r] = 0 /\ way[r] = "up" =>
    /\ Has("errors") => resp[r] \notin {"panic", "internal"}
    /\ Has("recovery") => resp[r] # "panic"
    /\ r \in Notes => resp[r] \in {"nil", "panic"}

\* Between requests the counters of Metrics are never more than what was answered,
\* and exactly that when Metrics is outermost (metrics.go:43): inside Recovery or
\* RateLimit it does not see what those answer.
Quiet == ~crashed /\ \A r \in Requests : call[r] # "wait"

CountsMatchAnswers ==
  Quiet =>
    /\ stats.success <= answered.success
    /\ stats.errors <= answered.errors
    /\ Outermost("metrics") /\ (Has("recovery") \/ Has("errors")) => stats = answered

\* Retry keeps to its policy although a call that failed for the client may have
\* run (helpers.go:58): the tool is run at most once per attempt, a result is
\* returned only for a run, it gives up early only on what is not to be retried,
\* and once a delay has grown it is capped.
Max2(a, b) == IF a < b THEN b ELSE a

RetryKeepsPolicy ==
  \A c \in Callers :
    /\ served[c] <= attempt[c]
    /\ result[c] = "ok" => served[c] >= 1
    /\ result[c] \in Retryable => attempt[c] = MaxAttempts
    /\ MaxDelay > 0 => delay[c] <= Max2(BaseDelay, MaxDelay)
=============================================================================
