--------------------------- MODULE PipelineProofs ----------------------------
(***************************************************************************)
(* Proofs about Pipeline, for any set of chains, any number of callers and *)
(* notes, any bucket, any retry policy and any bound on the clock.         *)
(*                                                                         *)
(* The invariant has one part for each piece of state that several         *)
(* requests or several steps share: Credited for the bucket, Passed for a  *)
(* response on its way up, Attempts for a Retry and its request.           *)
(***************************************************************************)
EXTENDS Pipeline, FiniteSetTheorems, TLAPS

\* A request stands in the chain or just behind it, and outside it unless its
\* sender waits.
Places ==
  \A r \in Requests :
    /\ at[r] \in 0 .. Last + 1
    /\ call[r] # "wait" => at[r] = 0
    /\ way[r] = "take" => at[r] \in 1 .. Last
    /\ way[r] = "up" => at[r] <= Last

\* The bucket is older than no reading; every stretch of time since it began is
\* credited once.
Credited ==
  /\ \A r \in Requests : read[r] <= now
  /\ bucket = NoBucket => taken = 0
  /\ bucket # NoBucket =>
       /\ first <= bucket.last /\ bucket.last <= now
       /\ bucket.tokens <= Capacity
       /\ taken * TokenUnit + bucket.tokens <= Capacity + (bucket.last - first) * Refill

\* A response that is past a middleware is as that middleware leaves it.
Passed ==
  \A r \in Requests : way[r] = "up" =>
    /\ \A j \in 1 .. Last : j > at[r] =>
         /\ chain[j] = "errors" => resp[r] \notin {"panic", "internal"}
         /\ chain[j] = "recovery" => resp[r] # "panic"
    /\ r \in Notes => resp[r] \in {"nil", "panic"}

\* An attempt reaches the terminal at most once, and on its way down it has not.
Attempts ==
  \A c \in Callers :
    /\ served[c] <= attempt[c]
    /\ call[c] = "call" \/ (call[c] = "wait" /\ way[c] # "up") => served[c] < attempt[c]
    /\ way[c] = "up" /\ resp[c] = "ok" => served[c] >= 1
    /\ call[c] = "sleep" => attempt[c] # MaxAttempts
    /\ call[c] # "done" => result[c] = "none"
    /\ result[c] = "ok" => served[c] >= 1
    /\ result[c] \in Retryable => attempt[c] = MaxAttempts

DelayCapped == \A c \in Callers : MaxDelay > 0 => delay[c] <= Max2(BaseDelay, MaxDelay)

IInv == TypeOK /\ Places /\ Credited /\ Passed /\ Attempts /\ DelayCapped

-----------------------------------------------------------------------------
(* Arithmetic of the bucket: TokenUnit and Refill are constants, so a       *)
(* product moves by a whole number of them.                                 *)

LEMMA OneMore ==
  ASSUME NEW n \in Nat, NEW u \in Nat
  PROVE  n * u \in Nat /\ (n + 1) * u = n * u + u
  OBVIOUS

LEMMA Longer ==
  ASSUME NEW a \in Int, NEW b \in Int, NEW c \in Int, NEW u \in Nat, a <= b
  PROVE  /\ (a - c) * u \in Int /\ (b - c) * u \in Int
         /\ (b - c) * u = (a - c) * u + (b - a) * u
         /\ (b - a) * u \in Nat
  OBVIOUS

LEMMA LastType == TypeOK => Last \in Nat
  BY PipelineAssumption DEF TypeOK, Last

\* What the refilled bucket holds was in it or came with the clock.
LEMMA RefillCredits ==
  ASSUME TypeOK, Credited, NEW t \in 0 .. MaxTime, t <= now
  PROVE  LET b == Refilled(t)
             f == IF bucket = NoBucket THEN t ELSE first
         IN /\ b \in [tokens : Nat, last : 0 .. MaxTime]
            /\ f \in 0 .. MaxTime /\ f <= b.last /\ b.last <= now
            /\ b.tokens <= Capacity
            /\ taken * TokenUnit + b.tokens <= Capacity + (b.last - f) * Refill
<1> DEFINE b == Refilled(t)
           f == IF bucket = NoBucket THEN t ELSE first
<1> USE PipelineAssumption
<1>0. /\ now \in 0 .. MaxTime /\ taken \in Nat /\ first \in 0 .. MaxTime
      /\ bucket \in [tokens : Nat, last : -1 .. MaxTime]
  BY DEF TypeOK
<1>1. CASE bucket = NoBucket
  <2>1. b = [tokens |-> Capacity, last |-> t] /\ f = t /\ taken = 0
    BY <1>1 DEF Refilled, Credited
  <2>2. b \in [tokens : Nat, last : 0 .. MaxTime]
    BY <2>1
  <2>3. taken * TokenUnit = 0 /\ (t - t) * Refill = 0
    BY <2>1
  <2> QED
    BY <2>1, <2>2, <2>3
<1>2. CASE bucket # NoBucket /\ t > bucket.last
  <2> DEFINE more == (t - bucket.last) * Refill
  <2>1. /\ first <= bucket.last /\ bucket.tokens <= Capacity
        /\ taken * TokenUnit + bucket.tokens <= Capacity + (bucket.last - first) * Refill
    BY <1>2 DEF Credited
  <2>2. /\ b = [tokens |-> Lesser(Capacity, bucket.tokens + more), last |-> t] /\ f = first
    BY <1>2 DEF Refilled
  <2>3. /\ (t - first) * Refill = (bucket.last - first) * Refill + more /\ more \in Nat
        /\ (bucket.last - first) * Refill \in Int
    BY <1>0, <1>2, Longer
  <2>4. /\ b.tokens <= Capacity /\ b.tokens <= bucket.tokens + more /\ b.tokens \in Nat
        /\ b.last = t
    <3>1. b.last = t /\ b.tokens = Lesser(Capacity, bucket.tokens + more)
      BY <2>2
    <3>2. more \in Nat /\ bucket.tokens \in Nat /\ Capacity \in Nat
      BY <1>0, <2>3
    <3> HIDE DEF more, b
    <3> QED
      BY <3>1, <3>2 DEF Lesser
  <2>5. b \in [tokens : Nat, last : 0 .. MaxTime]
    BY <2>2, <2>4
  <2>6. taken * TokenUnit \in Nat
    BY <1>0
  <2>7. taken * TokenUnit + b.tokens <= Capacity + (t - first) * Refill
    <3> DEFINE was == taken * TokenUnit
               due == (bucket.last - first) * Refill
               owed == (t - first) * Refill
    <3>1. /\ was + bucket.tokens <= Capacity + due /\ owed = due + more
          /\ b.tokens <= bucket.tokens + more /\ b.tokens \in Nat /\ bucket.tokens \in Nat
          /\ was \in Nat /\ due \in Int /\ more \in Nat /\ Capacity \in Nat
      BY <1>0, <2>1, <2>3, <2>4, <2>6
    <3> HIDE DEF b, more, was, due, owed
    <3>2. was + b.tokens <= Capacity + owed
      BY <3>1
    <3> QED
      BY <3>2 DEF was, owed
  <2> QED
    BY <1>0, <1>2, <2>1, <2>2, <2>4, <2>5, <2>7
<1>3. CASE bucket # NoBucket /\ ~(t > bucket.last)
  <2>1. b = bucket /\ f = first
    BY <1>3 DEF Refilled
  <2>2. /\ first <= bucket.last /\ bucket.last <= now /\ bucket.tokens <= Capacity
        /\ taken * TokenUnit + bucket.tokens <= Capacity + (bucket.last - first) * Refill
    BY <1>3 DEF Credited
  <2>3. b \in [tokens : Nat, last : 0 .. MaxTime]
    BY <1>0, <2>1, <2>2
  <2> QED
    BY <1>0, <2>1, <2>2, <2>3
<1> QED
  BY <1>1, <1>2, <1>3

-----------------------------------------------------------------------------
\* The initial state satisfies the invariant: nothing has entered the chain.
LEMMA InitIInv == Init => IInv
<1> SUFFICES ASSUME Init PROVE IInv
  OBVIOUS
<1> USE PipelineAssumption DEF Init
<1>1. TypeOK
  <2>1. /\ bucket \in [tokens : Nat, last : -1 .. MaxTime]
        /\ stats \in [success : Nat, errors : Nat]
        /\ answered \in [success : Nat, errors : Nat]
    BY DEF NoBucket
  <2>2. /\ resp \in [Requests -> Responses]
        /\ result \in [Requests -> Responses \cup {"cancelled"}]
    BY DEF Responses
  <2>3. /\ at \in [Requests -> Nat] /\ way \in [Requests -> {"down", "take", "up"}]
        /\ read \in [Requests -> 0 .. MaxTime] /\ served \in [Requests -> Nat]
    OBVIOUS
  <2>4. /\ call \in [Requests -> {"call", "wait", "sleep", "done"}]
        /\ attempt \in [Callers -> 1 .. MaxAttempts] /\ delay \in [Callers -> Nat]
    OBVIOUS
  <2>5. chain \in Chains /\ now \in 0 .. MaxTime /\ first \in 0 .. MaxTime /\ taken \in Nat
    OBVIOUS
  <2> QED
    BY <2>1, <2>2, <2>3, <2>4, <2>5 DEF TypeOK
<1>2. Places
  BY <1>1, LastType DEF Places
<1>3. Credited /\ Passed /\ Attempts /\ DelayCapped
  BY DEF Credited, Passed, Attempts, DelayCapped, Max2, Requests, Failures
<1> QED
  BY <1>1, <1>2, <1>3 DEF IInv

-----------------------------------------------------------------------------
(* Steps on the way down.                                                   *)

LEMMA EnterIInv ==
  ASSUME IInv, NEW r \in Requests, Enter(r)
  PROVE  IInv'
<1> USE DEF Enter
<1>0. Last \in Nat /\ Last' = Last
  BY LastType DEF IInv, Last
<1>1. TypeOK'
  BY DEF IInv, TypeOK, Responses
<1>2. Places'
  BY <1>0 DEF IInv, TypeOK, Places
<1>3. Credited' /\ DelayCapped'
  BY DEF IInv, Credited, DelayCapped
<1>4. Passed'
  BY <1>0 DEF IInv, TypeOK, Passed
<1>5. Attempts'
  BY PipelineAssumption DEF IInv, TypeOK, Attempts, Requests
<1> QED
  BY <1>1, <1>2, <1>3, <1>4, <1>5 DEF IInv

LEMMA PassDownIInv ==
  ASSUME IInv, NEW r \in Requests, PassDown(r)
  PROVE  IInv'
<1> USE DEF PassDown, Next1, retryVars
<1>0. Last \in Nat /\ Last' = Last /\ at[r] \in 1 .. Last /\ way[r] = "down"
  BY LastType DEF IInv, Last, Down
<1>1. TypeOK'
  BY DEF IInv, TypeOK
<1>2. Places'
  BY <1>0 DEF IInv, TypeOK, Places
<1>3. Credited' /\ DelayCapped' /\ Attempts'
  BY DEF IInv, Credited, DelayCapped, Attempts
<1>4. Passed'
  BY <1>0 DEF IInv, TypeOK, Passed
<1> QED
  BY <1>1, <1>2, <1>3, <1>4 DEF IInv

LEMMA ReadClockIInv ==
  ASSUME IInv, NEW r \in Requests, ReadClock(r)
  PROVE  IInv'
<1> USE DEF ReadClock, retryVars
<1>0. Last \in Nat /\ Last' = Last /\ at[r] \in 1 .. Last /\ way[r] = "down"
  BY LastType DEF IInv, Last, Down
<1>1. TypeOK'
  BY DEF IInv, TypeOK
<1>2. Places'
  BY <1>0 DEF IInv, TypeOK, Places
<1>3. Credited' /\ DelayCapped'
  BY DEF IInv, TypeOK, Credited, DelayCapped
<1>4. Passed'
  BY <1>0 DEF IInv, TypeOK, Passed
<1>5. Attempts'
  BY <1>0 DEF IInv, TypeOK, Attempts, Requests
<1> QED
  BY <1>1, <1>2, <1>3, <1>4, <1>5 DEF IInv

\* A token taken is one the refilled bucket held; a refusal only refills it.
LEMMA TakeTokenIInv ==
  ASSUME IInv, NEW r \in Requests, TakeToken(r)
  PROVE  IInv'
<1> DEFINE b == Refilled(read[r])
           f == IF bucket = NoBucket THEN read[r] ELSE first
<1>u. TokenUnit \in Nat /\ Refill \in Nat /\ Capacity \in Nat /\ MaxTime \in Nat
  BY PipelineAssumption
<1>0. /\ Last \in Nat /\ Last' = Last /\ at[r] \in 1 .. Last /\ way[r] = "take"
      /\ read[r] \in 0 .. MaxTime /\ read[r] <= now /\ now \in 0 .. MaxTime /\ taken \in Nat
  BY LastType DEF IInv, TypeOK, Places, Credited, Last, TakeToken
<1>1. /\ b \in [tokens : Nat, last : 0 .. MaxTime]
      /\ f \in 0 .. MaxTime /\ f <= b.last /\ b.last <= now
      /\ b.tokens <= Capacity
      /\ taken * TokenUnit + b.tokens <= Capacity + (b.last - f) * Refill
  BY <1>0, <1>u, RefillCredits DEF IInv
<1>2. /\ UNCHANGED <<chain, now, stats, read, served, crashed, call, attempt, delay, result,
                     answered>>
      /\ first' = f
  BY DEF TakeToken, retryVars
<1>3. CASE b.tokens >= TokenUnit
  <2>1. /\ bucket' = [b EXCEPT !.tokens = @ - TokenUnit] /\ taken' = taken + 1
        /\ at' = [at EXCEPT ![r] = @ + 1] /\ way' = [way EXCEPT ![r] = "down"]
        /\ UNCHANGED resp
    BY <1>3 DEF TakeToken, Next1
  <2> HIDE DEF b, f
  <2>2. /\ bucket'.tokens = b.tokens - TokenUnit /\ bucket'.last = b.last
        /\ bucket' \in [tokens : Nat, last : 0 .. MaxTime]
    BY <1>1, <1>3, <1>u, <2>1
  <2>3. TypeOK'
    <3>1. /\ at \in [Requests -> Nat] /\ way \in [Requests -> {"down", "take", "up"}]
          /\ resp \in [Requests -> Responses]
      BY DEF IInv, TypeOK
    <3>2. /\ at' \in [Requests -> Nat] /\ way' \in [Requests -> {"down", "take", "up"}]
          /\ resp' \in [Requests -> Responses]
      BY <2>1, <3>1
    <3>3. bucket' \in [tokens : Nat, last : -1 .. MaxTime]
      BY <2>2
    <3>4. taken' \in Nat
      BY <1>0, <2>1
    <3>5. first' \in 0 .. MaxTime
      BY <1>1, <1>2
    <3> QED
      BY <1>2, <3>2, <3>3, <3>4, <3>5 DEF IInv, TypeOK
  <2>4. Places'
    <3>1. at \in [Requests -> Nat] /\ way \in [Requests -> {"down", "take", "up"}]
      BY DEF IInv, TypeOK
    <3>2. \A q \in Requests \ {r} : at'[q] = at[q] /\ way'[q] = way[q]
      BY <2>1, <3>1
    <3>3. at'[r] = at[r] + 1 /\ way'[r] = "down"
      BY <2>1, <3>1
    <3> QED
      BY <1>0, <1>2, <3>2, <3>3 DEF IInv, Places
  <2>5. Credited'
    <3>1. taken' * TokenUnit + bucket'.tokens <= Capacity + (bucket'.last - first') * Refill
      <4> DEFINE was == taken * TokenUnit
                 due == (b.last - f) * Refill
      <4>1. /\ taken' * TokenUnit = was + TokenUnit /\ was \in Nat
            /\ (bucket'.last - first') * Refill = due /\ due \in Int
            /\ was + b.tokens <= Capacity + due
            /\ b.tokens \in Nat
        <5>1. taken' * TokenUnit = was + TokenUnit /\ was \in Nat
          BY <1>0, <1>u, <2>1, OneMore
        <5>2. b.last \in Int /\ f \in Int /\ b.tokens \in Nat
          BY <1>1, <1>u
        <5>3. due \in Int
          BY <5>2, <1>u, Longer
        <5>4. bucket'.last = b.last /\ first' = f
          BY <1>2, <2>2
        <5> QED
          BY <1>1, <5>1, <5>2, <5>3, <5>4
      <4> HIDE DEF was, due
      <4> QED
        BY <4>1, <2>2, <1>u
    <3>2. bucket'.tokens <= Capacity
      <4>1. b.tokens \in Nat /\ b.tokens <= Capacity
        BY <1>1
      <4> QED
        BY <4>1, <1>u, <2>2
    <3>3. bucket' # NoBucket
      BY <2>2 DEF NoBucket
    <3> QED
      BY <1>1, <1>2, <2>2, <3>1, <3>2, <3>3 DEF IInv, Credited
  <2>6. Passed'
    BY <1>0, <1>2, <2>1 DEF IInv, TypeOK, Passed
  <2>7. Attempts' /\ DelayCapped'
    BY <1>0, <1>2, <2>1 DEF IInv, TypeOK, Attempts, DelayCapped, Requests
  <2> QED
    BY <2>3, <2>4, <2>5, <2>6, <2>7 DEF IInv
<1>4. CASE ~(b.tokens >= TokenUnit)
  <2>1. /\ bucket' = b /\ UNCHANGED taken
        /\ resp' = [resp EXCEPT ![r] = ErrorResponse(r, "limited")]
        /\ way' = [way EXCEPT ![r] = "up"] /\ at' = [at EXCEPT ![r] = @ - 1]
    BY <1>4 DEF TakeToken
  <2> HIDE DEF b, f
  <2>2. /\ ErrorResponse(r, "limited") \in Responses \ {"ok", "panic", "internal"}
        /\ r \in Notes => ErrorResponse(r, "limited") = "nil"
    BY DEF ErrorResponse, IsNotification, Responses, Failures
  <2>3. TypeOK'
    <3>1. /\ at' \in [Requests -> Nat] /\ way' \in [Requests -> {"down", "take", "up"}]
          /\ resp' \in [Requests -> Responses]
      BY <1>0, <2>1, <2>2 DEF IInv, TypeOK
    <3>2. bucket' \in [tokens : Nat, last : -1 .. MaxTime]
      BY <1>1, <2>1
    <3> QED
      BY <1>0, <1>1, <1>2, <2>1, <3>1, <3>2 DEF IInv, TypeOK
  <2>4. Places'
    BY <1>0, <1>2, <2>1 DEF IInv, TypeOK, Places
  <2>5. Credited'
    <3>1. bucket' # NoBucket
      BY <1>1, <2>1 DEF NoBucket
    <3> QED
      BY <1>1, <1>2, <2>1, <3>1 DEF IInv, Credited
  <2>6. Passed'
    BY <1>0, <1>2, <2>1, <2>2 DEF IInv, TypeOK, Passed
  <2>7. Attempts' /\ DelayCapped'
    BY <1>0, <1>2, <2>1, <2>2 DEF IInv, TypeOK, Attempts, DelayCapped, Requests
  <2> QED
    BY <2>3, <2>4, <2>5, <2>6, <2>7 DEF IInv
<1> QED
  BY <1>3, <1>4

LEMMA ServeIInv ==
  ASSUME IInv, NEW r \in Requests, Serve(r)
  PROVE  IInv'
<1>0. /\ Last \in Nat /\ Last' = Last /\ at[r] = Last + 1 /\ way[r] = "down"
      /\ call[r] = "wait"
  BY LastType DEF IInv, Last, Serve, Places
<1>1. /\ UNCHANGED <<chain, now, bucket, stats, read, taken, first, crashed, call, attempt,
                     delay, result, answered>>
      /\ served' = [served EXCEPT ![r] = @ + 1]
      /\ way' = [way EXCEPT ![r] = "up"] /\ at' = [at EXCEPT ![r] = @ - 1]
  BY DEF Serve, retryVars
<1>2. PICK o \in Outcomes :
        resp' = [resp EXCEPT ![r] = IF o # "panic" /\ IsNotification(r) THEN "nil" ELSE o]
  BY DEF Serve
<1>3. PICK x \in Responses : /\ resp' = [resp EXCEPT ![r] = x]
                             /\ r \in Notes => x \in {"nil", "panic"}
  BY <1>2, PipelineAssumption DEF IsNotification, Responses, Failures
<1>4. TypeOK'
  BY <1>0, <1>1, <1>3 DEF IInv, TypeOK
<1>5. Places'
  BY <1>0, <1>1 DEF IInv, TypeOK, Places
<1>6. Credited' /\ DelayCapped'
  BY <1>1 DEF IInv, Credited, DelayCapped
<1>7. Passed'
  BY <1>0, <1>1, <1>3 DEF IInv, TypeOK, Passed
<1>8. Attempts'
  BY <1>0, <1>1, <1>3 DEF IInv, TypeOK, Attempts, Requests
<1> QED
  BY <1>4, <1>5, <1>6, <1>7, <1>8 DEF IInv

-----------------------------------------------------------------------------
(* Steps on the way up.                                                     *)

\* A response goes up past middleware i as x, which is how i leaves it.
LEMMA UpIInv ==
  ASSUME IInv, NEW r \in Requests, NEW x \in Responses, NEW s \in [success : Nat, errors : Nat],
         at[r] \in 1 .. Last, way[r] = "up",
         resp' = [resp EXCEPT ![r] = x], at' = [at EXCEPT ![r] = @ - 1], stats' = s,
         UNCHANGED <<chain, now, bucket, way, read, taken, first, served, crashed, retryVars,
                     answered>>,
         x \in {resp[r], "nil", "masked"}, r \in Notes => x \in {"nil", "panic"},
         x \in {"panic", "internal"} => chain[at[r]] # "errors",
         x = "panic" => chain[at[r]] # "recovery"
  PROVE  IInv'
<1> USE DEF retryVars
<1>0. Last \in Nat /\ Last' = Last
  BY LastType DEF IInv, Last
<1>1. TypeOK'
  BY <1>0 DEF IInv, TypeOK
<1>2. Places'
  BY <1>0 DEF IInv, TypeOK, Places
<1>3. Credited' /\ DelayCapped'
  BY DEF IInv, Credited, DelayCapped
<1>4. Passed'
  <2>1. ASSUME NEW q \in Requests, way[q] = "up", NEW j \in 1 .. Last, j > at'[q]
        PROVE  /\ chain[j] = "errors" => resp'[q] \notin {"panic", "internal"}
               /\ chain[j] = "recovery" => resp'[q] # "panic"
    <3>1. CASE q # r
      BY <2>1, <3>1 DEF IInv, TypeOK, Passed
    <3>2. CASE q = r /\ j = at[r]
      BY <3>2 DEF IInv, TypeOK
    <3>3. CASE q = r /\ j # at[r]
      <4>1. j > at[r]
        BY <1>0, <2>1, <3>3 DEF IInv, TypeOK
      <4> QED
        BY <2>1, <3>3, <4>1 DEF IInv, TypeOK, Passed
    <3> QED
      BY <3>1, <3>2, <3>3
  <2>2. \A q \in Requests : way[q] = "up" /\ q \in Notes => resp'[q] \in {"nil", "panic"}
    BY DEF IInv, TypeOK, Passed
  <2> QED
    BY <1>0, <2>1, <2>2 DEF Passed
<1>5. Attempts'
  BY DEF IInv, TypeOK, Attempts, Requests
<1> QED
  BY <1>1, <1>2, <1>3, <1>4, <1>5 DEF IInv

LEMMA AscendIInv ==
  ASSUME IInv, NEW r \in Requests, PassUp(r) \/ Count(r) \/ Convert(r)
  PROVE  IInv'
<1>0. /\ at[r] \in 1 .. Last /\ way[r] = "up" /\ resp[r] \in Responses
      /\ stats \in [success : Nat, errors : Nat] /\ resp = [resp EXCEPT ![r] = resp[r]]
  BY DEF IInv, TypeOK, PassUp, Count, Convert, Up
<1>1. r \in Notes => resp[r] \in {"nil", "panic"}
  BY <1>0 DEF IInv, Passed
<1>2. CASE PassUp(r)
  <2>1. chain[at[r]] \notin {"errors", "recovery"}
    BY <1>2 DEF PassUp, Up
  <2>2. /\ resp' = [resp EXCEPT ![r] = resp[r]] /\ at' = [at EXCEPT ![r] = @ - 1]
        /\ stats' = stats
        /\ UNCHANGED <<chain, now, bucket, way, read, taken, first, served, crashed, retryVars,
                       answered>>
    BY <1>0, <1>2 DEF PassUp, Prev
  <2> QED
    BY <1>0, <1>1, <2>1, <2>2, UpIInv
<1>3. CASE Count(r)
  <2>1. chain[at[r]] = "metrics"
    BY <1>3 DEF Count, Up
  <2>2. PICK s \in [success : Nat, errors : Nat] : stats' = s
    BY <1>0, <1>3 DEF Count
  <2>3. /\ resp' = [resp EXCEPT ![r] = resp[r]] /\ at' = [at EXCEPT ![r] = @ - 1]
        /\ UNCHANGED <<chain, now, bucket, way, read, taken, first, served, crashed, retryVars,
                       answered>>
    BY <1>0, <1>3 DEF Count, Prev
  <2> QED
    BY <1>0, <1>1, <2>1, <2>2, <2>3, UpIInv
<1>4. CASE Convert(r)
  <2>1. PICK x \in Responses :
          /\ resp' = [resp EXCEPT ![r] = x]
          /\ x \in {resp[r], "nil", "masked"}
          /\ r \in Notes => x \in {"nil", "panic"}
          /\ x \in {"panic", "internal"} => chain[at[r]] # "errors"
          /\ x = "panic" => chain[at[r]] # "recovery"
    <3>1. CASE Up(r, "errors") /\ resp' = [resp EXCEPT ![r] = Masked(r)]
      BY <1>0, <1>1, <3>1 DEF Up, Masked, ErrorResponse, IsNotification, Responses, Failures
    <3>2. CASE Up(r, "recovery") /\ resp' = [resp EXCEPT ![r] = Recovered(r)]
      <4>1. /\ chain[at[r]] = "recovery"
            /\ Recovered(r) # "panic" /\ Recovered(r) \in {resp[r], "nil", "masked"}
            /\ r \in Notes => Recovered(r) \in {"nil", "panic"}
        BY <1>1, <3>2 DEF Up, Recovered, ErrorResponse, IsNotification
      <4>2. Recovered(r) \in Responses
        BY <1>0, <4>1 DEF Responses, Failures
      <4> QED
        BY <3>2, <4>1, <4>2
    <3> QED
      BY <1>4, <3>1, <3>2 DEF Convert
  <2>2. /\ at' = [at EXCEPT ![r] = @ - 1] /\ stats' = stats
        /\ UNCHANGED <<chain, now, bucket, way, read, taken, first, served, crashed, retryVars,
                       answered>>
    BY <1>4 DEF Convert, Prev
  <2> QED
    BY <1>0, <2>1, <2>2, UpIInv
<1> QED
  BY <1>2, <1>3, <1>4

-----------------------------------------------------------------------------
(* Steps outside the chain: Retry, the clock, the end of the process.       *)

\* A response leaves the chain: Retry is done, or goes to sleep with a try left.
LEMMA LeaveIInv ==
  ASSUME IInv, NEW r \in Requests, Deliver(r) \/ DeliverLost(r)
  PROVE  IInv'
<1>0. /\ at[r] = 0 /\ way[r] = "up" /\ call[r] = "wait"
      /\ UNCHANGED <<chain, now, chainVars, crashed, attempt, delay>>
  BY DEF Deliver, DeliverLost, Leaving
<1>1. PICK o \in Responses :
        \/ /\ call' = [call EXCEPT ![r] = "done"] /\ result' = [result EXCEPT ![r] = o]
           /\ r \in Callers => \/ o = "ok" /\ resp[r] = "ok"
                               \/ o # "ok" /\ (attempt[r] = MaxAttempts \/ o \notin Retryable)
        \/ /\ r \in Callers /\ call' = [call EXCEPT ![r] = "sleep"] /\ result' = result
           /\ attempt[r] # MaxAttempts
  <2>1. resp[r] \in Responses /\ "lost" \in Responses /\ "ok" \notin Failures
    BY DEF IInv, TypeOK, Responses, Failures
  <2>2. CASE Deliver(r)
    <3>1. CASE r \in Notes \/ resp[r] = "ok"
      BY <2>1, <2>2, <3>1, PipelineAssumption DEF Deliver
    <3>2. CASE ~(r \in Notes \/ resp[r] = "ok")
      BY <2>1, <2>2, <3>2 DEF Deliver, Failed, Requests
    <3> QED
      BY <3>1, <3>2
  <2>3. CASE DeliverLost(r)
    BY <2>1, <2>3 DEF DeliverLost, Failed
  <2> QED
    BY <2>2, <2>3
<1>2. answered' \in [success : Nat, errors : Nat]
  BY DEF IInv, TypeOK, Deliver, DeliverLost, Leaving
<1>3. TypeOK'
  BY <1>0, <1>1, <1>2 DEF IInv, TypeOK, chainVars
<1>4. Places'
  BY <1>0, <1>1 DEF IInv, TypeOK, Places, chainVars, Last
<1>5. Credited' /\ Passed' /\ DelayCapped'
  BY <1>0 DEF IInv, Credited, Passed, DelayCapped, chainVars, Last
<1>6. Attempts'
  <2>1. "ok" \notin Retryable /\ "none" \notin Retryable
    BY PipelineAssumption DEF Failures
  <2> QED
    BY <1>0, <1>1, <2>1 DEF IInv, TypeOK, Attempts, Requests, chainVars
<1> QED
  BY <1>3, <1>4, <1>5, <1>6 DEF IInv

\* A delay that has grown is within the cap.
LEMMA GrownIsCapped ==
  ASSUME NEW d \in Nat
  PROVE  Grown(d) \in Nat /\ (MaxDelay > 0 => Grown(d) <= Max2(BaseDelay, MaxDelay))
<1> DEFINE longer == d * mult
<1> USE PipelineAssumption
<1>1. longer \in Nat /\ (d = 0 => longer = 0)
  <2>1. mult \in Nat
    BY DEF mult
  <2> QED
    BY <2>1
<1>2. Grown(d) = IF d > 0 /\ MaxDelay > 0 /\ longer > MaxDelay THEN MaxDelay ELSE longer
  BY DEF Grown
<1> HIDE DEF longer
<1> QED
  BY <1>1, <1>2 DEF Max2

LEMMA RetryIInv ==
  ASSUME IInv, NEW c \in Callers, RetryStep(c)
  PROVE  IInv'
<1>0. /\ call[c] = "sleep" /\ UNCHANGED <<chain, now, chainVars, crashed, answered>>
      /\ c \in Requests
  BY DEF RetryStep, Wake, WakeCancelled, Requests
<1>1. Places' /\ Credited' /\ Passed'
  <2>1. Places'
    BY <1>0 DEF IInv, TypeOK, RetryStep, Wake, WakeCancelled, Places, chainVars, Last
  <2>2. Credited' /\ Passed'
    BY <1>0 DEF IInv, Credited, Passed, chainVars, Last
  <2> QED
    BY <2>1, <2>2
<1>2. CASE Wake(c)
  <2>1. delay[c] \in Nat /\ attempt[c] \in 1 .. MaxAttempts /\ attempt[c] # MaxAttempts
    BY <1>0 DEF IInv, TypeOK, Attempts
  <2>2. /\ call' = [call EXCEPT ![c] = "call"] /\ attempt' = [attempt EXCEPT ![c] = @ + 1]
        /\ delay' = [delay EXCEPT ![c] = Grown(delay[c])] /\ result' = result
    BY <1>2 DEF Wake
  <2>3. TypeOK'
    <3>1. attempt[c] + 1 \in 1 .. MaxAttempts /\ Grown(delay[c]) \in Nat
      <4>1. Grown(delay[c]) \in Nat
        BY <2>1, GrownIsCapped
      <4> QED
        BY <2>1, <4>1, PipelineAssumption
    <3>2. attempt' \in [Callers -> 1 .. MaxAttempts] /\ delay' \in [Callers -> Nat]
      BY <2>2, <3>1 DEF IInv, TypeOK
    <3> QED
      BY <1>0, <2>2, <3>2 DEF IInv, TypeOK, chainVars
  <2>4. DelayCapped'
    BY <2>1, <2>2, GrownIsCapped DEF IInv, TypeOK, DelayCapped
  <2>5. Attempts'
    <3>1. /\ attempt \in [Callers -> 1 .. MaxAttempts] /\ served \in [Requests -> Nat]
          /\ call \in [Requests -> {"call", "wait", "sleep", "done"}]
      BY DEF IInv, TypeOK
    <3>2. served[c] <= attempt[c] /\ result[c] = "none"
      BY <1>0 DEF IInv, Attempts
    <3>3. UNCHANGED <<served, way, resp, result>>
      BY <1>0, <2>2 DEF chainVars
    <3>4. "none" \notin Retryable /\ Callers \subseteq Requests
      BY PipelineAssumption DEF Failures, Requests
    <3>5. call'[c] = "call" /\ attempt'[c] = attempt[c] + 1 /\ served[c] < attempt'[c]
      BY <1>0, <2>2, <3>1, <3>2
    <3>6. \A d \in Callers \ {c} : call'[d] = call[d] /\ attempt'[d] = attempt[d]
      BY <2>2, <3>1, <3>4
    <3>7. /\ served[c] <= attempt'[c]
          /\ way[c] = "up" /\ resp[c] = "ok" => served[c] >= 1
      BY <1>0, <3>1, <3>4, <3>5 DEF IInv, Attempts
    <3> QED
      BY <3>2, <3>3, <3>4, <3>5, <3>6, <3>7 DEF IInv, Attempts
  <2> QED
    BY <1>1, <2>3, <2>4, <2>5 DEF IInv
<1>3. CASE WakeCancelled(c)
  <2>1. "cancelled" \notin Retryable
    BY PipelineAssumption DEF Failures
  <2>2. TypeOK'
    BY <1>0, <1>3 DEF IInv, TypeOK, chainVars, WakeCancelled
  <2>3. DelayCapped' /\ Attempts'
    BY <1>0, <1>3, <2>1 DEF IInv, TypeOK, DelayCapped, Attempts, chainVars, WakeCancelled
  <2> QED
    BY <1>1, <2>2, <2>3 DEF IInv
<1> QED
  BY <1>2, <1>3 DEF RetryStep

LEMMA OtherIInv ==
  ASSUME IInv, (\E r \in Requests : Crash(r)) \/ Tick \/ UNCHANGED vars
  PROVE  IInv'
<1>1. /\ UNCHANGED <<chain, chainVars, retryVars, answered>>
      /\ now' \in 0 .. MaxTime /\ now <= now' /\ crashed' \in BOOLEAN /\ now \in 0 .. MaxTime
  <2>1. now \in 0 .. MaxTime /\ crashed \in BOOLEAN /\ MaxTime \in Nat
    BY PipelineAssumption DEF IInv, TypeOK
  <2>2. CASE \E r \in Requests : Crash(r)
    BY <2>1, <2>2 DEF Crash
  <2>3. CASE Tick
    BY <2>1, <2>3 DEF Tick
  <2>4. CASE UNCHANGED vars
    BY <2>1, <2>4 DEF vars, chainVars, retryVars
  <2> QED
    BY <2>2, <2>3, <2>4
<1>2. TypeOK' /\ Places'
  BY <1>1 DEF IInv, TypeOK, Places, chainVars, retryVars, Last
<1>3. Credited'
  <2>1. bucket \in [tokens : Nat, last : -1 .. MaxTime] /\ read \in [Requests -> 0 .. MaxTime]
    BY DEF IInv, TypeOK
  <2>2. UNCHANGED <<bucket, taken, first, read>>
    BY <1>1 DEF chainVars
  <2>3. /\ \A r \in Requests : read[r] <= now'
        /\ bucket # NoBucket => bucket.last <= now'
    BY <1>1, <2>1 DEF IInv, Credited
  <2> QED
    BY <2>2, <2>3 DEF IInv, Credited
<1>4. Passed' /\ Attempts' /\ DelayCapped'
  BY <1>1 DEF IInv, Passed, Attempts, DelayCapped, chainVars, retryVars, Last
<1> QED
  BY <1>2, <1>3, <1>4 DEF IInv

LEMMA NextIInv == IInv /\ [Next]_vars => IInv'
<1> SUFFICES ASSUME IInv, [Next]_vars PROVE IInv'
  OBVIOUS
<1>1. ASSUME NEW r \in Requests, ChainStep(r)
      PROVE  IInv'
  BY <1>1, EnterIInv, PassDownIInv, ReadClockIInv, TakeTokenIInv, ServeIInv, AscendIInv,
     LeaveIInv, OtherIInv DEF ChainStep
<1>2. ASSUME NEW c \in Callers, RetryStep(c)
      PROVE  IInv'
  BY <1>2, RetryIInv
<1>3. CASE Tick \/ UNCHANGED vars
  BY <1>3, OtherIInv
<1> QED
  BY <1>1, <1>2, <1>3 DEF Next

LEMMA SpecIInv == Spec => []IInv
  BY InitIInv, NextIInv, PTL DEF Spec

-----------------------------------------------------------------------------
(* What the invariant implies.                                              *)

\* Every variable of the chain and of Retry keeps its type (middleware.go:117-165,
\* ratelimit.go:66-126, helpers.go:37-82).
THEOREM TypeCorrect == Spec => []TypeOK
<1>1. IInv => TypeOK
  BY DEF IInv
<1> QED
  BY <1>1, SpecIInv, PTL

\* RateLimit never gives out more tokens than the bucket began with and the clock has
\* brought since, whatever the order in which requests read the clock and reach the
\* bucket (ratelimit.go:101-126).
THEOREM RateIsBounded == Spec => []RateBound
<1>1. ASSUME IInv, bucket # NoBucket
      PROVE  /\ bucket.tokens <= Capacity
             /\ taken * TokenUnit + bucket.tokens <= Capacity + (now - first) * Refill
  <2>1. /\ now \in 0 .. MaxTime /\ first \in 0 .. MaxTime /\ taken \in Nat
        /\ bucket.tokens \in Nat /\ bucket.last \in Int /\ MaxTime \in Nat
        /\ Capacity \in Nat /\ Refill \in Nat /\ TokenUnit \in Nat
    BY <1>1, PipelineAssumption DEF IInv, TypeOK
  <2>2. /\ bucket.last <= now /\ bucket.tokens <= Capacity
        /\ taken * TokenUnit + bucket.tokens <= Capacity + (bucket.last - first) * Refill
    BY <1>1 DEF IInv, Credited
  <2> DEFINE was == taken * TokenUnit
             due == (bucket.last - first) * Refill
             owed == (now - first) * Refill
             more == (now - bucket.last) * Refill
  <2>3. owed = due + more /\ due \in Int /\ more \in Nat /\ was \in Nat
    BY <2>1, <2>2, Longer
  <2>4. was + bucket.tokens <= Capacity + due
    BY <2>2
  <2> HIDE DEF was, due, owed, more
  <2>5. was + bucket.tokens <= Capacity + owed
    BY <2>1, <2>3, <2>4
  <2> QED
    BY <2>2, <2>5 DEF was, owed
<1>2. IInv => RateBound
  BY <1>1 DEF RateBound
<1> QED
  BY <1>2, SpecIInv, PTL

\* No panic and no internal message leaves a chain with ErrorHandling anywhere in it,
\* no panic one with Recovery, and no notification is answered, for every chain
\* (errorhandling.go:31-101, middleware.go:117-165).
THEOREM NothingEscapesAnyChain == Spec => []NothingEscapes
<1>1. IInv => NothingEscapes
  <2> SUFFICES ASSUME IInv, NEW r \in Requests, at[r] = 0, way[r] = "up"
               PROVE  /\ Has("errors") => resp[r] \notin {"panic", "internal"}
                      /\ Has("recovery") => resp[r] # "panic"
                      /\ r \in Notes => resp[r] \in {"nil", "panic"}
    BY DEF NothingEscapes
  <2>1. Last \in Nat /\ \A j \in 1 .. Last : j > at[r]
    BY LastType DEF IInv
  <2> QED
    BY <2>1 DEF IInv, Passed, Has
<1> QED
  BY <1>1, SpecIInv, PTL

\* Retry runs a tool at most once per attempt, returns a result only of a run, gives up
\* early only on what is not to be retried, and caps the delays it has grown
\* (helpers.go:55-81).
THEOREM RetryIsBounded == Spec => []RetryKeepsPolicy
<1>1. IInv => RetryKeepsPolicy
  BY DEF IInv, Attempts, DelayCapped, RetryKeepsPolicy
<1> QED
  BY <1>1, SpecIInv, PTL

-----------------------------------------------------------------------------
(* The counters.  What Metrics has counted has been answered, or is on its  *)
(* way up behind Metrics; nothing further out makes a failure of a success. *)

Counters == {"success", "errors"}
Outcome(response) == IF IsError(response) THEN "errors" ELSE "success"

\* The requests whose response is past Metrics and has not left the chain.
Passing(o) ==
  {r \in Requests : /\ call[r] = "wait" /\ way[r] = "up"
                    /\ resp[r] # "panic" /\ Outcome(resp[r]) = o
                    /\ \E j \in 1 .. Last : chain[j] = "metrics" /\ at[r] < j}

\* No response leaves the chain without passing Metrics, and no panic does.
Exact == Outermost("metrics") /\ (Has("recovery") \/ Has("errors"))

Balanced ==
  \A o \in Counters :
    /\ IsFiniteSet(Passing(o))
    /\ stats[o] <= answered[o] + Cardinality(Passing(o))
    /\ Exact => stats[o] = answered[o] + Cardinality(Passing(o))

\* Who has read the clock stands at RateLimit.
AtTheBucket == \A r \in Requests : way[r] = "take" => chain[at[r]] = "limit"

\* What a step of r does to the account of o: counted and answered are the changes
\* of the two counters.
Moves(r, o, counted, answers) ==
  /\ stats'[o] = stats[o] + counted /\ answered'[o] = answered[o] + answers
  /\ \/ Passing(o)' = Passing(o) /\ counted <= answers /\ (Exact => counted = answers)
     \/ Passing(o)' = Passing(o) \cup {r} /\ r \notin Passing(o)
        /\ counted <= answers + 1 /\ (Exact => counted = answers + 1)
     \/ Passing(o)' = Passing(o) \ {r} /\ r \in Passing(o)
        /\ counted + 1 <= answers /\ (Exact => counted + 1 = answers)

LEMMA MovesBalance ==
  ASSUME IInv, Balanced, UNCHANGED chain, NEW r,
         \A o \in Counters : \E c, a \in {0, 1} : Moves(r, o, c, a)
  PROVE  Balanced'
<1>1. Exact' = Exact
  BY DEF Exact, Outermost, Has, Last
<1>2. ASSUME NEW o \in Counters
      PROVE  /\ IsFiniteSet(Passing(o)')
             /\ stats'[o] <= answered'[o] + Cardinality(Passing(o)')
             /\ Exact => stats'[o] = answered'[o] + Cardinality(Passing(o)')
  <2> DEFINE P == Passing(o)
             Q == Passing(o)'
  <2>1. /\ IsFiniteSet(P) /\ stats[o] <= answered[o] + Cardinality(P)
        /\ Exact => stats[o] = answered[o] + Cardinality(P)
    BY DEF Balanced
  <2>2. PICK c \in {0, 1}, a \in {0, 1} : Moves(r, o, c, a)
    BY <1>2
  <2>3. stats[o] \in Nat /\ answered[o] \in Nat
    BY DEF IInv, TypeOK, Counters
  <2>4. Cardinality(P) \in Nat
    BY <2>1, FS_CardinalityType
  <2> HIDE DEF P
  <2>5. /\ stats'[o] = stats[o] + c /\ answered'[o] = answered[o] + a
        /\ \/ Q = P /\ c <= a /\ (Exact => c = a)
           \/ Q = P \cup {r} /\ r \notin P /\ c <= a + 1 /\ (Exact => c = a + 1)
           \/ Q = P \ {r} /\ r \in P /\ c + 1 <= a /\ (Exact => c + 1 = a)
    BY <2>2 DEF Moves, P
  <2> HIDE DEF Q
  <2>6. CASE Q = P /\ c <= a /\ (Exact => c = a)
    BY <2>1, <2>3, <2>4, <2>5, <2>6 DEF P, Q
  <2>7. CASE Q = P \cup {r} /\ r \notin P /\ c <= a + 1 /\ (Exact => c = a + 1)
    <3>1. IsFiniteSet(Q) /\ Cardinality(Q) = Cardinality(P) + 1
      BY <2>1, <2>7, FS_AddElement
    <3> QED
      BY <2>1, <2>3, <2>4, <2>5, <2>7, <3>1 DEF P, Q
  <2>8. CASE Q = P \ {r} /\ r \in P /\ c + 1 <= a /\ (Exact => c + 1 = a)
    <3>1. IsFiniteSet(Q) /\ Cardinality(Q) = Cardinality(P) - 1
      BY <2>1, <2>8, FS_RemoveElement
    <3> QED
      BY <2>1, <2>3, <2>4, <2>5, <2>8, <3>1 DEF P, Q
  <2> QED
    BY <2>5, <2>6, <2>7, <2>8
<1> QED
  BY <1>1, <1>2 DEF Balanced

\* A step that neither counts nor answers: whoever comes to stand behind Metrics
\* stood beyond a middleware outside of it.
LEMMA NoCountBalanced ==
  ASSUME IInv, Balanced, UNCHANGED <<chain, stats, answered>>, NEW r \in Requests,
         \A q \in Requests \ {r} : UNCHANGED <<call[q], way[q], resp[q], at[q]>>,
         \A o \in Counters : r \in Passing(o) => r \in Passing(o)',
         Exact => \A o \in Counters : r \in Passing(o)' => r \in Passing(o)
  PROVE  Balanced'
<1>1. ASSUME NEW o \in Counters
      PROVE  \E c, a \in {0, 1} : Moves(r, o, c, a)
  <2>1. \A q \in Requests \ {r} : q \in Passing(o)' <=> q \in Passing(o)
    BY DEF Passing, Outcome, IsError, Last
  <2>2. Passing(o) \subseteq Requests /\ Passing(o)' \subseteq Requests
    BY DEF Passing
  <2>3. \/ Passing(o)' = Passing(o)
        \/ ~Exact /\ Passing(o)' = Passing(o) \cup {r} /\ r \notin Passing(o)
    BY <1>1, <2>1, <2>2
  <2>4. stats[o] \in Nat /\ answered[o] \in Nat /\ stats'[o] = stats[o]
        /\ answered'[o] = answered[o]
    BY DEF IInv, TypeOK, Counters
  <2>5. Moves(r, o, 0, 0)
    BY <2>3, <2>4 DEF Moves
  <2> QED
    BY <2>5
<1> QED
  BY <1>1, MovesBalance

LEMMA DownBalanced ==
  ASSUME IInv, Balanced, NEW r \in Requests,
         Enter(r) \/ PassDown(r) \/ ReadClock(r)
  PROVE  Balanced'
<1>1. /\ UNCHANGED <<chain, stats, answered>>
      /\ \A q \in Requests \ {r} : UNCHANGED <<call[q], way[q], resp[q], at[q]>>
  BY DEF IInv, TypeOK, Enter, PassDown, ReadClock, Next1, retryVars
<1>2. /\ call[r] = "call" \/ way[r] # "up"
      /\ way'[r] # "up"
  BY DEF IInv, TypeOK, Enter, PassDown, ReadClock, Down
<1>3. \A o \in Counters : r \notin Passing(o) /\ r \notin Passing(o)'
  BY <1>2 DEF Passing
<1> QED
  BY <1>1, <1>3, NoCountBalanced


LEMMA OneMetrics ==
  ASSUME IInv, NEW i \in 1 .. Last, NEW j \in 1 .. Last, chain[i] = chain[j]
  PROVE  i = j
BY PipelineAssumption DEF IInv, TypeOK, Last

\* Metrics outermost: a response that turns back or is served further in is not
\* behind it.
LEMMA TurnBalanced ==
  ASSUME IInv, AtTheBucket, Balanced, NEW r \in Requests, TakeToken(r) \/ Serve(r)
  PROVE  Balanced'
<1>1. /\ UNCHANGED <<chain, stats, answered, call>>
      /\ \A q \in Requests \ {r} : UNCHANGED <<call[q], way[q], resp[q], at[q]>>
  BY DEF IInv, TypeOK, TakeToken, Serve, Next1, retryVars
<1>2. way[r] # "up"
  BY DEF TakeToken, Serve
<1>3. \A o \in Counters : r \notin Passing(o)
  BY <1>2 DEF Passing
<1>4. ASSUME Exact, NEW o \in Counters, r \in Passing(o)'
      PROVE  FALSE
  <2>1. way'[r] = "up" /\ \E j \in 1 .. Last : chain[j] = "metrics" /\ at'[r] < j
    BY <1>1, <1>4 DEF Passing, Last
  <2>2. at'[r] = at[r] - 1
    BY <1>2, <2>1 DEF IInv, TypeOK, TakeToken, Serve, Next1
  <2>3. /\ at[r] \in 1 .. Last + 1 /\ chain[1] = "metrics" /\ Last \in Nat /\ Last > 0
        /\ at[r] # 1
    <3>1. chain[1] = "metrics" /\ Last \in Nat /\ Last > 0
      BY <1>4, LastType DEF IInv, Exact, Outermost
    <3>2. CASE TakeToken(r)
      BY <3>1, <3>2 DEF IInv, Places, AtTheBucket, TakeToken
    <3>3. CASE Serve(r)
      BY <3>1, <3>3 DEF Serve
    <3> QED
      BY <3>1, <3>2, <3>3
  <2>4. PICK j \in 1 .. Last : chain[j] = "metrics" /\ at'[r] < j
    BY <2>1
  <2>5. j = 1
    BY <2>3, <2>4, OneMetrics
  <2> QED
    BY <2>2, <2>3, <2>4, <2>5
<1> QED
  BY <1>1, <1>3, <1>4, NoCountBalanced

\* A conversion keeps a failure a failure, and one outside of Metrics is not at its
\* outermost place.
LEMMA UpBalanced ==
  ASSUME IInv, Balanced, NEW r \in Requests, PassUp(r) \/ Convert(r)
  PROVE  Balanced'
<1>1. /\ UNCHANGED <<chain, stats, answered, call, way>>
      /\ \A q \in Requests \ {r} : UNCHANGED <<call[q], way[q], resp[q], at[q]>>
  BY DEF IInv, TypeOK, PassUp, Convert, Prev, retryVars
<1>2. /\ at[r] \in 1 .. Last /\ at'[r] = at[r] - 1 /\ way[r] = "up"
      /\ Last \in Nat /\ resp[r] \in Responses
  BY LastType DEF IInv, TypeOK, PassUp, Convert, Up, Prev
<1>3. resp[r] # "panic" => resp'[r] # "panic" /\ Outcome(resp'[r]) = Outcome(resp[r])
  <2>1. CASE PassUp(r)
    BY <2>1 DEF PassUp
  <2>2. CASE Convert(r)
    <3>1. resp' = [resp EXCEPT ![r] = Masked(r)] \/ resp' = [resp EXCEPT ![r] = Recovered(r)]
      BY <2>2 DEF Convert
    <3>2. resp'[r] = Masked(r) \/ resp'[r] = Recovered(r)
      BY <3>1 DEF IInv, TypeOK
    <3>3. r \in Notes => resp[r] # "internal"
      BY <1>2 DEF IInv, Passed
    <3> QED
      BY <3>2, <3>3 DEF Masked, Recovered, ErrorResponse, IsNotification, Outcome, IsError, Failures
  <2> QED
    BY <2>1, <2>2
<1>4. ASSUME NEW o \in Counters, r \in Passing(o)
      PROVE  r \in Passing(o)'
  <2>1. PICK j \in 1 .. Last : chain[j] = "metrics" /\ at[r] < j
    BY <1>4 DEF Passing
  <2>2. at'[r] < j
    BY <1>2, <2>1
  <2> QED
    BY <1>1, <1>3, <1>4, <2>1, <2>2 DEF Passing, Last
<1>5. ASSUME Exact, NEW o \in Counters, r \in Passing(o)'
      PROVE  FALSE
  <2>1. PICK j \in 1 .. Last : chain[j] = "metrics" /\ at'[r] < j
    BY <1>1, <1>5 DEF Passing, Last
  <2>2. chain[1] = "metrics" /\ 1 \in 1 .. Last
    BY <1>2, <1>5 DEF Exact, Outermost
  <2>3. j = 1
    BY <2>1, <2>2, OneMetrics
  <2>4. at[r] = 1
    BY <1>2, <2>1, <2>3
  <2>5. PassUp(r) /\ resp[r] = "panic"
    BY <2>2, <2>4 DEF PassUp, Convert, Up
  <2>6. PICK k \in 1 .. Last : chain[k] \in {"recovery", "errors"}
    BY <1>5 DEF Exact, Has
  <2>7. k > at[r]
    BY <2>2, <2>4, <2>6
  <2> QED
    BY <1>2, <2>5, <2>6, <2>7 DEF IInv, Passed
<1> QED
  BY <1>1, <1>4, <1>5, NoCountBalanced

LEMMA CountBalanced ==
  ASSUME IInv, Balanced, NEW r \in Requests, Count(r)
  PROVE  Balanced'
<1>1. /\ UNCHANGED <<chain, answered, call, way, resp>>
      /\ \A q \in Requests \ {r} : UNCHANGED <<call[q], way[q], resp[q], at[q]>>
  BY DEF IInv, TypeOK, Count, Prev, retryVars
<1>2. /\ at[r] \in 1 .. Last /\ at'[r] = at[r] - 1 /\ way[r] = "up"
      /\ chain[at[r]] = "metrics" /\ resp[r] # "panic" /\ Last \in Nat
      /\ call[r] = "wait"
  BY LastType DEF IInv, TypeOK, Places, Count, Up, Prev
<1>3. ASSUME NEW o \in Counters
      PROVE  \E c, a \in {0, 1} : Moves(r, o, c, a)
  <2>1. \A q \in Requests \ {r} : q \in Passing(o)' <=> q \in Passing(o)
    BY <1>1 DEF Passing, Last
  <2>2. r \notin Passing(o)
    <3> SUFFICES ASSUME NEW j \in 1 .. Last, chain[j] = "metrics", at[r] < j PROVE FALSE
      BY DEF Passing
    <3>1. j = at[r]
      BY <1>2, OneMetrics
    <3> QED
      BY <1>2, <3>1
  <2>3. r \in Passing(o)' <=> Outcome(resp[r]) = o
    <3>1. at'[r] < at[r] /\ Last' = Last
      BY <1>1, <1>2 DEF Last
    <3> QED
      BY <1>1, <1>2, <3>1 DEF Passing
  <2>4. Passing(o) \subseteq Requests /\ Passing(o)' \subseteq Requests
    BY DEF Passing
  <2>5. stats[o] \in Nat /\ answered[o] \in Nat /\ answered'[o] = answered[o]
    BY <1>1 DEF IInv, TypeOK, Counters
  <2>6. CASE Outcome(resp[r]) = o
    <3>1. stats'[o] = stats[o] + 1
      BY <2>6 DEF Count, IInv, TypeOK, Counters, Outcome
    <3>2. Passing(o)' = Passing(o) \cup {r}
      BY <2>1, <2>3, <2>4, <2>6
    <3>3. Moves(r, o, 1, 0)
      BY <2>2, <2>5, <3>1, <3>2 DEF Moves
    <3> QED
      BY <3>3
  <2>7. CASE Outcome(resp[r]) # o
    <3>1. stats'[o] = stats[o]
      BY <2>7 DEF Count, IInv, TypeOK, Counters, Outcome
    <3>2. Passing(o)' = Passing(o)
      BY <2>1, <2>2, <2>3, <2>4, <2>7
    <3>3. Moves(r, o, 0, 0)
      BY <2>5, <3>1, <3>2 DEF Moves
    <3> QED
      BY <3>3
  <2> QED
    BY <2>6, <2>7
<1> QED
  BY <1>1, <1>3, MovesBalance

\* A response that leaves the chain is answered, and was counted if Metrics saw it.
LEMMA LeaveBalanced ==
  ASSUME IInv, Balanced, NEW r \in Requests, Deliver(r) \/ DeliverLost(r)
  PROVE  Balanced'
<1>1. /\ UNCHANGED <<chain, stats, way, resp, at>> /\ Last' = Last
      /\ \A q \in Requests \ {r} : UNCHANGED <<call[q], way[q], resp[q], at[q]>>
      /\ call'[r] # "wait"
  BY DEF IInv, TypeOK, Deliver, DeliverLost, Leaving, Failed, chainVars, Last
<1>2. at[r] = 0 /\ way[r] = "up" /\ call[r] = "wait" /\ resp[r] # "panic"
  BY DEF Deliver, DeliverLost, Leaving
<1>3. ASSUME NEW o \in Counters
      PROVE  \E c, a \in {0, 1} : Moves(r, o, c, a)
  <2>1. \A q \in Requests \ {r} : q \in Passing(o)' <=> q \in Passing(o)
    BY <1>1 DEF Passing
  <2>2. r \notin Passing(o)'
    BY <1>1 DEF Passing
  <2>3. /\ r \in Passing(o) => Outcome(resp[r]) = o
        /\ Exact /\ Outcome(resp[r]) = o => r \in Passing(o)
    <3>1. Exact => \E j \in 1 .. Last : chain[j] = "metrics" /\ at[r] < j
      <4>1. Last \in Nat
        BY LastType DEF IInv
      <4> QED
        BY <1>2, <4>1 DEF Exact, Outermost
    <3> QED
      BY <1>2, <3>1 DEF Passing
  <2>4. Passing(o) \subseteq Requests /\ Passing(o)' \subseteq Requests
    BY DEF Passing
  <2>5. stats[o] \in Nat /\ answered[o] \in Nat /\ stats'[o] = stats[o]
    BY <1>1 DEF IInv, TypeOK, Counters
  <2>6. answered'[o] = IF Outcome(resp[r]) = o THEN answered[o] + 1 ELSE answered[o]
    BY DEF IInv, TypeOK, Deliver, DeliverLost, Leaving, Outcome, Counters
  <2>7. CASE r \in Passing(o)
    <3>1. Passing(o)' = Passing(o) \ {r} /\ answered'[o] = answered[o] + 1
      BY <2>1, <2>2, <2>3, <2>4, <2>6, <2>7
    <3>2. Moves(r, o, 0, 1)
      BY <2>5, <2>7, <3>1 DEF Moves
    <3> QED
      BY <3>2
  <2>8. CASE r \notin Passing(o) /\ Outcome(resp[r]) = o
    <3>1. Passing(o)' = Passing(o) /\ answered'[o] = answered[o] + 1 /\ ~Exact
      BY <2>1, <2>2, <2>3, <2>4, <2>6, <2>8
    <3>2. Moves(r, o, 0, 1)
      BY <2>5, <3>1 DEF Moves
    <3> QED
      BY <3>2
  <2>9. CASE Outcome(resp[r]) # o
    <3>1. Passing(o)' = Passing(o) /\ answered'[o] = answered[o]
      BY <2>1, <2>2, <2>3, <2>4, <2>6, <2>9
    <3>2. Moves(r, o, 0, 0)
      BY <2>5, <3>1 DEF Moves
    <3> QED
      BY <3>2
  <2> QED
    BY <2>7, <2>8, <2>9
<1> QED
  BY <1>1, <1>3, MovesBalance

\* A call that sleeps has no request in the chain.
LEMMA OutsideBalanced ==
  ASSUME IInv, Balanced,
         (\E c \in Callers : RetryStep(c)) \/ (\E r \in Requests : Crash(r)) \/ Tick
         \/ UNCHANGED vars
  PROVE  Balanced'
<1>1. /\ UNCHANGED <<chain, stats, answered, way, resp, at>>
      /\ \A q \in Requests : call'[q] = "wait" <=> call[q] = "wait"
  <2>1. CASE \E c \in Callers : RetryStep(c)
    <3>1. PICK c \in Callers : RetryStep(c)
      BY <2>1
    <3>2. call[c] = "sleep" /\ \E x \in {"call", "done"} : call' = [call EXCEPT ![c] = x]
      BY <3>1 DEF RetryStep, Wake, WakeCancelled
    <3>3. \A q \in Requests : call'[q] = "wait" <=> call[q] = "wait"
      BY <3>2 DEF IInv, TypeOK
    <3> QED
      BY <3>1, <3>3 DEF RetryStep, Wake, WakeCancelled, chainVars
  <2>2. CASE (\E r \in Requests : Crash(r)) \/ Tick \/ UNCHANGED vars
    BY <2>2 DEF Crash, Tick, vars, chainVars, retryVars
  <2> QED
    BY <2>1, <2>2
<1>2. \A o \in Counters : Passing(o)' = Passing(o)
  BY <1>1 DEF Passing, Last
<1>3. Exact' = Exact
  BY <1>1 DEF Exact, Outermost, Has, Last
<1> QED
  BY <1>1, <1>2, <1>3 DEF Balanced

LEMMA NextAtTheBucket == IInv /\ AtTheBucket /\ [Next]_vars => AtTheBucket'
<1> SUFFICES ASSUME IInv, AtTheBucket, [Next]_vars, NEW r \in Requests, way'[r] = "take"
             PROVE  chain'[at'[r]] = "limit"
  BY DEF AtTheBucket
<1>1. chain' = chain
  BY DEF Next, ChainStep, RetryStep, Enter, PassDown, ReadClock, TakeToken, Serve, PassUp, Count,
         Convert, Crash, Deliver, DeliverLost, Leaving, Wake, WakeCancelled, Tick, vars
<1>2. CASE UNCHANGED <<way, at>>
  BY <1>1, <1>2 DEF AtTheBucket
<1>3. ASSUME NEW q \in Requests, ChainStep(q), ~UNCHANGED <<way, at>>
      PROVE  chain[at'[r]] = "limit"
  <2>1. CASE q # r
    <3>0. way \in [Requests -> {"down", "take", "up"}] /\ at \in [Requests -> Nat]
      BY DEF IInv, TypeOK
    <3>1. CASE Enter(q) \/ PassDown(q) \/ ReadClock(q) \/ TakeToken(q)
      BY <2>1, <3>0, <3>1 DEF AtTheBucket, Enter, PassDown, ReadClock, TakeToken, Next1
    <3>2. CASE Serve(q) \/ PassUp(q) \/ Count(q) \/ Convert(q)
      BY <2>1, <3>0, <3>2 DEF AtTheBucket, Serve, PassUp, Count, Convert, Prev
    <3>3. CASE Crash(q) \/ Deliver(q) \/ DeliverLost(q)
      BY <1>3, <3>3 DEF Crash, Deliver, DeliverLost, Leaving, chainVars
    <3> QED
      BY <1>3, <3>1, <3>2, <3>3 DEF ChainStep
  <2>2. CASE q = r
    <3>0. way \in [Requests -> {"down", "take", "up"}]
      BY DEF IInv, TypeOK
    <3>1. ~(Enter(r) \/ PassDown(r) \/ TakeToken(r) \/ Serve(r))
      BY <3>0 DEF Enter, PassDown, Down, TakeToken, Serve
    <3>2. ~(PassUp(r) \/ Count(r) \/ Convert(r))
      BY <3>0 DEF PassUp, Count, Convert, Up
    <3>3. ~(Crash(r) \/ Deliver(r) \/ DeliverLost(r))
      BY <1>3 DEF Crash, Deliver, DeliverLost, Leaving, chainVars
    <3>4. ReadClock(r)
      BY <1>3, <2>2, <3>1, <3>2, <3>3 DEF ChainStep
    <3> QED
      BY <3>4 DEF ReadClock, Down
  <2> QED
    BY <2>1, <2>2
<1> QED
  BY <1>1, <1>2, <1>3 DEF Next, RetryStep, Wake, WakeCancelled, Tick, vars, chainVars

LEMMA NextBalanced == IInv /\ AtTheBucket /\ Balanced /\ [Next]_vars => Balanced'
<1> SUFFICES ASSUME IInv, AtTheBucket, Balanced, [Next]_vars PROVE Balanced'
  OBVIOUS
<1>1. ASSUME NEW r \in Requests, ChainStep(r)
      PROVE  Balanced'
  BY <1>1, DownBalanced, TurnBalanced, UpBalanced, CountBalanced, LeaveBalanced,
     OutsideBalanced DEF ChainStep
<1>2. CASE (\E c \in Callers : RetryStep(c)) \/ Tick \/ UNCHANGED vars
  BY <1>2, OutsideBalanced
<1> QED
  BY <1>1, <1>2 DEF Next

LEMMA InitBalanced == Init => AtTheBucket /\ Balanced
<1> SUFFICES ASSUME Init PROVE AtTheBucket /\ Balanced
  OBVIOUS
<1>1. \A o \in Counters : Passing(o) = {}
  BY DEF Init, Passing
<1>2. IsFiniteSet({}) /\ Cardinality({}) = 0
  BY FS_EmptySet
<1>3. \A o \in Counters : stats[o] = 0 /\ answered[o] = 0
  BY DEF Init, Counters
<1> QED
  BY <1>1, <1>2, <1>3 DEF Init, AtTheBucket, Balanced

LEMMA SpecBalanced == Spec => []Balanced
<1>1. Init => IInv /\ AtTheBucket /\ Balanced
  BY InitIInv, InitBalanced
<1>2. IInv /\ AtTheBucket /\ Balanced /\ [Next]_vars => (IInv /\ AtTheBucket /\ Balanced)'
  BY NextIInv, NextAtTheBucket, NextBalanced
<1> QED
  BY <1>1, <1>2, PTL DEF Spec

\* When no request is under way, Metrics has counted no more successes and failures
\* than were answered, and every one of them when it is outermost and a panic cannot
\* pass it, for every chain and every number of requests (metrics.go:43-62).
THEOREM CountsAreAnswers == Spec => []CountsMatchAnswers
<1>1. IInv /\ Balanced => CountsMatchAnswers
  <2> SUFFICES ASSUME IInv, Balanced, Quiet
               PROVE  /\ stats.success <= answered.success
                      /\ stats.errors <= answered.errors
                      /\ Exact => stats = answered
    BY DEF CountsMatchAnswers, Exact
  <2>1. ASSUME NEW o \in Counters
        PROVE  stats[o] <= answered[o] /\ (Exact => stats[o] = answered[o])
    <3>1. Passing(o) = {}
      BY DEF Quiet, Passing
    <3>2. Cardinality(Passing(o)) = 0
      BY <3>1, FS_EmptySet
    <3>3. stats[o] \in Nat /\ answered[o] \in Nat
      BY DEF IInv, TypeOK, Counters
    <3> QED
      BY <3>2, <3>3 DEF Balanced
  <2>2. /\ stats.success <= answered.success /\ stats.errors <= answered.errors
        /\ Exact => stats.success = answered.success /\ stats.errors = answered.errors
    BY <2>1 DEF Counters
  <2>3. stats \in [success : Nat, errors : Nat] /\ answered \in [success : Nat, errors : Nat]
    BY DEF IInv, TypeOK
  <2> QED
    BY <2>2, <2>3
<1> QED
  BY <1>1, SpecIInv, SpecBalanced, PTL
=============================================================================
