---------------------------- MODULE SessionProofs ----------------------------
(***************************************************************************)
(* Proofs about Session, for any sets of requests and notifications, any   *)
(* number of server-to-client requests and any number of replies to each.  *)
(*                                                                         *)
(* The heart of the inductive invariant is FirstInPlace: from the moment a *)
(* reply to a waiting handler is read until the handler takes it, the      *)
(* first reply is either at the head of the handler's channel or in the    *)
(* hands of the read loop with that channel empty.                         *)
(***************************************************************************)
EXTENDS Session, TLAPS

\* Keys are issued in order; only an issued key is written, replied to, decided.
Issued ==
  /\ \A t \in Tasks : ask[t] <= idCtr
  /\ \A k \in asked : k <= idCtr
  /\ \A k \in Keys : outcome[k] # 0 => k <= idCtr
  /\ \A k \in Keys : replies[k] # 0 => k \in asked

\* A handler's request is undecided until it leaves, and written once it waits.
Undecided ==
  \A t \in Tasks :
    /\ task[t] = "asking" => ask[t] \notin asked /\ outcome[ask[t]] = 0
    /\ task[t] = "waiting" => ask[t] \in asked /\ outcome[ask[t]] = 0

\* What the read loop delivers is the latest reply to its key, and a key
\* without replies has an empty channel.
Delivering ==
  /\ reader = "deliver" =>
       held.key \in Keys /\ held.n = replies[held.key] /\ held.n # 0
  /\ \A k \in Keys : replies[k] = 0 => chan[k] = << >>
  /\ reader = "deliver" /\ held.n = 1 => chan[held.key] = << >>

FirstInPlace ==
  \A t \in Tasks : task[t] = "waiting" /\ replies[ask[t]] # 0 =>
    \/ chan[ask[t]] = <<1>>
    \/ reader = "deliver" /\ held.key = ask[t] /\ held.n = 1

\* The read loop waits for every goroutine before it returns.
Drained == reader = "returned" => \A t \in Tasks : task[t] \notin Active

IInv ==
  /\ TypeOK
  /\ PendingMatchesAskers
  /\ Issued
  /\ Undecided
  /\ Delivering
  /\ FirstInPlace
  /\ FirstReplyWins
  /\ AnsweredExactlyOnce
  /\ Drained

-----------------------------------------------------------------------------
\* A channel of capacity 1 is empty or holds a single reply.
LEMMA OneSlot ==
  ASSUME NEW S, NEW s \in Seq(S), Len(s) <= 1
  PROVE  s = << >> \/ \E x \in S : s = <<x>>
  OBVIOUS

\* Sending to and receiving from such a channel.
LEMMA SlotMoves ==
  ASSUME NEW S, NEW x \in S
  PROVE  /\ Append(<< >>, x) = <<x>>
         /\ Head(<<x>>) = x
         /\ Tail(<<x>>) = << >>
         /\ <<x>> \in Seq(S) /\ << >> \in Seq(S)
         /\ Len(<<x>>) = 1 /\ Len(<< >>) = 0
  OBVIOUS

-----------------------------------------------------------------------------
\* The initial state satisfies the invariant: no key has been issued.
LEMMA InitIInv == Init => IInv
<1> SUFFICES ASSUME Init PROVE IInv
  OBVIOUS
<1> USE SessionAssumption DEF Init, Tasks, Keys
<1>1. TypeOK
  <2>1. held \in [key : 0 .. MaxAsk, n : 0 .. MaxReplies]
    BY DEF NoReply
  <2>2. chan \in [Keys -> Seq(1 .. MaxReplies)] /\ \A k \in Keys : Len(chan[k]) <= 1
    OBVIOUS
  <2>3. /\ idCtr \in 0 .. MaxAsk
        /\ replies \in [Keys -> 0 .. MaxReplies]
        /\ outcome \in [Keys -> 0 .. Failed]
        /\ ask \in [Tasks -> 0 .. MaxAsk]
        /\ task \in [Tasks -> {"unsent", "done"} \cup Active]
        /\ responses \in [Requests -> Nat]
    BY DEF Failed
  <2> QED
    BY <2>1, <2>2, <2>3 DEF TypeOK
<1>2. PendingMatchesAskers /\ Issued /\ Undecided
  BY DEF PendingMatchesAskers, Issued, Undecided, Asking
<1>3. Delivering /\ FirstInPlace /\ FirstReplyWins
  BY DEF Delivering, FirstInPlace, FirstReplyWins
<1>4. AnsweredExactlyOnce /\ Drained
  BY DEF AnsweredExactlyOnce, Drained
<1> QED
  BY <1>1, <1>2, <1>3, <1>4 DEF IInv

-----------------------------------------------------------------------------
(* The read loop.                                                          *)

\* A line that gets a goroutine of its own: the new handler is in no request.
LEMMA ReadTaskIInv ==
  ASSUME IInv, NEW t \in Tasks, ReadTask(t)
  PROVE  IInv'
<1> USE SessionAssumption
    DEF ReadTask, Scanned, readVars, envVars, askVars
<1>1. TypeOK'
  BY DEF IInv, TypeOK, Active
<1>2. PendingMatchesAskers'
  <2>1. \A u \in Tasks : task'[u] \in Asking <=> task[u] \in Asking
    BY DEF IInv, TypeOK, Asking
  <2> QED
    BY <2>1 DEF IInv, PendingMatchesAskers
<1>3. Issued'
  BY DEF IInv, Issued
<1>4. Undecided' /\ FirstInPlace'
  BY DEF IInv, TypeOK, Undecided, FirstInPlace
<1>5. Delivering' /\ FirstReplyWins'
  BY DEF IInv, Delivering, FirstReplyWins
<1>6. AnsweredExactlyOnce' /\ Drained'
  BY DEF IInv, TypeOK, AnsweredExactlyOnce, Drained, Tasks
<1> QED
  BY <1>1, <1>2, <1>3, <1>4, <1>5, <1>6 DEF IInv

\* A reply is read.  It is the first to its key exactly when replies was 0, and
\* then the channel is empty; a handler that waits for it is registered, so the
\* read loop has it in its hands.
LEMMA ReadReplyIInv ==
  ASSUME IInv, NEW k \in Keys, ReadReply(k)
  PROVE  IInv'
<1> USE SessionAssumption
    DEF ReadReply, Scanned, readVars, envVars, askVars
<1>1. TypeOK'
  <2>1. replies' \in [Keys -> 0 .. MaxReplies] /\ replies'[k] \in 0 .. MaxReplies
    BY DEF IInv, TypeOK
  <2>2. held' \in [key : 0 .. MaxAsk, n : 0 .. MaxReplies]
    BY <2>1 DEF IInv, TypeOK, Keys
  <2>3. reader' \in {"scan", "deliver", "report", "drain", "returned"}
    BY DEF IInv, TypeOK
  <2> QED
    BY <2>1, <2>2, <2>3 DEF IInv, TypeOK
<1>2. PendingMatchesAskers'
  BY DEF IInv, PendingMatchesAskers
<1>3. Issued' /\ Undecided'
  BY DEF IInv, TypeOK, Issued, Undecided
<1>4. Delivering'
  BY DEF IInv, TypeOK, Delivering
<1>5. FirstInPlace'
  <2> SUFFICES ASSUME NEW t \in Tasks, task'[t] = "waiting", replies'[ask'[t]] # 0
               PROVE  \/ chan'[ask'[t]] = <<1>>
                      \/ reader' = "deliver" /\ held'.key = ask'[t] /\ held'.n = 1
    BY DEF FirstInPlace
  <2>1. ask[t] \in pending /\ ask[t] \in Keys
    BY DEF IInv, TypeOK, PendingMatchesAskers, Asking, Keys
  <2>2. CASE replies[ask[t]] # 0
    BY <2>2 DEF IInv, FirstInPlace
  <2>3. CASE replies[ask[t]] = 0
    <3>1. ask[t] = k /\ replies'[k] = 1
      BY <2>1, <2>3 DEF IInv, TypeOK
    <3> QED
      BY <2>1, <3>1
  <2> QED
    BY <2>2, <2>3
<1>6. FirstReplyWins'
  BY DEF IInv, TypeOK, FirstReplyWins
<1>7. AnsweredExactlyOnce' /\ Drained'
  BY DEF IInv, AnsweredExactlyOnce, Drained
<1> QED
  BY <1>1, <1>2, <1>3, <1>4, <1>5, <1>6, <1>7 DEF IInv

\* The read loop puts what it holds into an empty channel.
LEMMA DeliverIInv ==
  ASSUME IInv, Deliver
  PROVE  IInv'
<1> USE SessionAssumption DEF Deliver, ChanCap, envVars, askVars
<1>1. /\ held.key \in Keys
      /\ held.n \in 1 .. MaxReplies
      /\ held.n = replies[held.key]
      /\ chan[held.key] = << >>
  <2>1. held.key \in Keys /\ held.n \in 1 .. MaxReplies /\ held.n = replies[held.key]
    BY DEF IInv, TypeOK, Delivering
  <2>2. chan[held.key] \in Seq(1 .. MaxReplies) /\ Len(chan[held.key]) = 0
    BY <2>1 DEF IInv, TypeOK
  <2> QED
    BY <2>1, <2>2
<1>2. chan' = [chan EXCEPT ![held.key] = <<held.n>>]
  BY <1>1, SlotMoves
<1>3. TypeOK'
  <2>1. <<held.n>> \in Seq(1 .. MaxReplies) /\ Len(<<held.n>>) = 1
    BY <1>1, SlotMoves
  <2>2. chan' \in [Keys -> Seq(1 .. MaxReplies)] /\ \A k \in Keys : Len(chan'[k]) <= 1
    BY <1>1, <1>2, <2>1 DEF IInv, TypeOK
  <2>3. held' \in [key : 0 .. MaxAsk, n : 0 .. MaxReplies]
    BY DEF NoReply
  <2> QED
    BY <2>2, <2>3 DEF IInv, TypeOK
<1>4. PendingMatchesAskers' /\ Issued'
  BY DEF IInv, PendingMatchesAskers, Issued
<1>5. Undecided' /\ FirstReplyWins'
  BY DEF IInv, Undecided, FirstReplyWins
<1>6. Delivering'
  BY <1>1, <1>2 DEF IInv, TypeOK, Delivering
<1>7. FirstInPlace'
  <2> SUFFICES ASSUME NEW t \in Tasks, task[t] = "waiting", replies[ask[t]] # 0
               PROVE  chan'[ask[t]] = <<1>>
    BY DEF FirstInPlace
  <2>1. ask[t] \in Keys
    BY DEF IInv, TypeOK, PendingMatchesAskers, Asking, Keys
  <2>2. CASE ask[t] = held.key
    <3>1. chan[ask[t]] # <<1>>
      <4>1. Len(<< >>) # Len(<<1>>)
        BY SlotMoves
      <4> QED
        BY <1>1, <2>2, <4>1
    <3>2. held.n = 1
      BY <3>1 DEF IInv, FirstInPlace
    <3> QED
      BY <1>2, <2>1, <2>2, <3>2 DEF IInv, TypeOK
  <2>3. CASE ask[t] # held.key
    BY <1>2, <2>1, <2>3 DEF IInv, TypeOK, FirstInPlace
  <2> QED
    BY <2>2, <2>3
<1>8. AnsweredExactlyOnce' /\ Drained'
  BY DEF IInv, AnsweredExactlyOnce, Drained
<1> QED
  BY <1>3, <1>4, <1>5, <1>6, <1>7, <1>8 DEF IInv

\* The read loop's other steps, and the environment's: none touches a request,
\* and the read loop neither takes up nor drops a reply.
LEMMA QuietIInv ==
  ASSUME IInv,
         \/ ReadGarbled \/ ReportParseError \/ StopOnCancel \/ StopOnEOF \/ Return
         \/ CancelContext \/ ClientClosesInput \/ ClientStopsReading
         \/ UNCHANGED vars
  PROVE  IInv'
<1> USE SessionAssumption
    DEF ReadGarbled, ReportParseError, StopOnCancel, StopOnEOF, Return, Scanned,
        CancelContext, ClientClosesInput, ClientStopsReading, vars, readVars,
        envVars, askVars
<1>1. UNCHANGED <<held, askVars, task, chan, replies, responses>>
  OBVIOUS
<1>2. reader' = reader \/ (reader # "deliver" /\ reader' # "deliver")
  OBVIOUS
<1>3. outOpen' => outOpen
  BY DEF IInv, TypeOK
<1>4. TypeOK'
  BY DEF IInv, TypeOK
<1>5. PendingMatchesAskers' /\ Issued' /\ Undecided' /\ FirstReplyWins'
  BY <1>1 DEF IInv, PendingMatchesAskers, Issued, Undecided, FirstReplyWins
<1>6. Delivering' /\ FirstInPlace'
  BY <1>1, <1>2 DEF IInv, Delivering, FirstInPlace
<1>7. AnsweredExactlyOnce'
  BY <1>1, <1>3 DEF IInv, AnsweredExactlyOnce
<1>8. Drained'
  BY <1>1 DEF IInv, Drained, InFlight
<1> QED
  BY <1>4, <1>5, <1>6, <1>7, <1>8 DEF IInv

-----------------------------------------------------------------------------
(* A handler goroutine.                                                    *)

\* The fresh key was never asked, replied to, decided or registered.
LEMMA AskIInv ==
  ASSUME IInv, NEW t \in Tasks, Ask(t)
  PROVE  IInv'
<1> USE SessionAssumption DEF Ask, FreshKey, Registered, readVars, envVars
<1>1. /\ idCtr' = idCtr + 1
      /\ idCtr' \in Keys
      /\ ask' = [ask EXCEPT ![t] = idCtr']
      /\ task' = [task EXCEPT ![t] = "asking"]
      /\ pending' = pending \cup {idCtr'}
      /\ UNCHANGED <<reader, held, ctxDone, eof, outOpen, chan, asked, replies,
                     outcome, responses>>
  BY DEF IInv, TypeOK, Keys
<1>2. /\ idCtr' \notin asked
      /\ outcome[idCtr'] = 0
      /\ \A u \in Tasks : ask[u] # idCtr'
  BY <1>1 DEF IInv, TypeOK, Issued
<1> HIDE DEF Ask
<1>3. TypeOK'
  <2>1. idCtr' \in 0 .. MaxAsk /\ pending' \subseteq Keys
    BY <1>1 DEF IInv, TypeOK, Keys
  <2>2. ask' \in [Tasks -> 0 .. MaxAsk]
    BY <1>1 DEF IInv, TypeOK, Keys
  <2>3. task' \in [Tasks -> {"unsent", "done"} \cup Active]
    BY <1>1 DEF IInv, TypeOK, Active, Asking
  <2> QED
    BY <1>1, <2>1, <2>2, <2>3 DEF IInv, TypeOK
<1>4. PendingMatchesAskers'
  <2>1. ask'[t] = idCtr' /\ task'[t] = "asking" /\ idCtr' # 0
    BY <1>1 DEF IInv, TypeOK, Keys
  <2>2. \A u \in Tasks \ {t} : ask'[u] = ask[u] /\ task'[u] = task[u]
    BY <1>1 DEF IInv, TypeOK
  <2>3. ask[t] = 0 /\ task[t] \notin Asking
    BY DEF Ask, IInv, PendingMatchesAskers, Asking
  <2>4. pending' = {ask'[u] : u \in {v \in Tasks : task'[v] \in Asking}}
    BY <1>1, <2>1, <2>2, <2>3 DEF IInv, PendingMatchesAskers, Asking
  <2>5. \A u \in Tasks : ask'[u] # 0 <=> task'[u] \in Asking
    BY <2>1, <2>2 DEF IInv, PendingMatchesAskers, Asking
  <2>6. \A u, v \in Tasks : ask'[u] = ask'[v] /\ ask'[u] # 0 => u = v
    BY <1>2, <2>1, <2>2 DEF IInv, PendingMatchesAskers
  <2> QED
    BY <2>4, <2>5, <2>6 DEF PendingMatchesAskers
<1>5. Issued'
  BY <1>1 DEF IInv, TypeOK, Issued, Keys
<1>6. Undecided'
  BY <1>1, <1>2 DEF IInv, TypeOK, Undecided
<1>7. Delivering' /\ FirstReplyWins'
  BY <1>1 DEF IInv, Delivering, FirstReplyWins
<1>8. FirstInPlace'
  BY <1>1 DEF IInv, TypeOK, FirstInPlace
<1>9. AnsweredExactlyOnce'
  BY <1>1 DEF Ask, IInv, TypeOK, AnsweredExactlyOnce, Tasks
<1>10. Drained'
  BY <1>1 DEF Ask, IInv, TypeOK, Drained, Active
<1> QED
  BY <1>3, <1>4, <1>5, <1>6, <1>7, <1>8, <1>9, <1>10 DEF IInv

\* A handler that moves on inside request() keeps its key and its entry.
LEMMA StaysInRequest ==
  ASSUME IInv, NEW t \in Tasks, task[t] \in Asking,
         \E p \in Asking : task' = [task EXCEPT ![t] = p],
         UNCHANGED <<reader, outOpen, ask, pending, responses>>
  PROVE  PendingMatchesAskers' /\ AnsweredExactlyOnce' /\ Drained' /\ ask[t] \in Keys
<1>1. \A u \in Tasks : task'[u] = task[u] \/ (u = t /\ task'[u] \in Asking)
  BY DEF IInv, TypeOK
<1>2. \A u \in Tasks : task'[u] \in Asking <=> task[u] \in Asking
  BY <1>1
<1>3. PendingMatchesAskers'
  BY <1>2 DEF IInv, PendingMatchesAskers
<1>4. AnsweredExactlyOnce'
  BY <1>1 DEF IInv, AnsweredExactlyOnce, Asking, Tasks
<1>5. Drained'
  BY <1>1 DEF IInv, Drained, Active
<1>6. ask[t] \in Keys
  BY SessionAssumption DEF IInv, TypeOK, PendingMatchesAskers, Keys
<1> QED
  BY <1>3, <1>4, <1>5, <1>6

\* The request line is written: its key has no reply yet.
LEMMA SendAskIInv ==
  ASSUME IInv, NEW t \in Tasks, SendAsk(t)
  PROVE  IInv'
<1> USE SessionAssumption DEF SendAsk, readVars, envVars
<1>1. PendingMatchesAskers' /\ AnsweredExactlyOnce' /\ Drained' /\ ask[t] \in Keys
  BY StaysInRequest DEF Asking
<1>2. replies[ask[t]] = 0
  BY <1>1 DEF IInv, Issued, Undecided
<1>3. TypeOK'
  BY <1>1 DEF IInv, TypeOK, Active, Asking
<1>4. Issued'
  BY DEF IInv, Issued
<1>5. Undecided'
  <2> SUFFICES ASSUME NEW u \in Tasks
               PROVE  /\ task'[u] = "asking" => ask[u] \notin asked' /\ outcome[ask[u]] = 0
                      /\ task'[u] = "waiting" => ask[u] \in asked' /\ outcome[ask[u]] = 0
    BY DEF Undecided
  <2>1. CASE u = t
    BY <2>1 DEF IInv, TypeOK, Undecided
  <2>2. CASE u # t
    <3>1. task'[u] = task[u]
      BY <2>2 DEF IInv, TypeOK
    <3>2. task[u] = "asking" => ask[u] # ask[t]
      BY <2>2, <1>1 DEF IInv, TypeOK, PendingMatchesAskers, Asking, Keys
    <3> QED
      BY <3>1, <3>2 DEF IInv, Undecided
  <2> QED
    BY <2>1, <2>2
<1>6. Delivering' /\ FirstReplyWins'
  BY DEF IInv, Delivering, FirstReplyWins
<1>7. FirstInPlace'
  BY <1>2 DEF IInv, TypeOK, FirstInPlace
<1> QED
  BY <1>1, <1>3, <1>4, <1>5, <1>6, <1>7 DEF IInv

\* request() decides: an error, or the reply at the head of its channel, which
\* FirstInPlace says is the first.  Nobody else is in a request of that key.
LEMMA DecideIInv ==
  ASSUME IInv, NEW t \in Tasks, SendAskFails(t) \/ TakeReply(t) \/ GiveUp(t)
  PROVE  IInv'
<1> USE SessionAssumption DEF SendAskFails, TakeReply, GiveUp, readVars, envVars
<1>1. PendingMatchesAskers' /\ AnsweredExactlyOnce' /\ Drained' /\ ask[t] \in Keys
  BY StaysInRequest DEF Asking
<1>2. PICK o \in 1 .. Failed :
        /\ outcome' = [outcome EXCEPT ![ask[t]] = o]
        /\ o \in 1 .. MaxReplies => o = 1 /\ replies[ask[t]] > 0
  <2>1. CASE TakeReply(t)
    <3>1. replies[ask[t]] # 0
      BY <1>1, <2>1 DEF IInv, Delivering
    <3>2. replies[ask[t]] \in 1 .. MaxReplies
      BY <1>1, <3>1 DEF IInv, TypeOK
    <3>3. chan[ask[t]] = <<1>>
      BY <1>1, <2>1, <3>1 DEF IInv, Delivering, FirstInPlace
    <3>4. Head(<<1>>) = 1 /\ 1 \in 1 .. Failed
      BY SlotMoves DEF Failed
    <3>5. outcome' = [outcome EXCEPT ![ask[t]] = 1]
      BY <2>1, <3>3, <3>4
    <3>6. replies[ask[t]] > 0 /\ 1 \in 1 .. Failed
      BY <3>2, <3>4
    <3> HIDE DEF SendAskFails, TakeReply, GiveUp
    <3> QED
      BY <3>5, <3>6
  <2>2. CASE SendAskFails(t)
    <3>1. Failed \in 1 .. Failed /\ ~ (Failed \in 1 .. MaxReplies)
      BY DEF Failed
    <3>2. outcome' = [outcome EXCEPT ![ask[t]] = Failed]
      BY <2>2
    <3> QED
      BY <3>1, <3>2
  <2>3. CASE GiveUp(t)
    <3>1. Cancelled \in 1 .. Failed /\ ~ (Cancelled \in 1 .. MaxReplies)
      BY DEF Cancelled, Failed
    <3>2. outcome' = [outcome EXCEPT ![ask[t]] = Cancelled]
      BY <2>3
    <3> QED
      BY <3>1, <3>2
  <2> QED
    BY <2>1, <2>2, <2>3
<1>3. \E w \in {chan, [chan EXCEPT ![ask[t]] = << >>]} : chan' = w
  <2>1. CASE TakeReply(t)
    <3>1. chan[ask[t]] \in Seq(1 .. MaxReplies) /\ Len(chan[ask[t]]) <= 1
      BY <1>1 DEF IInv, TypeOK
    <3>2. PICK x \in 1 .. MaxReplies : chan[ask[t]] = <<x>>
      BY <2>1, <3>1, OneSlot
    <3>3. Tail(chan[ask[t]]) = << >>
      BY <3>2, SlotMoves
    <3> QED
      BY <2>1, <3>3
  <2> QED
    BY <2>1
<1>4. /\ task[t] \in {"asking", "waiting"}
      /\ task' = [task EXCEPT ![t] = "leaving"]
      /\ UNCHANGED <<reader, held, ctxDone, eof, outOpen, ask, idCtr, pending, asked,
                     replies, responses>>
  OBVIOUS
<1>5. \A u \in Tasks \ {t} : task'[u] = task[u]
                             /\ (task[u] \in Asking => ask[u] # ask[t] /\ ask[u] \in Keys)
  BY <1>1, <1>4 DEF IInv, TypeOK, PendingMatchesAskers, Asking, Keys
<1>6. task'[t] = "leaving"
  BY <1>4 DEF IInv, TypeOK
<1>7. TypeOK'
  <2>1. chan' \in [Keys -> Seq(1 .. MaxReplies)] /\ \A k \in Keys : Len(chan'[k]) <= 1
    <3>1. << >> \in Seq(1 .. MaxReplies) /\ Len(<< >>) = 0
      OBVIOUS
    <3>2. CASE chan' = chan
      BY <3>2 DEF IInv, TypeOK
    <3>3. CASE chan' = [chan EXCEPT ![ask[t]] = << >>]
      BY <1>1, <3>1, <3>3 DEF IInv, TypeOK
    <3> QED
      BY <1>3, <3>2, <3>3
  <2>2. outcome' \in [Keys -> 0 .. Failed]
    BY <1>1, <1>2 DEF IInv, TypeOK, Failed
  <2>3. task' \in [Tasks -> {"unsent", "done"} \cup Active]
    BY <1>4 DEF IInv, TypeOK, Active, Asking
  <2> QED
    BY <1>4, <2>1, <2>2, <2>3 DEF IInv, TypeOK
<1>8. Issued'
  BY <1>1, <1>2, <1>4 DEF IInv, TypeOK, Issued
<1>9. Undecided'
  BY <1>1, <1>2, <1>4, <1>5, <1>6 DEF IInv, TypeOK, Undecided, Asking
<1>10. Delivering'
  BY <1>1, <1>3, <1>4 DEF IInv, TypeOK, Delivering
<1>11. FirstInPlace'
  BY <1>1, <1>3, <1>4, <1>5, <1>6 DEF IInv, TypeOK, FirstInPlace, Asking
<1>12. FirstReplyWins'
  BY <1>1, <1>2, <1>4 DEF IInv, TypeOK, FirstReplyWins
<1> QED
  BY <1>1, <1>7, <1>8, <1>9, <1>10, <1>11, <1>12 DEF IInv

\* The deferred delete takes this handler's entry off the map and no other.
LEMMA LeaveIInv ==
  ASSUME IInv, NEW t \in Tasks, Leave(t)
  PROVE  IInv'
<1> USE SessionAssumption DEF Leave, Deregistered, readVars, envVars
<1>1. \A u \in Tasks \ {t} : task'[u] = task[u] /\ ask'[u] = ask[u]
  BY DEF IInv, TypeOK
<1>2. task'[t] = "running" /\ ask'[t] = 0
  BY DEF IInv, TypeOK
<1>3. TypeOK'
  <2>1. task' \in [Tasks -> {"unsent", "done"} \cup Active]
    BY DEF IInv, TypeOK, Active
  <2>2. ask' \in [Tasks -> 0 .. MaxAsk]
    BY DEF IInv, TypeOK
  <2> QED
    BY <2>1, <2>2 DEF IInv, TypeOK
<1>4. PendingMatchesAskers'
  <2>1. \A u, v \in Tasks : ask'[u] = ask'[v] /\ ask'[u] # 0 => u = v
    BY <1>1, <1>2 DEF IInv, PendingMatchesAskers
  <2>2. \A u \in Tasks : ask'[u] # 0 <=> task'[u] \in Asking
    BY <1>1, <1>2 DEF IInv, PendingMatchesAskers, Asking
  <2>3. \A u \in Tasks \ {t} : task[u] \in Asking => ask[u] # ask[t]
    BY DEF IInv, PendingMatchesAskers
  <2>4. pending' = {ask'[u] : u \in {v \in Tasks : task'[v] \in Asking}}
    BY <1>1, <1>2, <2>3 DEF IInv, PendingMatchesAskers, Asking
  <2> QED
    BY <2>1, <2>2, <2>4 DEF PendingMatchesAskers
<1>5. Issued'
  BY <1>1, <1>2 DEF IInv, TypeOK, Issued
<1>6. Undecided' /\ FirstInPlace'
  BY <1>1, <1>2 DEF IInv, Undecided, FirstInPlace
<1>7. Delivering' /\ FirstReplyWins'
  BY DEF IInv, Delivering, FirstReplyWins
<1>8. AnsweredExactlyOnce'
  BY <1>1, <1>2 DEF IInv, AnsweredExactlyOnce, Tasks
<1>9. Drained'
  BY DEF IInv, Drained, Active, Asking
<1> QED
  BY <1>3, <1>4, <1>5, <1>6, <1>7, <1>8, <1>9 DEF IInv

\* The handler returns, and its response is written at most once.
LEMMA RespondIInv ==
  ASSUME IInv, NEW t \in Tasks, Finish(t) \/ Respond(t)
  PROVE  IInv'
<1> USE SessionAssumption DEF Finish, Respond, HasResponse, readVars, envVars, askVars
<1>1. /\ UNCHANGED <<reader, held, ctxDone, eof, outOpen, askVars, chan, replies>>
      /\ task[t] \in {"running", "responding"}
      /\ \E p \in {"responding", "done"} : task' = [task EXCEPT ![t] = p]
  OBVIOUS
<1>2. \A u \in Tasks \ {t} : task'[u] = task[u]
  BY <1>1 DEF IInv, TypeOK
<1>3. task'[t] \in {"responding", "done"}
  BY <1>1 DEF IInv, TypeOK
<1>4. TypeOK'
  <2>1. task' \in [Tasks -> {"unsent", "done"} \cup Active]
    BY <1>1 DEF IInv, TypeOK, Active
  <2>2. responses' \in [Requests -> Nat]
    <3>1. responses' \in {responses, [responses EXCEPT ![t] = responses[t] + 1]}
      OBVIOUS
    <3>2. responses \in [Requests -> Nat]
      BY DEF IInv, TypeOK
    <3>3. t \in Requests => responses[t] + 1 \in Nat
      BY <3>2
    <3>4. [responses EXCEPT ![t] = responses[t] + 1] \in [Requests -> Nat]
      BY <3>2, <3>3
    <3> QED
      BY <3>1, <3>2, <3>4
  <2> QED
    BY <1>1, <2>1, <2>2 DEF IInv, TypeOK
<1>5. PendingMatchesAskers'
  <2>1. \A u \in Tasks : task'[u] \in Asking <=> task[u] \in Asking
    BY <1>1, <1>2, <1>3 DEF Asking
  <2> QED
    BY <1>1, <2>1 DEF IInv, PendingMatchesAskers
<1>6. Issued' /\ Delivering' /\ FirstReplyWins'
  BY <1>1 DEF IInv, Issued, Delivering, FirstReplyWins
<1>7. Undecided' /\ FirstInPlace'
  BY <1>1, <1>2, <1>3 DEF IInv, Undecided, FirstInPlace
<1>8. AnsweredExactlyOnce'
  <2> SUFFICES ASSUME NEW r \in Requests
               PROVE  /\ responses'[r] <= 1
                      /\ responses'[r] = 1 => task'[r] = "done"
                      /\ task'[r] = "done" /\ outOpen' => responses'[r] = 1
    BY DEF AnsweredExactlyOnce
  <2>1. CASE r # t
    BY <1>2, <2>1 DEF IInv, TypeOK, AnsweredExactlyOnce, Tasks
  <2>2. CASE r = t
    <3>1. responses[r] = 0 /\ responses \in [Requests -> Nat]
      BY <1>1, <2>2 DEF IInv, TypeOK, AnsweredExactlyOnce
    <3>2. CASE Finish(t)
      BY <2>2, <3>1, <3>2 DEF IInv, TypeOK
    <3>3. CASE Respond(t)
      BY <2>2, <3>1, <3>3 DEF IInv, TypeOK
    <3> QED
      BY <3>2, <3>3
  <2> QED
    BY <2>1, <2>2
<1>9. Drained'
  BY <1>1 DEF IInv, Drained, Active
<1> QED
  BY <1>4, <1>5, <1>6, <1>7, <1>8, <1>9 DEF IInv

-----------------------------------------------------------------------------
\* Every step preserves the invariant.
LEMMA NextIInv == IInv /\ [Next]_vars => IInv'
<1> SUFFICES ASSUME IInv, [Next]_vars PROVE IInv'
  OBVIOUS
<1>1. ASSUME NEW t \in Tasks, ReadTask(t) \/ HandlerStep(t)
      PROVE  IInv'
  BY <1>1, ReadTaskIInv, AskIInv, SendAskIInv, DecideIInv, LeaveIInv, RespondIInv
  DEF HandlerStep
<1>2. CASE \E k \in Keys : ReadReply(k)
  BY <1>2, ReadReplyIInv
<1>3. CASE Deliver
  BY <1>3, DeliverIInv
<1>4. CASE \/ ReadGarbled \/ ReportParseError \/ StopOnCancel \/ StopOnEOF \/ Return
           \/ CancelContext \/ ClientClosesInput \/ ClientStopsReading
           \/ UNCHANGED vars
  BY <1>4, QuietIInv
<1> QED
  BY <1>1, <1>2, <1>3, <1>4 DEF Next, ReadLoopStep

\* The session keeps its inductive invariant.
LEMMA SpecIInv == Spec => []IInv
  BY InitIInv, NextIInv, PTL DEF Spec

-----------------------------------------------------------------------------
\* Every variable of the session keeps its type, whatever the client sends.
THEOREM TypeCorrect == Spec => []TypeOK
<1>1. IInv => TypeOK
  BY DEF IInv
<1> QED
  BY <1>1, SpecIInv, PTL

\* session.pending holds the keys of the requests handlers are inside, each its
\* own: the deferred delete leaks nothing.
THEOREM PendingIsExact == Spec => []PendingMatchesAskers
<1>1. IInv => PendingMatchesAskers
  BY DEF IInv
<1> QED
  BY <1>1, SpecIInv, PTL

\* request() returns the first reply to its own id, whatever the client repeats.
THEOREM RequestReturnsFirstReply == Spec => []FirstReplyWins
<1>1. IInv => FirstReplyWins
  BY DEF IInv
<1> QED
  BY <1>1, SpecIInv, PTL

\* The one-slot channel always has room for the first reply: a client that
\* replies once cannot block the read loop, whether or not the handler waits.
THEOREM FirstReplyFindsRoom == Spec => []FirstReplyNeverBlocks
<1>1. IInv => FirstReplyNeverBlocks
  BY DEF IInv, Delivering, FirstReplyNeverBlocks, ChanCap
<1> QED
  BY <1>1, SpecIInv, PTL

\* Each request gets one response, and only when its handler has returned.
THEOREM OneResponseEach == Spec => []AnsweredExactlyOnce
<1>1. IInv => AnsweredExactlyOnce
  BY DEF IInv
<1> QED
  BY <1>1, SpecIInv, PTL

\* When ServeStdio has returned, no handler runs and nothing is registered.
THEOREM NothingOutlivesServe == Spec => []ServeWaitsForHandlers
<1>1. IInv => ServeWaitsForHandlers
  BY DEF IInv, Drained, PendingMatchesAskers, ServeWaitsForHandlers, Active
<1> QED
  BY <1>1, SpecIInv, PTL

\* Once ServeStdio has returned no response or request is written and nothing is
\* registered, so its caller may close the writer.
THEOREM ReturnedIsSilent == Spec => SilentAfterReturn
<1>1. IInv /\ [Next]_vars =>
        (reader = "returned" => UNCHANGED <<responses, asked, pending>>)
  <2> SUFFICES ASSUME IInv, [Next]_vars, reader = "returned"
               PROVE  UNCHANGED <<responses, asked, pending>>
    OBVIOUS
  <2>1. \A t \in Tasks : task[t] \notin Active
    BY DEF IInv, Drained
  <2>2. ASSUME NEW t \in Tasks, HandlerStep(t) PROVE FALSE
    BY <2>1, <2>2
    DEF HandlerStep, Ask, SendAsk, SendAskFails, TakeReply, GiveUp, Leave, Finish,
        Respond, Active, Asking
  <2>3. ~ ReadLoopStep
    BY DEF ReadLoopStep, ReadTask, ReadReply, Deliver, ReadGarbled, ReportParseError,
           StopOnCancel, StopOnEOF, Return, Scanned
  <2>4. CASE CancelContext \/ ClientClosesInput \/ ClientStopsReading
             \/ UNCHANGED vars
    BY <2>4 DEF CancelContext, ClientClosesInput, ClientStopsReading, vars, askVars
  <2> QED
    BY <2>2, <2>3, <2>4 DEF Next
<1> QED
  BY <1>1, SpecIInv, PTL DEF Spec, SilentAfterReturn

-----------------------------------------------------------------------------
(* Session implements Exchange: an exchange is a server-to-client request,  *)
(* identified by its key.  Ask opens it, the read loop's ReadReply is the   *)
(* peer's reply, the three ways out of the select end it, cancelling the    *)
(* context is the end, and everything else is a stutter.                    *)

\* How idCtr and outcome read as the state of an exchange.
LEMMA StatusCases ==
  ASSUME NEW k \in Keys
  PROVE  /\ k \notin UsedKeys => StatusOf(k) = "idle"
         /\ k \in UsedKeys /\ outcome[k] = 0 => StatusOf(k) = "open"
         /\ k \in UsedKeys => StatusOf(k) # "idle"
<1>1. 1 \notin {Cancelled, Failed} /\ 0 \notin {Cancelled, Failed}
  BY SessionAssumption DEF Cancelled, Failed
<1> QED
  BY <1>1 DEF StatusOf

\* The initial states correspond.
LEMMA InitRefines == Init => X!Init
<1> SUFFICES ASSUME Init PROVE X!Init
  OBVIOUS
<1>1. \A k \in Keys : k \notin UsedKeys
  BY SessionAssumption DEF Init, UsedKeys, Keys
<1>2. \A k \in Keys : StatusOf(k) = "idle"
  BY <1>1, StatusCases
<1> QED
  BY <1>2 DEF Init, X!Init, ExchangeStatus

\* A step that issues and decides no key, reads no reply and leaves the context
\* alone is a stutter.
LEMMA QuietStep ==
  ASSUME UNCHANGED <<idCtr, outcome, replies, ctxDone>>
  PROVE  UNCHANGED X!vars
  BY DEF X!vars, ExchangeStatus, StatusOf, UsedKeys

\* A fresh key opens its exchange and moves no other.
LEMMA AskRefines ==
  ASSUME IInv, NEW t \in Tasks, Ask(t)
  PROVE  \E k \in Keys : X!Open(k)
<1> USE SessionAssumption DEF Ask, FreshKey, envVars
<1>1. PICK k \in Keys : k = idCtr + 1
  BY DEF IInv, TypeOK, Keys
<1>2. k \notin UsedKeys /\ UsedKeys' = UsedKeys \cup {k} /\ outcome'[k] = 0
  BY <1>1 DEF IInv, TypeOK, Issued, UsedKeys, Keys
<1>3. UNCHANGED <<outcome, replies, ctxDone>>
  OBVIOUS
<1> HIDE DEF Ask
<1>4. ExchangeStatus[k] = "idle"
  BY <1>2, StatusCases DEF ExchangeStatus
<1>5. StatusOf(k)' = "open"
  <2>1. ~ (0 = 1) /\ 0 \notin {Cancelled, Failed}
    BY DEF Cancelled, Failed
  <2>2. k \in UsedKeys'
    BY <1>2
  <2> QED
    BY <1>2, <2>1, <2>2 DEF StatusOf
<1>6. \A j \in Keys \ {k} : StatusOf(j)' = StatusOf(j)
  BY <1>2, <1>3 DEF StatusOf
<1>7. ExchangeStatus' = [ExchangeStatus EXCEPT ![k] = "open"]
  BY <1>5, <1>6 DEF ExchangeStatus
<1> QED
  BY <1>3, <1>4, <1>7 DEF X!Open

\* A reply that is read is a reply to an exchange that was opened.
LEMMA ReadReplyRefines ==
  ASSUME IInv, NEW k \in Keys, ReadReply(k)
  PROVE  X!PeerReplies(k)
<1> USE SessionAssumption DEF ReadReply, Scanned, envVars, askVars
<1>1. k \in UsedKeys
  BY DEF IInv, TypeOK, Issued, UsedKeys, Keys
<1>2. StatusOf(k) # "idle"
  BY <1>1, StatusCases
<1>3. UNCHANGED ExchangeStatus
  BY DEF ExchangeStatus, StatusOf, UsedKeys
<1>4. {j \in Keys : replies'[j] > 0} = {j \in Keys : replies[j] > 0} \cup {k}
  BY DEF IInv, TypeOK
<1> QED
  BY <1>2, <1>3, <1>4 DEF X!PeerReplies, ExchangeStatus

\* What decides a key ends the exchange of that key and moves no other.
LEMMA DecideStatus ==
  ASSUME IInv, NEW k \in Keys, NEW o \in {1, Cancelled, Failed},
         k \in asked \/ (\E t \in Tasks : ask[t] = k),
         outcome[k] = 0,
         outcome' = [outcome EXCEPT ![k] = o],
         UNCHANGED idCtr
  PROVE  /\ ExchangeStatus[k] = "open"
         /\ ExchangeStatus' = [ExchangeStatus EXCEPT
                                 ![k] = IF o = 1 THEN "answered" ELSE "failed"]
<1> USE SessionAssumption
<1>1. k \in UsedKeys /\ UsedKeys' = UsedKeys
  BY DEF IInv, TypeOK, Issued, UsedKeys, Keys
<1>2. ExchangeStatus[k] = "open"
  BY <1>1, StatusCases DEF ExchangeStatus
<1>3. outcome'[k] = o /\ \A j \in Keys \ {k} : outcome'[j] = outcome[j]
  BY DEF IInv, TypeOK
<1>4. StatusOf(k)' = IF o = 1 THEN "answered" ELSE "failed"
  <2>1. 1 \notin {Cancelled, Failed} /\ 0 \notin {Cancelled, Failed} /\ ~ (0 = 1)
    BY DEF Cancelled, Failed
  <2>2. k \in UsedKeys'
    BY <1>1
  <2>3. CASE o = 1
    BY <1>3, <2>1, <2>2, <2>3 DEF StatusOf
  <2>4. CASE o \in {Cancelled, Failed}
    <3>1. o # 0 /\ o # 1
      BY <2>1, <2>4
    <3> QED
      BY <1>3, <2>2, <2>4, <3>1 DEF StatusOf
  <2> QED
    BY <2>3, <2>4
<1>5. \A j \in Keys \ {k} : StatusOf(j)' = StatusOf(j)
  BY <1>1, <1>3 DEF StatusOf
<1> QED
  BY <1>2, <1>4, <1>5 DEF ExchangeStatus

\* The three ways out of session.request end its exchange.
LEMMA DecideRefines ==
  ASSUME IInv, NEW t \in Tasks, SendAskFails(t) \/ TakeReply(t) \/ GiveUp(t)
  PROVE  \E k \in Keys : X!Answer(k) \/ X!Fail(k)
<1> USE SessionAssumption
<1>1. ask[t] \in Keys /\ outcome[ask[t]] = 0
  BY DEF SendAskFails, TakeReply, GiveUp, IInv, TypeOK, PendingMatchesAskers,
         Undecided, Asking, Keys
<1>2. UNCHANGED <<idCtr, replies, ctxDone>>
  BY DEF SendAskFails, TakeReply, GiveUp, envVars
<1>3. CASE SendAskFails(t) \/ GiveUp(t)
  <2>1. PICK o \in {Cancelled, Failed} : outcome' = [outcome EXCEPT ![ask[t]] = o]
    BY <1>3 DEF SendAskFails, GiveUp
  <2>2. o # 1
    BY DEF Cancelled, Failed
  <2>3. X!Fail(ask[t])
    BY <1>1, <1>2, <2>1, <2>2, DecideStatus DEF X!Fail
  <2> QED
    BY <1>1, <2>3
<1>4. CASE TakeReply(t)
  <2>1. replies[ask[t]] > 0
    BY <1>1, <1>4 DEF TakeReply, IInv, TypeOK, Delivering
  <2>2. chan[ask[t]] = <<1>>
    BY <1>1, <1>4, <2>1 DEF TakeReply, IInv, TypeOK, Delivering, FirstInPlace
  <2>3. outcome' = [outcome EXCEPT ![ask[t]] = 1]
    BY <1>4, <2>2, SlotMoves DEF TakeReply
  <2>4. X!Answer(ask[t])
    BY <1>1, <1>2, <2>1, <2>3, DecideStatus DEF X!Answer
  <2> QED
    BY <1>1, <2>4
<1> QED
  BY <1>3, <1>4

\* Every step of the session is a step of Exchange or a stutter.
LEMMA StepRefines == IInv /\ [Next]_vars => [X!Next]_(X!vars)
<1> SUFFICES ASSUME IInv, [Next]_vars PROVE X!Next \/ UNCHANGED X!vars
  OBVIOUS
<1>1. ASSUME NEW t \in Tasks, HandlerStep(t)
      PROVE  X!Next \/ UNCHANGED X!vars
  <2>1. CASE Ask(t)
    BY <2>1, AskRefines DEF X!Next
  <2>2. CASE SendAskFails(t) \/ TakeReply(t) \/ GiveUp(t)
    BY <2>2, DecideRefines DEF X!Next
  <2>3. CASE SendAsk(t) \/ Leave(t)
    BY <2>3, QuietStep DEF SendAsk, Leave, envVars
  <2>4. CASE Finish(t) \/ Respond(t)
    BY <2>4, QuietStep DEF Finish, Respond, envVars, askVars
  <2> QED
    BY <1>1, <2>1, <2>2, <2>3, <2>4 DEF HandlerStep
<1>2. CASE \E k \in Keys : ReadReply(k)
  BY <1>2, ReadReplyRefines DEF X!Next
<1>3. CASE CancelContext
  <2>1. UNCHANGED <<idCtr, outcome, replies>> /\ ctxDone' = TRUE
    BY <1>3 DEF CancelContext, askVars
  <2>2. UNCHANGED ExchangeStatus
    BY <2>1 DEF ExchangeStatus, StatusOf, UsedKeys
  <2> QED
    BY <2>1, <2>2 DEF X!Next, X!End
<1>4. CASE (\E t \in Tasks : ReadTask(t)) \/ Deliver \/ ReadGarbled \/ ReportParseError
  BY <1>4, QuietStep
  DEF ReadTask, Deliver, ReadGarbled, ReportParseError, envVars, askVars
<1>5. CASE \/ StopOnCancel \/ StopOnEOF \/ Return
           \/ ClientClosesInput \/ ClientStopsReading \/ UNCHANGED vars
  BY <1>5, QuietStep
  DEF StopOnCancel, StopOnEOF, Return, ClientClosesInput, ClientStopsReading, vars,
      envVars, askVars
<1> QED
  BY <1>1, <1>2, <1>3, <1>4, <1>5 DEF Next, ReadLoopStep

\* session.request implements the safety part of Exchange, for any number of
\* handlers, requests and repeated replies.
THEOREM SessionImplementsExchange == Spec => ImplementsExchangeSafety
  BY InitRefines, StepRefines, SpecIInv, PTL
  DEF Spec, ImplementsExchangeSafety, X!Safety
=============================================================================
