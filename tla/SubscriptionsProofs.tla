------------------------- MODULE SubscriptionsProofs -------------------------
(***************************************************************************)
(* Who is notified, for any sessions, streams, calls and requests.         *)
(*                                                                         *)
(* A session that shows any sign of work, which is more than its client    *)
(* hears, is in the set that is copied until it is removed (AtWorkIsIn),   *)
(* and no step between the copy and the write takes an open session out of *)
(* the call's hands (ListsComing).  A resource update is decided by each   *)
(* session's subscription at the time the loop comes to it; what that says *)
(* to the client is fixed by the answers it got (Decided), if it waits for *)
(* each (OneAtATime).                                                      *)
(***************************************************************************)
EXTENDS Subscriptions, TLAPS

\* A request of the session was handled, or a call has it in its copy or wrote to it.
AtWork(s) ==
  \/ s \in Stdio /\ \E i \in DOMAIN opState[s] : opState[s][i] # "handling"
  \/ \E b \in Calls : s \in todo[b] \cup at[b] \cup got[b]

\* A session at work is in Server.sessions until it is removed.
AtWorkIsIn == \A s \in Clients : AtWork(s) /\ life[s] # "removed" => s \in sessions

\* A call owes nothing to a client that has left.
OwedAreOpen == \A b \in Calls : \A s \in owed[b] : life[s] = "open"

\* What a list change owes is still to come, about to be written or written.
ListsComing ==
  \A b \in ListChanges :
    /\ phase[b] = "looping" => owed[b] \cap heard[b] \subseteq todo[b] \cup at[b] \cup got[b]
    /\ phase[b] = "returned" => owed[b] \cap heard[b] \subseteq got[b]

\* A call is about to write to at most one session.
OneWrite == \A b \in Calls : \A s, u \in at[b] : s = u

IInv == TypeOK /\ OneWrite /\ AtWorkIsIn /\ OwedAreOpen /\ ListsComing

-----------------------------------------------------------------------------
\* The initial state satisfies the invariant.
LEMMA InitIInv == Init => IInv
BY SubscriptionsAssumption
   DEF Init, IInv, TypeOK, AtWorkIsIn, AtWork, OwedAreOpen, ListsComing, OneWrite, Clients, Calls

\* Sessions that come and go (Open, AddSession, Disconnect, Remove).
LEMMA SessionIInv ==
  ASSUME IInv, NEW s \in Clients, Open(s) \/ AddSession(s) \/ Disconnect(s) \/ Remove(s)
  PROVE  IInv'
<1>1. UNCHANGED <<subs, ops, opState, phase, todo, at, got, heard, allowed>>
  BY DEF Open, AddSession, Disconnect, Remove, opVars, callVars, history
<1>2. TypeOK'
  <2>1. life' \in [Clients -> {"new", "open", "ending", "removed"}] /\ sessions' \subseteq Clients
    BY DEF IInv, TypeOK, Open, AddSession, Disconnect, Remove
  <2>2. owed' \in [Calls -> SUBSET Clients]
    BY DEF IInv, TypeOK, Open, AddSession, Disconnect, Remove, history
  <2> QED BY <1>1, <2>1, <2>2 DEF IInv, TypeOK
<1>3. AtWorkIsIn'
  <2>1. \A u \in Clients : AtWork(u)' <=> AtWork(u)
    BY <1>1 DEF AtWork
  <2>2. \A u \in Clients : life'[u] # "removed" =>
          life[u] # "removed" /\ (u \in sessions => u \in sessions')
    BY DEF IInv, TypeOK, Open, AddSession, Disconnect, Remove
  <2> QED BY <2>1, <2>2 DEF IInv, AtWorkIsIn
<1>4. \A b \in Calls : owed'[b] \subseteq owed[b] /\ \A x \in owed'[b] : life'[x] = "open"
  BY DEF IInv, TypeOK, OwedAreOpen, Open, AddSession, Disconnect, Remove, history
<1> QED BY <1>1, <1>2, <1>3, <1>4 DEF IInv, OneWrite, OwedAreOpen, ListsComing, Calls

\* Requests sent and handled (Send, Apply, Answer).
LEMMA RequestIInv ==
  ASSUME IInv, NEW s \in Clients,
         (\E kind \in Kinds : Send(s, kind)) \/ HandlerStep(s)
  PROVE  IInv'
<1>1. UNCHANGED <<life, sessions, phase, todo, at, got>>
  BY DEF HandlerStep, Send, Apply, Answer, callVars
<1>2. /\ owed' \in [Calls -> SUBSET Clients]
      /\ \A b \in Calls : owed'[b] \subseteq owed[b]
  <2>1. \/ owed' = owed
        \/ owed' = [b \in Calls |-> IF b \in Updates THEN owed[b] \ {s} ELSE owed[b]]
    BY DEF HandlerStep, Send, Apply, Answer, history
  <2>2. owed \in [Calls -> SUBSET Clients]
    BY DEF IInv, TypeOK
  <2> QED BY <2>1, <2>2
<1>3. allowed' \in [Calls -> SUBSET Clients] /\ heard' = heard
  <2>1. CASE \E kind \in Kinds : Send(s, kind)
    BY <2>1 DEF IInv, TypeOK, Send
  <2>2. CASE \E i \in DOMAIN opState[s] : Apply(s, i)
    BY <2>2 DEF IInv, TypeOK, Apply, history
  <2>3. CASE \E i \in DOMAIN opState[s] : Answer(s, i)
    <3>1. PICK i \in DOMAIN opState[s] : Answer(s, i)
      BY <2>3
    <3> QED BY <3>1 DEF IInv, TypeOK, Answer
  <2> QED BY <2>1, <2>2, <2>3 DEF HandlerStep
<1>4. subs' \subseteq Stdio
  BY SubscriptionsAssumption
     DEF IInv, TypeOK, HandlerStep, Send, Apply, Answer, Recorded, Clients
<1> DEFINE short(c, sent, states) == Len(sent[c]) = Len(states[c]) /\ Len(sent[c]) <= MaxOps[c]
<1>0. /\ ops \in [Clients -> Seq(Kinds)]
      /\ opState \in [Clients -> Seq({"handling", "applied", "answered"})]
      /\ \A c \in Clients : short(c, ops, opState)
  BY DEF IInv, TypeOK
<1>5. /\ ops' \in [Clients -> Seq(Kinds)]
      /\ opState' \in [Clients -> Seq({"handling", "applied", "answered"})]
      /\ \A c \in Clients : short(c, ops', opState')
  <2>1. CASE \E kind \in Kinds : Send(s, kind)
    <3>1. PICK kind \in Kinds : Send(s, kind)
      BY <2>1
    <3>2. /\ ops[s] \in Seq(Kinds) /\ opState[s] \in Seq({"handling", "applied", "answered"})
          /\ Len(ops[s]) = Len(opState[s]) /\ Len(ops[s]) < MaxOps[s] /\ MaxOps[s] \in Nat
      BY <3>1, SubscriptionsAssumption DEF IInv, TypeOK, Send, Clients
    <3>3. /\ Append(ops[s], kind) \in Seq(Kinds) /\ Len(Append(ops[s], kind)) = Len(ops[s]) + 1
          /\ Append(opState[s], "handling") \in Seq({"handling", "applied", "answered"})
          /\ Len(Append(opState[s], "handling")) = Len(opState[s]) + 1
      BY <3>2
    <3>4. /\ ops' = [ops EXCEPT ![s] = Append(ops[s], kind)]
          /\ opState' = [opState EXCEPT ![s] = Append(opState[s], "handling")]
      BY <3>1 DEF Send
    <3>5. Len(Append(ops[s], kind)) <= MaxOps[s]
      BY <3>2, <3>3
    <3>6. \A c \in Clients : c # s => ops'[c] = ops[c] /\ opState'[c] = opState[c]
      BY <1>0, <3>4
    <3>7. ops'[s] = Append(ops[s], kind) /\ opState'[s] = Append(opState[s], "handling")
      BY <1>0, <3>4
    <3>8. short(s, ops', opState')
      BY <3>2, <3>3, <3>5, <3>7
    <3>9. \A c \in Clients : short(c, ops', opState')
      BY <1>0, <3>6, <3>8
    <3> HIDE DEF short
    <3> QED BY <1>0, <3>2, <3>3, <3>4, <3>9
  <2>2. CASE HandlerStep(s)
    <3>1. PICK i \in DOMAIN opState[s] : Apply(s, i) \/ Answer(s, i)
      BY <2>2 DEF HandlerStep
    <3>2. PICK v \in {"applied", "answered"} :
             opState' = [opState EXCEPT ![s][i] = v] /\ ops' = ops
      BY <3>1 DEF Apply, Answer
    <3>3. /\ [opState[s] EXCEPT ![i] = v] \in Seq({"handling", "applied", "answered"})
          /\ Len([opState[s] EXCEPT ![i] = v]) = Len(opState[s])
      BY DEF IInv, TypeOK
    <3>4. opState' = [opState EXCEPT ![s] = [opState[s] EXCEPT ![i] = v]]
      BY <3>2
    <3>5. \A c \in Clients : ops'[c] = ops[c] /\ Len(opState'[c]) = Len(opState[c])
      BY <1>0, <3>2, <3>3, <3>4
    <3>6. \A c \in Clients : short(c, ops', opState')
      BY <1>0, <3>5
    <3> HIDE DEF short
    <3> QED BY <1>0, <3>2, <3>3, <3>4, <3>6
  <2> QED BY <2>1, <2>2
<1>6. TypeOK'
  <2>1. \A c \in Clients : Len(ops'[c]) = Len(opState'[c]) /\ Len(ops'[c]) <= MaxOps'[c]
    BY <1>5
  <2> QED BY ONLY IInv, <1>1, <1>2, <1>3, <1>4, <1>5, <2>1 DEF IInv, TypeOK, Clients, Calls
<1>7. AtWorkIsIn'
  <2>1. CASE \E kind \in Kinds : Send(s, kind)
    <3>1. PICK kind \in Kinds : Send(s, kind)
      BY <2>1
    <3>2. opState' = [opState EXCEPT ![s] = Append(@, "handling")]
      BY <3>1 DEF Send
    <3>3. opState[s] \in Seq({"handling", "applied", "answered"})
      BY DEF IInv, TypeOK
    <3>4. \A u \in Clients \ {s} : opState'[u] = opState[u]
      BY <3>2 DEF IInv, TypeOK
    <3>5. opState'[s] = Append(opState[s], "handling")
      BY <3>2 DEF IInv, TypeOK
    <3>6. \A i \in DOMAIN opState'[s] :
            opState'[s][i] # "handling" => i \in DOMAIN opState[s] /\ opState[s][i] # "handling"
      BY <3>3, <3>5
    <3>7. \A u \in Clients : AtWork(u)' => AtWork(u)
      BY <1>1, <3>4, <3>6 DEF AtWork
    <3> QED BY <1>1, <3>7 DEF IInv, AtWorkIsIn
  <2>2. CASE HandlerStep(s)
    <3>1. PICK i \in DOMAIN opState[s] : Apply(s, i) \/ Answer(s, i)
      BY <2>2 DEF HandlerStep
    <3>2. PICK v \in {"applied", "answered"} : opState' = [opState EXCEPT ![s][i] = v]
      BY <3>1 DEF Apply, Answer
    <3>3. \A u \in Clients \ {s} : opState'[u] = opState[u]
      BY <3>2 DEF IInv, TypeOK
    <3>4. \A u \in Clients \ {s} : AtWork(u)' => AtWork(u)
      BY <1>1, <3>3 DEF AtWork
    <3>5. s \in Stdio /\ life[s] # "removed" => s \in sessions
      BY <3>1, SubscriptionsAssumption DEF IInv, AtWorkIsIn, AtWork, Apply, Answer, Served
    <3>6. s \notin Stdio /\ AtWork(s)' => AtWork(s)
      BY <1>1 DEF AtWork
    <3> QED BY <1>1, <3>4, <3>5, <3>6 DEF IInv, AtWorkIsIn
  <2> QED BY <2>1, <2>2
<1> QED BY <1>1, <1>2, <1>3, <1>6, <1>7 DEF IInv, OneWrite, OwedAreOpen, ListsComing, Calls

\* The steps of a notifying call.
LEMMA CallIInv ==
  ASSUME IInv, NEW b \in Calls, Notify(b) \/ NotifyStep(b)
  PROVE  IInv'
<1>1. UNCHANGED <<life, sessions, subs, ops, opState>>
  BY DEF Notify, NotifyStep, Consider, Write, NotifyReturns, opVars
<1>2. \A a \in Calls \ {b} : /\ phase'[a] = phase[a] /\ todo'[a] = todo[a]
                             /\ at'[a] = at[a] /\ got'[a] = got[a] /\ owed'[a] = owed[a]
                             /\ heard'[a] = heard[a]
  BY DEF IInv, TypeOK, Notify, NotifyStep, Consider, Write, NotifyReturns, history
<1>3. CASE Notify(b)
  <2>1. /\ phase' = [phase EXCEPT ![b] = "looping"]
        /\ todo' = [todo EXCEPT ![b] = sessions]
        /\ UNCHANGED <<at, got>>
    BY <1>3 DEF Notify, Snapshot
  <2>2. /\ owed' \in [Calls -> SUBSET Clients]
        /\ owed'[b] \subseteq {s \in Clients : life[s] = "open"}
    BY <1>3 DEF Notify, IInv, TypeOK
  <2>3. /\ allowed' \in [Calls -> SUBSET Clients] /\ heard' \in [Calls -> SUBSET Clients]
        /\ heard'[b] = {s \in Clients : Heard(s)}
    BY <1>3 DEF Notify, IInv, TypeOK
  <2>4. TypeOK'
    BY <1>1, <2>1, <2>2, <2>3 DEF IInv, TypeOK
  <2>5. OwedAreOpen'
    BY <1>1, <1>2, <2>2 DEF IInv, OwedAreOpen
  <2>6. owed'[b] \cap heard'[b] \subseteq todo'[b] /\ phase'[b] = "looping"
    <3>1. \A s \in Clients : Heard(s) => AtWork(s)
      BY DEF Heard, AtWork
    <3> QED BY <2>1, <2>2, <2>3, <3>1 DEF IInv, TypeOK, AtWorkIsIn
  <2>7. ListsComing'
    BY <1>2, <2>6 DEF IInv, ListsComing, Calls
  <2>8. OneWrite'
    BY <2>1 DEF IInv, OneWrite
  <2>9. AtWorkIsIn'
    <3>1. \A s \in Clients : AtWork(s)' => AtWork(s) \/ s \in sessions
      BY <1>1, <2>1 DEF IInv, TypeOK, AtWork
    <3> QED BY <1>1, <3>1 DEF IInv, AtWorkIsIn
  <2> QED BY <2>4, <2>5, <2>7, <2>8, <2>9 DEF IInv
<1>4. CASE NotifyStep(b)
  <2>1. UNCHANGED <<owed, heard, allowed>>
    BY <1>4 DEF NotifyStep, Consider, Write, NotifyReturns, history
  <2>2. /\ phase' \in [Calls -> {"idle", "looping", "returned"}]
        /\ todo' \in [Calls -> SUBSET Clients]
        /\ at' \in [Calls -> SUBSET Clients]
        /\ got' \in [Calls -> SUBSET Clients]
        /\ OneWrite'
    <3>1. CASE \E s \in Clients : Consider(b, s)
      BY <3>1 DEF IInv, TypeOK, OneWrite, Consider
    <3>2. CASE \E s \in Clients : Write(b, s)
      BY <3>2 DEF IInv, TypeOK, OneWrite, Write
    <3>3. CASE NotifyReturns(b)
      BY <3>3 DEF IInv, TypeOK, OneWrite, NotifyReturns
    <3> QED BY <1>4, <3>1, <3>2, <3>3 DEF NotifyStep
  <2>5. TypeOK'
    BY <1>1, <2>1, <2>2 DEF IInv, TypeOK
  <2>3. ASSUME b \in ListChanges
        PROVE  /\ phase'[b] = "looping" =>
                    owed[b] \cap heard[b] \subseteq todo'[b] \cup at'[b] \cup got'[b]
               /\ phase'[b] = "returned" => owed[b] \cap heard[b] \subseteq got'[b]
    <3>1. CASE \E s \in Clients : Consider(b, s)
      BY <2>3, <3>1 DEF IInv, TypeOK, ListsComing, Consider, Wanted
    <3>2. CASE \E s \in Clients : Write(b, s)
      <4>1. PICK s \in Clients : Write(b, s)
        BY <3>2
      <4>2. /\ got' = [got EXCEPT ![b] = IF life[s] = "open" THEN @ \cup {s} ELSE @]
            /\ at' = [at EXCEPT ![b] = {}]
            /\ UNCHANGED <<phase, todo>>
        BY <4>1 DEF Write
      <4>3. s \in owed[b] => got'[b] = got[b] \cup {s}
        BY <4>2 DEF IInv, TypeOK, OwedAreOpen
      <4>4. at[b] = {s}
        BY <4>1 DEF Write, IInv, OneWrite
      <4>5. phase[b] = "looping" => owed[b] \cap heard[b] \subseteq todo[b] \cup {s} \cup got[b]
        BY <2>3, <4>4 DEF IInv, ListsComing
      <4>6. got[b] \subseteq got'[b]
        BY <4>2 DEF IInv, TypeOK
      <4>7. phase[b] = "returned" => owed[b] \cap heard[b] \subseteq got[b]
        BY <2>3 DEF IInv, ListsComing
      <4> QED BY <4>2, <4>3, <4>5, <4>6, <4>7
    <3>3. CASE NotifyReturns(b)
      BY <2>3, <3>3 DEF IInv, TypeOK, ListsComing, NotifyReturns
    <3> QED BY <1>4, <3>1, <3>2, <3>3 DEF NotifyStep
  <2>4. ListsComing'
    BY <1>2, <2>1, <2>3 DEF IInv, ListsComing, Calls
  <2>6. AtWorkIsIn'
    <3>1. todo'[b] \cup at'[b] \cup got'[b] \subseteq todo[b] \cup at[b] \cup got[b]
      <4>1. CASE \E s \in Clients : Consider(b, s)
        BY <4>1 DEF IInv, TypeOK, Consider
      <4>2. CASE \E s \in Clients : Write(b, s)
        BY <4>2 DEF IInv, TypeOK, Write
      <4>3. CASE NotifyReturns(b)
        BY <4>3 DEF NotifyReturns
      <4> QED BY <1>4, <4>1, <4>2, <4>3 DEF NotifyStep
    <3>2. \A s \in Clients : AtWork(s)' => AtWork(s)
      BY <1>1, <1>2, <3>1 DEF AtWork
    <3> QED BY <1>1, <3>2 DEF IInv, AtWorkIsIn
  <2> QED BY <1>1, <2>1, <2>2, <2>4, <2>5, <2>6 DEF IInv, OwedAreOpen
<1> QED BY <1>3, <1>4

\* Every step keeps the invariant.
LEMMA NextIInv == IInv /\ [Next]_vars => IInv'
<1> SUFFICES ASSUME IInv, [Next]_vars PROVE IInv'
  OBVIOUS
<1>1. CASE UNCHANGED vars
  BY <1>1 DEF vars, IInv, TypeOK, OneWrite, AtWorkIsIn, AtWork, OwedAreOpen, ListsComing
<1>2. CASE \E s \in Clients : \/ Open(s) \/ AddSession(s) \/ Disconnect(s) \/ Remove(s)
                              \/ HandlerStep(s)
                              \/ \E kind \in Kinds : Send(s, kind)
  BY <1>2, SessionIInv, RequestIInv
<1>3. CASE \E b \in Calls : Notify(b) \/ NotifyStep(b)
  BY <1>3, CallIInv
<1> QED BY <1>1, <1>2, <1>3 DEF Next

\* The invariant holds in every state.
LEMMA SpecIInv == Spec => []IInv
BY InitIInv, NextIInv, PTL DEF Spec

-----------------------------------------------------------------------------
\* Every variable keeps its type, and only stdio sessions ever hold a
\* subscription (dispatch.go:288), whatever clients send.
THEOREM TypeCorrect == Spec => []TypeOK
<1>1. IInv => TypeOK
  BY DEF IInv
<1> QED BY SpecIInv, <1>1, PTL

\* A list change reaches every client that had heard from its session when it
\* copied the set and is still connected, whatever sessions and requests do
\* meanwhile (server.go:90-100, stdio.go:31, http.go:110-128).
THEOREM ListChangesReachEveryListener == Spec => []ListChangesReachListeners
<1>1. IInv => ListChangesReachListeners
  BY DEF IInv, ListsComing, ListChangesReachListeners
<1> QED BY SpecIInv, <1>1, PTL

-----------------------------------------------------------------------------
(* Resource updates, to clients that wait for each answer.                  *)

\* Only the last request of a client can still be with its handler.
OneAtATime ==
  \A s \in Clients : \A i \in DOMAIN opState[s] :
    i # Len(opState[s]) => opState[s][i] = "answered"

\* Once the last request took effect it alone decides the subscription.
Decided ==
  \A s \in Stdio :
    /\ ops[s] = << >> => s \notin subs
    /\ ops[s] # << >> /\ opState[s][Len(opState[s])] # "handling" =>
         (s \in subs <=> Last(s) = "subscribe")

\* A call that has not begun has written nothing.
Fresh == \A b \in Calls : phase[b] = "idle" => at[b] = {} /\ got[b] = {}

\* Whoever is, or may still become, subscribed during an update may be reached.
SubscribersAllowed ==
  \A b \in Updates :
    /\ at[b] \cup got[b] \subseteq allowed[b]
    /\ phase[b] = "looping" =>
         /\ subs \subseteq allowed[b]
         /\ \A s \in Clients : \A i \in DOMAIN opState[s] :
              opState[s][i] = "handling" /\ ops[s][i] = "subscribe" => s \in allowed[b]

\* A client that an update owes is subscribed, and the update is still to come,
\* about to be written or written.
UpdatesComing ==
  \A b \in Updates : \A s \in owed[b] \cap Stdio :
    /\ phase[b] = "looping" => Subscriber(s) /\ s \in todo[b] \cup at[b] \cup got[b]
    /\ phase[b] = "returned" => s \in got[b]

SInv == IInv /\ OneAtATime /\ Decided /\ Fresh /\ SubscribersAllowed /\ UpdatesComing

-----------------------------------------------------------------------------
\* The initial state satisfies the invariant.
LEMMA InitSInv == Init => SInv
<1> SUFFICES ASSUME Init PROVE SInv
  OBVIOUS
<1>1. IInv
  BY InitIInv
<1> QED BY <1>1, SubscriptionsAssumption
        DEF Init, SInv, OneAtATime, Decided, Fresh, SubscribersAllowed, UpdatesComing,
            Clients, Calls

\* Sessions that come and go (Open, AddSession, Disconnect, Remove).
LEMMA SessionSInv ==
  ASSUME SInv, NEW s \in Clients, Open(s) \/ AddSession(s) \/ Disconnect(s) \/ Remove(s)
  PROVE  SInv'
<1>1. UNCHANGED <<subs, ops, opState, phase, todo, at, got, heard, allowed>>
  BY DEF Open, AddSession, Disconnect, Remove, opVars, callVars, history
<1>2. IInv'
  BY SessionIInv DEF SInv
<1>3. \A b \in Calls : owed'[b] \subseteq owed[b]
  BY DEF SInv, IInv, TypeOK, Open, AddSession, Disconnect, Remove, history
<1> QED BY <1>1, <1>2, <1>3
        DEF SInv, OneAtATime, Decided, Fresh, SubscribersAllowed, UpdatesComing,
            Subscriber, Answered, Last, Calls

\* What a sequence looks like with one more element at its end.
LEMMA Appended ==
  ASSUME NEW T, NEW q \in Seq(T), NEW e \in T
  PROVE  /\ Len(Append(q, e)) = Len(q) + 1
         /\ DOMAIN Append(q, e) = 1 .. Len(q) + 1
         /\ Append(q, e)[Len(q) + 1] = e
         /\ Append(q, e) # << >>
         /\ \A i \in 1 .. Len(q) : Append(q, e)[i] = q[i]
<1>1. /\ Len(Append(q, e)) = Len(q) + 1
      /\ DOMAIN Append(q, e) = 1 .. Len(q) + 1
      /\ Append(q, e)[Len(q) + 1] = e
  OBVIOUS
<1>2. \A i \in 1 .. Len(q) : Append(q, e)[i] = q[i]
  OBVIOUS
<1>3. Append(q, e) # << >>
  <2>1. Len(<< >>) = 0
    OBVIOUS
  <2>2. Len(q) \in Nat
    OBVIOUS
  <2> QED BY ONLY <1>1, <2>1, <2>2
<1> QED BY <1>1, <1>2, <1>3

\* A client that waits for answers sends a request.
LEMMA SendSInv ==
  ASSUME ~Pipelining, SInv, NEW s \in Clients, NEW kind \in Kinds, Send(s, kind)
  PROVE  SInv'
<1>1. UNCHANGED <<life, sessions, subs, phase, todo, at, got>>
  BY DEF Send, callVars
<1>2. IInv'
  BY RequestIInv DEF SInv
<1>3. /\ ops[s] \in Seq(Kinds)
      /\ opState[s] \in Seq({"handling", "applied", "answered"})
      /\ Len(ops[s]) = Len(opState[s])
      /\ Answered(s)
  BY DEF Send, SInv, IInv, TypeOK
<1>4. /\ ops'[s] = Append(ops[s], kind)
      /\ opState'[s] = Append(opState[s], "handling")
      /\ \A u \in Clients \ {s} : ops'[u] = ops[u] /\ opState'[u] = opState[u]
  BY DEF Send, SInv, IInv, TypeOK
<1>5. /\ Len(opState'[s]) = Len(opState[s]) + 1
      /\ opState'[s][Len(opState'[s])] = "handling"
      /\ \A i \in 1 .. Len(opState[s]) :
           opState'[s][i] = opState[s][i] /\ ops'[s][i] = ops[s][i]
      /\ ops'[s][Len(opState'[s])] = kind
      /\ ops'[s] # << >>
      /\ DOMAIN opState'[s] = 1 .. Len(opState[s]) + 1
  <2>1. /\ Len(opState'[s]) = Len(opState[s]) + 1
        /\ DOMAIN opState'[s] = 1 .. Len(opState[s]) + 1
        /\ opState'[s][Len(opState[s]) + 1] = "handling"
        /\ \A i \in 1 .. Len(opState[s]) : opState'[s][i] = opState[s][i]
    BY <1>3, <1>4, Appended
  <2>2. /\ ops'[s] # << >>
        /\ ops'[s][Len(ops[s]) + 1] = kind
        /\ \A i \in 1 .. Len(ops[s]) : ops'[s][i] = ops[s][i]
    BY <1>3, <1>4, Appended
  <2> QED BY <1>3, <2>1, <2>2
<1>6. OneAtATime'
  <2>1. \A i \in 1 .. Len(opState[s]) : opState[s][i] = "answered"
    BY <1>3 DEF Answered
  <2>2. \A i \in DOMAIN opState'[s] : i # Len(opState'[s]) => opState'[s][i] = "answered"
    BY <1>3, <1>5, <2>1
  <2>3. \A u \in Clients \ {s} : \A i \in DOMAIN opState'[u] :
          i # Len(opState'[u]) => opState'[u][i] = "answered"
    BY <1>4 DEF SInv, OneAtATime
  <2> QED BY <2>2, <2>3 DEF OneAtATime
<1>7. Decided'
  BY <1>1, <1>4, <1>5, SubscriptionsAssumption DEF SInv, Decided, Last, Clients
<1>8. /\ \A b \in Updates : owed'[b] = owed[b] \ {s}
      /\ \A b \in Updates : allowed[b] \subseteq allowed'[b]
      /\ kind = "subscribe" => \A b \in Updates : s \in allowed'[b]
  BY DEF Send, SInv, IInv, TypeOK, Calls
<1>9. SubscribersAllowed'
  <2> SUFFICES ASSUME NEW b \in Updates
               PROVE  /\ at[b] \cup got[b] \subseteq allowed'[b]
                      /\ phase[b] = "looping" =>
                           /\ subs \subseteq allowed'[b]
                           /\ \A u \in Clients : \A i \in DOMAIN opState'[u] :
                                opState'[u][i] = "handling" /\ ops'[u][i] = "subscribe"
                                  => u \in allowed'[b]
    BY <1>1 DEF SubscribersAllowed
  <2>1. \A i \in DOMAIN opState'[s] : ops'[s][i] = "subscribe" /\ opState'[s][i] = "handling"
          => i = Len(opState'[s])
    BY <1>3, <1>5 DEF Answered
  <2> QED BY <1>4, <1>5, <1>8, <2>1 DEF SInv, SubscribersAllowed
<1>10. UpdatesComing'
  <2>1. \A b \in Updates : \A u \in owed'[b] \cap Stdio : u \in Clients \ {s} /\ u \in owed[b]
    BY <1>8 DEF Clients
  <2>2. \A u \in Clients \ {s} : Subscriber(u) => Subscriber(u)'
    BY <1>4 DEF Subscriber, Answered, Last
  <2> QED BY <1>1, <2>1, <2>2 DEF SInv, UpdatesComing
<1>11. Fresh'
  BY <1>1 DEF SInv, Fresh
<1> QED BY <1>2, <1>6, <1>7, <1>9, <1>10, <1>11 DEF SInv

\* Its handler takes effect or is answered.
LEMMA HandlerSInv ==
  ASSUME SInv, NEW s \in Clients, HandlerStep(s)
  PROVE  SInv'
<1>1. PICK i \in DOMAIN opState[s] : Apply(s, i) \/ Answer(s, i)
  BY DEF HandlerStep
<1>2. UNCHANGED <<life, sessions, ops, phase, todo, at, got, owed>>
  BY <1>1 DEF Apply, Answer, callVars, history
<1>3. IInv'
  BY RequestIInv DEF SInv
<1>4. PICK v \in {"applied", "answered"} : opState' = [opState EXCEPT ![s][i] = v]
  BY <1>1 DEF Apply, Answer
<1>5. opState[s] \in Seq({"handling", "applied", "answered"}) /\ Len(ops[s]) = Len(opState[s])
  BY DEF SInv, IInv, TypeOK
<1>6. /\ DOMAIN opState'[s] = DOMAIN opState[s] /\ Len(opState'[s]) = Len(opState[s])
      /\ opState'[s][i] = v
      /\ \A j \in DOMAIN opState[s] \ {i} : opState'[s][j] = opState[s][j]
      /\ \A u \in Clients \ {s} : opState'[u] = opState[u]
  BY <1>4, <1>5 DEF SInv, IInv, TypeOK
<1>7. opState[s][i] \in {"handling", "applied"} /\ i = Len(opState[s]) /\ ~Answered(s)
  BY <1>1 DEF Apply, Answer, SInv, OneAtATime, Answered
<1>8. OneAtATime'
  BY <1>6, <1>7 DEF SInv, OneAtATime
<1>9. \A u \in Clients \ {s} : u \in subs' <=> u \in subs
  BY <1>1 DEF Apply, Answer, Recorded
<1>10. Decided'
  <2>1. ASSUME s \in Stdio
        PROVE  /\ ops[s] # << >>
               /\ s \in subs' <=> Last(s) = "subscribe"
    <3>1. ops[s] # << >> /\ Last(s) = ops[s][i] /\ Last(s) \in Kinds
      BY <1>5, <1>7 DEF Last, SInv, IInv, TypeOK
    <3>2. CASE Apply(s, i)
      BY <2>1, <3>1, <3>2, SubscriptionsAssumption DEF Apply, Recorded, Kinds
    <3>3. CASE Answer(s, i)
      BY <1>7, <2>1, <3>1, <3>3 DEF Answer, SInv, Decided
    <3> QED BY <1>1, <3>1, <3>2, <3>3
  <2> QED BY <1>2, <1>6, <1>9, <2>1, SubscriptionsAssumption
          DEF SInv, Decided, Last, Clients
<1>11. SubscribersAllowed'
  <2>1. ASSUME NEW b \in Updates
        PROVE  /\ \A u \in allowed[b] : u # s => u \in allowed'[b]
               /\ s \in allowed[b] /\ s \notin allowed'[b] =>
                    s \notin at[b] \cup got[b] /\ s \notin subs' /\ Answered(s)'
    <3>1. CASE Apply(s, i)
      BY <3>1 DEF Apply, history
    <3>2. CASE Answer(s, i)
      <4>1. allowed'[b] = IF LastAnswer(s, i) /\ Last(s) = "unsubscribe" /\ s \notin at[b] \cup got[b]
                            THEN allowed[b] \ {s} ELSE allowed[b]
        BY <3>2 DEF Answer, Calls
      <4>2. s \in subs => Last(s) = "subscribe"
        <5>1. s \in subs => s \in Stdio
          BY DEF SInv, IInv, TypeOK
        <5> QED BY <1>5, <1>7, <3>2, <5>1 DEF Answer, SInv, Decided
      <4>3. subs' = subs
        BY <3>2 DEF Answer
      <4>4. LastAnswer(s, i) => Answered(s)'
        <5>1. opState'[s][i] = "answered"
          BY <1>6, <3>2 DEF Answer, SInv, IInv, TypeOK
        <5> QED BY <1>6, <5>1 DEF LastAnswer, Answered
      <4> QED BY <4>1, <4>2, <4>3, <4>4
    <3> QED BY <1>1, <3>1, <3>2
  <2>2. ASSUME NEW b \in Updates PROVE at[b] \cup got[b] \subseteq allowed'[b]
    BY <2>1 DEF SInv, SubscribersAllowed
  <2>3. ASSUME NEW b \in Updates, phase[b] = "looping"
        PROVE  /\ subs' \subseteq allowed'[b]
               /\ \A u \in Clients : \A j \in DOMAIN opState'[u] :
                    opState'[u][j] = "handling" /\ ops[u][j] = "subscribe" => u \in allowed'[b]
    <3>1. s \in subs' => s \in allowed[b]
      BY <1>1, <2>3 DEF Apply, Answer, Recorded, SInv, SubscribersAllowed
    <3>2. subs' \subseteq allowed'[b]
      BY <1>3, <1>9, <2>1, <2>3, <3>1 DEF SInv, SubscribersAllowed, IInv, TypeOK, Clients
    <3>3. \A j \in DOMAIN opState'[s] : opState'[s][j] = "handling" =>
            j # i /\ opState[s][j] = "handling" /\ ~Answered(s)'
      BY <1>6 DEF Answered
    <3> QED BY <1>6, <2>1, <2>3, <3>2, <3>3 DEF SInv, SubscribersAllowed
  <2> QED BY <1>2, <2>2, <2>3 DEF SubscribersAllowed
<1>12. UpdatesComing'
  <2>1. ASSUME NEW b \in Updates, NEW u \in owed[b] \cap Stdio, phase[b] = "looping"
        PROVE  Subscriber(u)'
    BY <1>2, <1>6, <1>7, <2>1, SubscriptionsAssumption
       DEF SInv, UpdatesComing, Subscriber, Answered, Last, Clients
  <2> QED BY <1>2, <2>1 DEF SInv, UpdatesComing
<1>13. Fresh'
  BY <1>2 DEF SInv, Fresh
<1> QED BY <1>3, <1>8, <1>10, <1>11, <1>12, <1>13 DEF SInv

\* The steps of a notifying call.
LEMMA CallSInv ==
  ASSUME SInv, NEW b \in Calls, Notify(b) \/ NotifyStep(b)
  PROVE  SInv'
<1>1. UNCHANGED <<life, sessions, subs, ops, opState>>
  BY DEF Notify, NotifyStep, Consider, Write, NotifyReturns, opVars
<1>2. \A a \in Calls \ {b} : /\ phase'[a] = phase[a] /\ todo'[a] = todo[a]
                             /\ at'[a] = at[a] /\ got'[a] = got[a]
                             /\ owed'[a] = owed[a] /\ allowed'[a] = allowed[a]
  BY DEF SInv, IInv, TypeOK, Notify, NotifyStep, Consider, Write, NotifyReturns, history
<1>3. IInv'
  BY CallIInv DEF SInv
<1>4. OneAtATime' /\ Decided'
  BY <1>1 DEF SInv, OneAtATime, Decided, Last
<1>5. CASE Notify(b)
  <2>1. /\ phase'[b] = "looping" /\ todo'[b] = sessions /\ at'[b] = {} /\ got'[b] = {}
    BY <1>5 DEF Notify, Snapshot, SInv, IInv, TypeOK, Fresh
  <2>2. ASSUME b \in Updates
        PROVE  /\ owed'[b] = {s \in Clients : life[s] = "open" /\ Subscriber(s)}
               /\ allowed'[b] = {s \in Clients : ~Unsubscriber(s)}
    BY <1>5, <2>2, SubscriptionsAssumption DEF Notify, SInv, IInv, TypeOK
  <2>3. \A s \in subs : ~Unsubscriber(s)
    <3> SUFFICES ASSUME NEW s \in subs, Unsubscriber(s) PROVE FALSE
      OBVIOUS
    <3>1. s \in Stdio /\ s \in Clients
      BY DEF SInv, IInv, TypeOK, Clients
    <3>2. ops[s] # << >> /\ Last(s) = "unsubscribe" /\ Answered(s)
      BY <3>1 DEF Unsubscriber, SInv, Decided
    <3>3. Len(opState[s]) \in DOMAIN opState[s]
      BY <3>1, <3>2 DEF SInv, IInv, TypeOK
    <3>4. opState[s][Len(opState[s])] # "handling"
      BY <3>2, <3>3 DEF Answered
    <3> QED BY <3>1, <3>2, <3>4 DEF SInv, Decided
  <2>4. \A s \in Clients : \A i \in DOMAIN opState[s] :
          opState[s][i] = "handling" => ~Unsubscriber(s)
    BY DEF Unsubscriber, Answered
  <2>5. SubscribersAllowed'
    BY <1>1, <1>2, <2>1, <2>2, <2>3, <2>4
       DEF SInv, IInv, TypeOK, SubscribersAllowed, Calls, Clients
  <2>6. b \in Updates => \A s \in owed'[b] \cap Stdio : Subscriber(s)' /\ s \in todo'[b]
    <3> SUFFICES ASSUME b \in Updates, NEW s \in owed'[b], s \in Stdio
                 PROVE  Subscriber(s)' /\ s \in todo'[b]
      OBVIOUS
    <3>1. s \in Clients /\ life[s] = "open" /\ ops[s] # << >> /\ Answered(s) /\ Subscriber(s)
      BY <2>2 DEF Subscriber
    <3>2. Len(opState[s]) \in DOMAIN opState[s]
      BY <3>1 DEF SInv, IInv, TypeOK
    <3>3. AtWork(s)
      BY <3>1, <3>2 DEF AtWork, Answered
    <3>4. s \in sessions
      BY <3>1, <3>3 DEF SInv, IInv, AtWorkIsIn
    <3> QED BY <1>1, <2>1, <3>1, <3>4 DEF Subscriber, Answered, Last
  <2>7. UpdatesComing'
    BY <1>1, <1>2, <2>1, <2>6
       DEF SInv, UpdatesComing, Subscriber, Answered, Last, Calls
  <2>8. Fresh'
    BY <1>2, <2>1 DEF SInv, Fresh
  <2> QED BY <1>3, <1>4, <2>5, <2>7, <2>8 DEF SInv
<1>6. CASE NotifyStep(b)
  <2>1. UNCHANGED <<owed, allowed>>
    BY <1>6 DEF NotifyStep, Consider, Write, NotifyReturns, history
  <2>2. phase[b] = "idle" => at[b] = {} /\ got[b] = {}
    BY DEF SInv, Fresh
  <2>3. Fresh'
    <3>1. phase'[b] # "idle"
      BY <1>6, <2>2 DEF NotifyStep, Consider, Write, NotifyReturns, SInv, IInv, TypeOK
    <3> QED BY <1>2, <3>1 DEF SInv, Fresh
  <2>4. ASSUME b \in Updates
        PROVE  /\ at'[b] \cup got'[b] \subseteq allowed[b]
               /\ \A s \in owed[b] \cap Stdio :
                    /\ phase'[b] = "looping" =>
                         Subscriber(s) /\ s \in todo'[b] \cup at'[b] \cup got'[b]
                    /\ phase'[b] = "returned" => s \in got'[b]
    <3>1. /\ at[b] \cup got[b] \subseteq allowed[b]
          /\ phase[b] = "looping" => subs \subseteq allowed[b]
      BY <2>4 DEF SInv, SubscribersAllowed
    <3>2. \A s \in owed[b] \cap Stdio :
            /\ phase[b] = "looping" => Subscriber(s) /\ s \in todo[b] \cup at[b] \cup got[b]
            /\ phase[b] = "returned" => s \in got[b]
      BY <2>4 DEF SInv, UpdatesComing
    <3>3. CASE \E s \in Clients : Consider(b, s)
      <4>1. PICK s \in Clients : Consider(b, s)
        BY <3>3
      <4>2. /\ phase[b] = "looping" /\ at[b] = {}
            /\ todo'[b] = todo[b] \ {s}
            /\ at'[b] = IF Wanted(b, s) THEN {s} ELSE {}
            /\ UNCHANGED <<phase, got>>
        BY <4>1 DEF Consider, SInv, IInv, TypeOK
      <4>3. Wanted(b, s) <=> s \in subs
        BY <2>4, SubscriptionsAssumption DEF Wanted
      <4>4. s \in owed[b] \cap Stdio => s \in subs
        <5> SUFFICES ASSUME s \in owed[b], s \in Stdio PROVE s \in subs
          OBVIOUS
        <5>1. ops[s] # << >> /\ Answered(s) /\ Last(s) = "subscribe"
          BY <3>2, <4>2 DEF Subscriber
        <5>2. Len(opState[s]) \in DOMAIN opState[s]
          BY <5>1 DEF SInv, IInv, TypeOK
        <5>3. opState[s][Len(opState[s])] # "handling"
          BY <5>1, <5>2 DEF Answered
        <5> QED BY <5>1, <5>3 DEF SInv, Decided
      <4> QED BY <3>1, <3>2, <4>2, <4>3, <4>4
    <3>4. CASE \E s \in Clients : Write(b, s)
      <4>1. PICK s \in Clients : Write(b, s)
        BY <3>4
      <4>2. /\ at[b] = {s} /\ at'[b] = {}
            /\ got'[b] = (IF life[s] = "open" THEN got[b] \cup {s} ELSE got[b])
            /\ UNCHANGED <<phase, todo>>
        BY <4>1 DEF Write, SInv, IInv, TypeOK, OneWrite
      <4>3. s \in owed[b] => life[s] = "open"
        BY DEF SInv, IInv, OwedAreOpen
      <4> QED BY <3>1, <3>2, <4>2, <4>3
    <3>5. CASE NotifyReturns(b)
      <4>1. /\ phase[b] = "looping" /\ at[b] = {} /\ todo[b] = {}
            /\ phase'[b] = "returned"
            /\ UNCHANGED <<todo, at, got>>
        BY <3>5 DEF NotifyReturns, SInv, IInv, TypeOK
      <4> QED BY <3>1, <3>2, <4>1
    <3> QED BY <1>6, <3>3, <3>4, <3>5 DEF NotifyStep
  <2>5. phase'[b] = "looping" => phase[b] = "looping"
    BY <1>6 DEF NotifyStep, Consider, Write, NotifyReturns, SInv, IInv, TypeOK
  <2>6. SubscribersAllowed'
    BY <1>1, <1>2, <2>1, <2>4, <2>5 DEF SInv, SubscribersAllowed, Calls
  <2>7. UpdatesComing'
    BY <1>1, <1>2, <2>1, <2>4
       DEF SInv, UpdatesComing, Subscriber, Answered, Last, Calls
  <2> QED BY <1>3, <1>4, <2>3, <2>6, <2>7 DEF SInv
<1> QED BY <1>5, <1>6

\* Every step of clients that wait for answers keeps the invariant.
LEMMA NextSInv ==
  ASSUME ~Pipelining
  PROVE  SInv /\ [Next]_vars => SInv'
<1> SUFFICES ASSUME SInv, [Next]_vars PROVE SInv'
  OBVIOUS
<1>1. CASE UNCHANGED vars
  <2>1. IInv'
    BY <1>1, NextIInv DEF SInv
  <2> QED BY <1>1, <2>1
          DEF vars, SInv, OneAtATime, Decided, Fresh, SubscribersAllowed, UpdatesComing,
              Subscriber, Answered, Last
<1>2. CASE \E s \in Clients : \/ Open(s) \/ AddSession(s) \/ Disconnect(s) \/ Remove(s)
                              \/ HandlerStep(s)
                              \/ \E kind \in Kinds : Send(s, kind)
  BY <1>2, SessionSInv, HandlerSInv, SendSInv
<1>3. CASE \E b \in Calls : Notify(b) \/ NotifyStep(b)
  BY <1>3, CallSInv
<1> QED BY <1>1, <1>2, <1>3 DEF Next

\* The invariant holds in every state.
LEMMA SpecSInv ==
  ASSUME ~Pipelining
  PROVE  Spec => []SInv
BY InitSInv, NextSInv, PTL DEF Spec

\* A client that waits for its answers and has had its subscribe answered is
\* written to by every update that begins then (server.go:121-141).
THEOREM UpdatesReachEverySubscriber ==
  ASSUME ~Pipelining
  PROVE  Spec => []UpdatesReachSubscribers
<1>1. SInv => UpdatesReachSubscribers
  BY DEF SInv, UpdatesComing, UpdatesReachSubscribers
<1> QED BY SpecSInv, <1>1, PTL

\* A client that waits for its answers is never notified of an update that began
\* after its unsubscribe was answered (dispatch.go:294-304, server.go:137).
THEOREM NobodyElseIsNotified ==
  ASSUME ~Pipelining
  PROVE  Spec => []NoStrayUpdates
<1>1. SInv => NoStrayUpdates
  BY DEF SInv, SubscribersAllowed, NoStrayUpdates
<1> QED BY SpecSInv, <1>1, PTL

\* For such a client the last request it sent decides (dispatch.go:283-304).
THEOREM TheLastRequestDecides ==
  ASSUME ~Pipelining
  PROVE  Spec => []LastRequestDecides
<1>1. SInv => LastRequestDecides
  <2> SUFFICES ASSUME SInv, NEW s \in Stdio, Answered(s), ops[s] # << >>
               PROVE  s \in subs <=> Last(s) = "subscribe"
    BY DEF LastRequestDecides
  <2>1. Len(opState[s]) \in DOMAIN opState[s]
    BY DEF SInv, IInv, TypeOK, Clients
  <2> QED BY <2>1 DEF SInv, Decided, Answered
<1> QED BY SpecSInv, <1>1, PTL
=============================================================================
