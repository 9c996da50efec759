----------------------- MODULE ClientTransportProofs ------------------------
(***************************************************************************)
(* Proofs about ClientTransport, for any set of calls, server-initiated    *)
(* lines and closers, and any number of ids.                               *)
(*                                                                         *)
(* The inductive invariant IInv says where the channel of a call can be:   *)
(* in the map under the call's own id, or in the read loop's hands, or     *)
(* filled, or closed, and never in two of these places.  The places are    *)
(* what the critical sections on pendMu move a channel between, so each    *)
(* action disturbs one call's place only.                                  *)
(***************************************************************************)
EXTENDS ClientTransport, TLAPS

\* Ids are given to one call each, in increasing order.
IdsAreOwn ==
  /\ \A c \in Calls : id[c] = 0 <=> call[c] = "idle"
  /\ \A c \in Calls : id[c] <= idCtr
  /\ \A c, d \in Calls : id[c] = id[d] /\ id[c] # 0 => c = d

\* A call that returns a message returns a reply to its id.
RightReply == \A c \in Calls : outcome[c] \in Ids => outcome[c] = id[c]

\* The map holds a call under its own id.
MapIsOwn == \A i \in Ids : pending[i] # NoCall => id[pending[i]] = i

\* What the read loop holds, what is filled and what is closed is off the map,
\* and the three exclude one another.
PlacesExclude ==
  /\ reader = "send" =>
       /\ held.id = id[held.call]
       /\ pending[held.id] = NoCall
       /\ chan[held.call] = 0
       /\ held.call \notin closed
  /\ \A c \in Calls : chan[c] # 0 =>
       chan[c] = id[c] /\ pending[id[c]] = NoCall /\ c \notin closed
  /\ \A c \in closed : id[c] # 0 /\ pending[id[c]] = NoCall

\* A call that began and has not returned is in one of the four places.
NoneLost ==
  \A c \in Calls : call[c] \in {"writing", "waiting"} =>
    \/ pending[id[c]] = c
    \/ reader = "send" /\ held.call = c
    \/ chan[c] # 0
    \/ c \in closed

\* What roundTrip returned.
Outcomes ==
  /\ RightReply
  /\ \A c \in Calls : outcome[c] # 0 <=> call[c] = "ended"
  /\ LeaksOnlyOnCancel
  /\ reader \in {"sweeping", "stopped"} => done

\* What the server was told and what it said: only a request that was written is
\* replied to, and only what was replied is handed on.
Heard ==
  /\ \A i \in received : i <= idCtr
  /\ replied \subseteq received
  /\ reader = "send" => held.id \in replied
  /\ \A c \in Calls : chan[c] # 0 => chan[c] \in replied

IInv ==
  /\ TypeOK
  /\ IdsAreOwn
  /\ MapIsOwn
  /\ PlacesExclude
  /\ NoneLost
  /\ Outcomes
  /\ Heard

-----------------------------------------------------------------------------
\* The initial state satisfies the invariant: nothing is registered.
LEMMA InitIInv == Init => IInv
<1> SUFFICES ASSUME Init PROVE IInv
  OBVIOUS
<1> USE TransportAssumption DEF Init
<1>1. TypeOK
  <2>1. held \in [call : Calls \cup {NoCall}, id : {0} \cup Ids]
    BY DEF Nothing
  <2>2. outcome \in [Calls -> {0, Failed} \cup Ids] /\ idCtr \in 0 .. MaxId
    OBVIOUS
  <2> QED
    BY <2>1, <2>2 DEF TypeOK
<1>2. IdsAreOwn /\ MapIsOwn /\ PlacesExclude
  BY DEF IdsAreOwn, MapIsOwn, PlacesExclude, Ids
<1>3. NoneLost /\ Outcomes /\ Heard
  BY DEF NoneLost, Outcomes, RightReply, LeaksOnlyOnCancel, Heard, Ids
<1> QED
  BY <1>1, <1>2, <1>3 DEF IInv

-----------------------------------------------------------------------------
\* roundTrip's registration: the fresh id is nobody's, so the entry it writes
\* displaces none.
LEMMA RegisterIInv ==
  ASSUME IInv, NEW c \in Calls, Register(c)
  PROVE  IInv'
<1> USE TransportAssumption DEF Register, chanVars, readVars, streamVars, NextId
<1>1. TypeOK'
  BY DEF IInv, TypeOK, Ids, Failed
<1>2. idCtr' \in Ids /\ id[c] = 0 /\ \A i \in Ids : pending[i] # NoCall => i # idCtr'
  BY DEF IInv, TypeOK, IdsAreOwn, MapIsOwn, Ids
<1>3. IdsAreOwn'
  BY <1>2 DEF IInv, TypeOK, IdsAreOwn, Ids
<1>4. MapIsOwn'
  BY <1>2 DEF IInv, TypeOK, MapIsOwn, IdsAreOwn, Ids
<1>5. PlacesExclude'
  BY <1>2 DEF IInv, TypeOK, PlacesExclude, IdsAreOwn, Ids
<1>6. NoneLost'
  BY <1>2 DEF IInv, TypeOK, NoneLost, IdsAreOwn, Ids
<1>7. Outcomes'
  BY <1>2 DEF IInv, TypeOK, Outcomes, RightReply, LeaksOnlyOnCancel, IdsAreOwn, Ids
<1>8. Heard'
  BY DEF IInv, TypeOK, Heard, Ids
<1> QED
  BY <1>1, <1>3, <1>4, <1>5, <1>6, <1>7, <1>8 DEF IInv
\* Writing the request moves nobody's channel.
LEMMA WriteIInv ==
  ASSUME IInv, NEW c \in Calls, WriteRequest(c)
  PROVE  IInv'
<1> USE DEF WriteRequest, regVars, chanVars, readVars, streamVars
<1>1. TypeOK'
  BY DEF IInv, TypeOK, IdsAreOwn
<1>2. IdsAreOwn' /\ MapIsOwn'
  BY DEF IInv, TypeOK, IdsAreOwn, MapIsOwn
<1>3. PlacesExclude' /\ NoneLost'
  BY DEF IInv, TypeOK, PlacesExclude, NoneLost
<1>4. Outcomes'
  BY DEF IInv, TypeOK, Outcomes, RightReply, LeaksOnlyOnCancel
<1>5. Heard'
  BY DEF IInv, TypeOK, IdsAreOwn, Heard
<1> QED
  BY <1>1, <1>2, <1>3, <1>4, <1>5 DEF IInv

\* A call ends: by an error, or with what its channel buffers, which is a reply
\* under its own id.
LEMMA EndIInv ==
  ASSUME IInv, NEW c \in Calls,
         WriteFails(c) \/ ReceiveReply(c) \/ ReceiveClosed(c) \/ SeeDone(c)
           \/ SeeContext(c)
  PROVE  IInv'
<1> USE DEF Returns, regVars, chanVars, readVars, streamVars
<1>1. CASE WriteFails(c)
  <2> USE <1>1 DEF WriteFails
  <2>1. id[c] \in Ids
    BY DEF IInv, TypeOK, IdsAreOwn
  <2>2. TypeOK'
    BY <2>1 DEF IInv, TypeOK
  <2>3. IdsAreOwn' /\ MapIsOwn' /\ PlacesExclude'
    BY <2>1 DEF IInv, TypeOK, IdsAreOwn, MapIsOwn, PlacesExclude
  <2>4. NoneLost'
    BY <2>1 DEF IInv, TypeOK, IdsAreOwn, NoneLost
  <2>5. Outcomes'
    BY <2>1, TransportAssumption
    DEF IInv, TypeOK, IdsAreOwn, Outcomes, RightReply, LeaksOnlyOnCancel, Failed, Ids
  <2>9. Heard'
    BY DEF IInv, TypeOK, Heard
  <2> QED
    BY <2>2, <2>3, <2>4, <2>5, <2>9 DEF IInv
<1>2. CASE ReceiveReply(c)
  <2> USE <1>2 DEF ReceiveReply
  <2>1. chan[c] = id[c] /\ pending[id[c]] # c
    BY TransportAssumption DEF IInv, PlacesExclude
  <2>2. TypeOK'
    BY DEF IInv, TypeOK
  <2>3. IdsAreOwn' /\ MapIsOwn'
    BY DEF IInv, TypeOK, IdsAreOwn, MapIsOwn
  <2>6. PlacesExclude'
    BY DEF IInv, TypeOK, PlacesExclude
  <2>4. NoneLost'
    BY DEF IInv, TypeOK, NoneLost
  <2>5. Outcomes'
    BY <2>1 DEF IInv, TypeOK, Outcomes, RightReply, LeaksOnlyOnCancel
  <2>9. Heard'
    BY DEF IInv, TypeOK, Heard
  <2> QED
    BY <2>2, <2>3, <2>4, <2>5, <2>6, <2>9 DEF IInv
<1>3. CASE ReceiveClosed(c) \/ SeeDone(c) \/ SeeContext(c)
  <2> USE <1>3 DEF ReceiveClosed, SeeDone, SeeContext
  <2>1. c \in closed => pending[id[c]] # c
    BY TransportAssumption DEF IInv, PlacesExclude
  <2>2. TypeOK'
    BY DEF IInv, TypeOK
  <2>3. IdsAreOwn' /\ MapIsOwn' /\ PlacesExclude'
    BY DEF IInv, TypeOK, IdsAreOwn, MapIsOwn, PlacesExclude
  <2>4. NoneLost'
    BY DEF IInv, TypeOK, NoneLost
  <2>5. RightReply'
    BY TransportAssumption DEF IInv, TypeOK, RightReply, Outcomes, Failed, Ids
  <2>6. pending[id[c]] = c => c \in ctxDone \/ done
    BY <2>1
  <2>7. LeaksOnlyOnCancel'
    BY <2>6 DEF IInv, TypeOK, Outcomes, LeaksOnlyOnCancel
  <2>8. Outcomes'
    BY <2>5, <2>7, TransportAssumption DEF IInv, TypeOK, Outcomes, Failed
  <2>9. Heard'
    BY DEF IInv, TypeOK, Heard
  <2> QED
    BY <2>2, <2>3, <2>4, <2>8, <2>9 DEF IInv
<1> QED
  BY <1>1, <1>2, <1>3

-----------------------------------------------------------------------------
\* A reply that finds an entry takes it off the map and into the read loop's
\* hands; any other reply changes nothing the invariant speaks of.
LEMMA ReadReplyIInv ==
  ASSUME IInv, NEW i \in Ids, ReadReply(i)
  PROVE  IInv'
<1> USE TransportAssumption
    DEF ReadReply, Reading, HasWaiter, Taken, callVars, regVars, chanVars, streamVars
<1>1. TypeOK'
  BY DEF IInv, TypeOK
<1>2. IdsAreOwn' /\ MapIsOwn'
  BY DEF IInv, TypeOK, IdsAreOwn, MapIsOwn
<1>3. PlacesExclude'
  <2>1. CASE HasWaiter(i)
    <3>1. /\ held'.call = pending[i]
          /\ held'.id = i
          /\ pending[i] \in Calls
          /\ id[pending[i]] = i
          /\ i # 0
      BY <2>1 DEF IInv, TypeOK, MapIsOwn, Ids
    <3>2. chan[pending[i]] = 0 /\ pending[i] \notin closed
      BY <2>1, <3>1 DEF IInv, PlacesExclude
    <3> QED
      BY <3>1, <3>2 DEF IInv, TypeOK, PlacesExclude
  <2>2. CASE ~HasWaiter(i)
    BY <2>2 DEF IInv, TypeOK, PlacesExclude
  <2> QED
    BY <2>1, <2>2
<1>4. NoneLost'
  BY DEF IInv, TypeOK, IdsAreOwn, NoneLost
<1>5. Outcomes'
  BY DEF IInv, TypeOK, IdsAreOwn, Outcomes, RightReply, LeaksOnlyOnCancel
<1>6. Heard'
  BY DEF IInv, TypeOK, Heard
<1> QED
  BY <1>1, <1>2, <1>3, <1>4, <1>5, <1>6 DEF IInv

\* The send fills the channel the read loop held.
LEMMA SendReplyIInv ==
  ASSUME IInv, SendReply
  PROVE  IInv'
<1> USE DEF SendReply, Nothing, callVars, regVars, streamVars
<1>1. TypeOK'
  BY DEF IInv, TypeOK
<1>2. IdsAreOwn' /\ MapIsOwn'
  BY DEF IInv, TypeOK, IdsAreOwn, MapIsOwn
<1>3. PlacesExclude'
  BY DEF IInv, TypeOK, PlacesExclude
<1>4. NoneLost'
  BY DEF IInv, TypeOK, NoneLost, Ids
<1>5. Outcomes'
  BY DEF IInv, TypeOK, Outcomes, RightReply, LeaksOnlyOnCancel
<1>6. Heard'
  BY DEF IInv, TypeOK, Heard
<1> QED
  BY <1>1, <1>2, <1>3, <1>4, <1>5, <1>6 DEF IInv
-----------------------------------------------------------------------------
\* Closing done touches no channel.
LEMMA CloseDoneIInv ==
  ASSUME IInv, ReaderCloses \/ \E k \in Closers : Close(k)
  PROVE  IInv'
<1> USE DEF ReaderCloses, Close, CloseDone, callVars, regVars, chanVars, streamVars
<1>1. TypeOK'
  BY DEF IInv, TypeOK
<1>2. IdsAreOwn' /\ MapIsOwn'
  BY DEF IInv, TypeOK, IdsAreOwn, MapIsOwn
<1>3. PlacesExclude' /\ NoneLost'
  BY DEF IInv, TypeOK, PlacesExclude, NoneLost
<1>4. Outcomes'
  BY DEF IInv, TypeOK, Outcomes, RightReply, LeaksOnlyOnCancel
<1>5. Heard'
  BY DEF IInv, TypeOK, IdsAreOwn, Heard
<1> QED
  BY <1>1, <1>2, <1>3, <1>4, <1>5 DEF IInv

\* The sweep moves every channel still in the map to the closed ones: it finds
\* none that is held, filled or closed already.
LEMMA SweepIInv ==
  ASSUME IInv, ReaderSweeps \/ \E k \in Closers : CloserSweeps(k)
  PROVE  IInv'
<1> USE TransportAssumption
    DEF ReaderSweeps, CloserSweeps, Sweep, Swept, Registered, callVars, regVars,
        streamVars
<1>1. TypeOK'
  BY DEF IInv, TypeOK
<1>2. IdsAreOwn' /\ MapIsOwn'
  BY DEF IInv, TypeOK, IdsAreOwn, MapIsOwn
<1>3. \A c \in Registered : c \in Calls /\ id[c] \in Ids /\ pending[id[c]] = c
  BY DEF IInv, TypeOK, MapIsOwn
<1>4. PlacesExclude'
  BY <1>3 DEF IInv, TypeOK, PlacesExclude, Ids
<1>5. NoneLost'
  <2>1. \A c \in Calls : call[c] \in {"writing", "waiting"} => id[c] \in Ids
    BY DEF IInv, TypeOK, IdsAreOwn
  <2> QED
    BY <2>1 DEF IInv, TypeOK, NoneLost
<1>6. Outcomes'
  <2>1. RightReply'
    BY DEF IInv, Outcomes, RightReply
  <2>2. LeaksOnlyOnCancel'
    BY DEF IInv, TypeOK, LeaksOnlyOnCancel
  <2> QED
    BY <2>1, <2>2 DEF IInv, TypeOK, Outcomes
<1>7. Heard'
  BY DEF IInv, TypeOK, Heard
<1> QED
  BY <1>1, <1>2, <1>4, <1>5, <1>6, <1>7 DEF IInv

\* The other steps change no variable the invariant relates, except that more
\* contexts are cancelled and the read loop leaves its scan.
LEMMA OtherIInv ==
  ASSUME IInv,
         \/ \E q \in Inbound : ReadInbound(q) \/ HandleInbound(q)
         \/ ReadEOF
         \/ \E k \in Closers : CloseWriter(k) \/ CloseReader(k)
         \/ \E c \in Calls : CancelContext(c)
         \/ ServerEndsOutput \/ ServerStopsReading
         \/ UNCHANGED vars
  PROVE  IInv'
<1> USE DEF ReadInbound, HandleInbound, ReadEOF, CloseWriter, CloseReader,
            CancelContext, ServerEndsOutput, ServerStopsReading, Reading, vars,
            callVars, regVars, chanVars, readVars, streamVars
<1>1. TypeOK'
  BY DEF IInv, TypeOK
<1>2. UNCHANGED <<idCtr, id, call, pending, chan, closed, done, held, outcome,
                  received, replied>>
  OBVIOUS
<1>3. reader' = reader \/ (reader = "read" /\ reader' = "closing")
  OBVIOUS
<1>4. ctxDone \subseteq ctxDone'
  OBVIOUS
<1>5. IdsAreOwn' /\ MapIsOwn' /\ PlacesExclude' /\ Heard'
  BY <1>2, <1>3, <1>4 DEF IInv, IdsAreOwn, MapIsOwn, PlacesExclude, Heard
<1>6. NoneLost' /\ Outcomes'
  BY <1>2, <1>3, <1>4
  DEF IInv, NoneLost, Outcomes, RightReply, LeaksOnlyOnCancel
<1> QED
  BY <1>1, <1>5, <1>6 DEF IInv

-----------------------------------------------------------------------------
\* Every step preserves the invariant.
LEMMA NextIInv == IInv /\ [Next]_vars => IInv'
<1> SUFFICES ASSUME IInv, [Next]_vars PROVE IInv'
  OBVIOUS
<1> USE DEF Next, CallStep, ReadLoopStep, CloserStep
<1>1. ASSUME NEW c \in Calls, Register(c) \/ CallStep(c) \/ CancelContext(c)
      PROVE  IInv'
  <2>1. CASE Register(c)
    BY <2>1, RegisterIInv
  <2>2. CASE WriteRequest(c)
    BY <2>2, WriteIInv
  <2>3. CASE \/ WriteFails(c) \/ ReceiveReply(c) \/ ReceiveClosed(c)
             \/ SeeDone(c) \/ SeeContext(c)
    BY <2>3, EndIInv
  <2>4. CASE CancelContext(c)
    BY <2>4, OtherIInv
  <2> QED
    BY <1>1, <2>1, <2>2, <2>3, <2>4
<1>2. CASE \E i \in Ids : ReadReply(i)
  BY <1>2, ReadReplyIInv
<1>3. CASE ReadLoopStep
  BY <1>3, SendReplyIInv, CloseDoneIInv, SweepIInv, OtherIInv
<1>4. CASE \E k \in Closers : Close(k) \/ CloserStep(k)
  BY <1>4, CloseDoneIInv, SweepIInv, OtherIInv
<1>5. CASE \/ \E q \in Inbound : ReadInbound(q) \/ HandleInbound(q)
           \/ ServerEndsOutput \/ ServerStopsReading
           \/ UNCHANGED vars
  BY <1>5, OtherIInv
<1> QED
  BY <1>1, <1>2, <1>3, <1>4, <1>5

\* The transport keeps its inductive invariant.
LEMMA SpecIInv == Spec => []IInv
  BY InitIInv, NextIInv, PTL DEF Spec

-----------------------------------------------------------------------------
\* Every variable of stdioTransport keeps its type, whatever the server sends.
THEOREM TypeCorrect == Spec => []TypeOK
<1>1. IInv => TypeOK
  BY DEF IInv
<1> QED
  BY <1>1, SpecIInv, PTL

\* The read loop never sends on a closed or a full channel and no channel is
\* closed twice: readLoop and shutdown cannot panic or wedge each other.
THEOREM ChannelsAreDisciplined == Spec => []ChannelDiscipline
<1>1. IInv => ChannelDiscipline
  BY TransportAssumption
  DEF IInv, TypeOK, MapIsOwn, PlacesExclude, ChannelDiscipline, Registered
<1> QED
  BY <1>1, SpecIInv, PTL

\* A call that returns a message returns a reply to its own request, under an id
\* that no other call ever had.
THEOREM RepliesAreOwn == Spec => []OwnReply
<1>1. IInv => OwnReply
  BY DEF IInv, TypeOK, Outcomes, RightReply, IdsAreOwn, OwnReply, Ids
<1> QED
  BY <1>1, SpecIInv, PTL

\* A call that waits can still be woken by its own channel.
THEOREM NoWaiterIsLost == Spec => []NoLostWaiter
<1>1. IInv => NoLostWaiter
  BY DEF IInv, NoneLost, NoLostWaiter
<1> QED
  BY <1>1, SpecIInv, PTL

\* An abandoned entry of pending is there because of a cancelled context or a
\* shutdown.
THEOREM LeaksAreCancelled == Spec => []LeaksOnlyOnCancel
<1>1. IInv => LeaksOnlyOnCancel
  BY DEF IInv, Outcomes
<1> QED
  BY <1>1, SpecIInv, PTL

\* The read loop only stops after closing done.
THEOREM StoppedTransportIsDone == Spec => []StoppedIsDone
<1>1. IInv => StoppedIsDone
  BY DEF IInv, Outcomes, StoppedIsDone
<1> QED
  BY <1>1, SpecIInv, PTL
-----------------------------------------------------------------------------
(* ClientTransport implements Exchange: each step of a call opens or ends   *)
(* its own exchange, the read loop's ReadReply is the peer's reply, closing *)
(* done is the end, and everything else is a stutter.                       *)

\* How a call's place and outcome read as the state of its exchange.
LEMMA StatusCases ==
  ASSUME NEW c \in Calls, IInv
  PROVE  /\ call[c] = "idle" => StatusOf(c) = "idle"
         /\ call[c] \in {"writing", "waiting"} => StatusOf(c) = "open"
         /\ call[c] = "ended" /\ outcome[c] = id[c] => StatusOf(c) = "answered"
         /\ call[c] = "ended" /\ outcome[c] = Failed => StatusOf(c) = "failed"
  BY TransportAssumption DEF StatusOf, IInv, TypeOK, Failed, Ids

\* A call that does not move keeps the state of its exchange.
LEMMA StatusUnmoved ==
  ASSUME NEW c \in Calls, UNCHANGED <<call[c], id[c], outcome[c]>>
  PROVE  StatusOf(c)' = StatusOf(c)
  BY DEF StatusOf

\* The initial states correspond.
LEMMA InitRefines == Init => X!Init
  BY DEF Init, X!Init, ExchangeStatus, StatusOf
\* A step that moves no call, reads no reply and leaves done alone is a stutter.
LEMMA QuietStep ==
  ASSUME UNCHANGED <<call, id, outcome, replied, done>>
  PROVE  UNCHANGED X!vars
  BY DEF X!vars, ExchangeStatus, StatusOf

\* Registering opens the call's exchange: its fresh id was never replied to.
LEMMA RegisterRefines ==
  ASSUME IInv, NEW c \in Calls, Register(c)
  PROVE  X!Open(c)
<1> USE TransportAssumption DEF Register, NextId, readVars
<1>1. ExchangeStatus[c] = "idle"
  BY StatusCases DEF ExchangeStatus
<1>2. ExchangeStatus' = [ExchangeStatus EXCEPT ![c] = "open"]
  <2>1. call'[c] = "writing"
    BY DEF IInv, TypeOK
  <2>2. StatusOf(c)' = "open"
    BY <2>1 DEF StatusOf
  <2>3. \A d \in Calls \ {c} : UNCHANGED <<call[d], id[d], outcome[d]>>
    BY DEF IInv, TypeOK
  <2>4. \A d \in Calls \ {c} : StatusOf(d)' = StatusOf(d)
    BY <2>3, StatusUnmoved
  <2> QED
    BY <2>2, <2>4 DEF ExchangeStatus
<1>3. NextId \notin replied /\ 0 \notin replied
  BY DEF IInv, TypeOK, Heard, Ids
<1>4. {d \in Calls : id[d] \in replied}' = {d \in Calls : id[d] \in replied}
  BY <1>3 DEF IInv, TypeOK, IdsAreOwn
<1> QED
  BY <1>1, <1>2, <1>4 DEF X!Open

\* A call that returns an error fails its exchange.
LEMMA FailRefines ==
  ASSUME IInv, NEW c \in Calls, call[c] \in {"writing", "waiting"}, Returns(c, Failed)
  PROVE  X!Fail(c)
<1> USE TransportAssumption DEF Returns, regVars, readVars
<1>1. ExchangeStatus[c] = "open"
  BY StatusCases DEF ExchangeStatus
<1>2. id[c] # Failed
  BY DEF IInv, TypeOK, Failed, Ids
<1>3. ExchangeStatus' = [ExchangeStatus EXCEPT ![c] = "failed"]
  <2>1. call'[c] = "ended" /\ outcome'[c] = Failed /\ id'[c] = id[c]
    BY <1>2 DEF IInv, TypeOK
  <2>2. StatusOf(c)' = "failed"
    BY <1>2, <2>1 DEF StatusOf
  <2>3. \A d \in Calls \ {c} : UNCHANGED <<call[d], id[d], outcome[d]>>
    BY DEF IInv, TypeOK
  <2>4. \A d \in Calls \ {c} : StatusOf(d)' = StatusOf(d)
    BY <2>3, StatusUnmoved
  <2> QED
    BY <2>2, <2>4 DEF ExchangeStatus
<1> QED
  BY <1>1, <1>3 DEF X!Fail

\* A call that returns what its channel buffers answers its exchange.
LEMMA ReceiveRefines ==
  ASSUME IInv, NEW c \in Calls, ReceiveReply(c)
  PROVE  X!Answer(c)
<1> USE TransportAssumption DEF ReceiveReply, Returns, regVars, readVars
<1>1. ExchangeStatus[c] = "open"
  BY StatusCases DEF ExchangeStatus
<1>2. chan[c] = id[c] /\ id[c] \in replied /\ id[c] # Failed
  BY DEF IInv, TypeOK, PlacesExclude, Heard, Failed, Ids
<1>3. ExchangeStatus' = [ExchangeStatus EXCEPT ![c] = "answered"]
  <2>1. call'[c] = "ended" /\ outcome'[c] = id[c] /\ id'[c] = id[c]
    BY <1>2 DEF IInv, TypeOK
  <2>2. StatusOf(c)' = "answered"
    BY <1>2, <2>1 DEF StatusOf
  <2>3. \A d \in Calls \ {c} : UNCHANGED <<call[d], id[d], outcome[d]>>
    BY DEF IInv, TypeOK
  <2>4. \A d \in Calls \ {c} : StatusOf(d)' = StatusOf(d)
    BY <2>3, StatusUnmoved
  <2> QED
    BY <2>2, <2>4 DEF ExchangeStatus
<1> QED
  BY <1>1, <1>2, <1>3 DEF X!Answer

\* A reply is read: the peer replied to the exchange of the call with that id,
\* or there is no such call and nothing changed.
LEMMA ReadReplyRefines ==
  ASSUME IInv, NEW i \in Ids, ReadReply(i)
  PROVE  (\E c \in Calls : X!PeerReplies(c)) \/ UNCHANGED X!vars
<1> USE DEF ReadReply, callVars, regVars
<1>1. UNCHANGED ExchangeStatus
  BY DEF ExchangeStatus, StatusOf
<1>2. CASE \E c \in Calls : id[c] = i
  <2>1. PICK c \in Calls : id[c] = i
    BY <1>2
  <2>2. \A d \in Calls : id[d] = i <=> d = c
    BY <2>1 DEF IInv, IdsAreOwn, Ids
  <2>3. {d \in Calls : id[d] \in replied}' = {d \in Calls : id[d] \in replied} \cup {c}
    BY <2>2
  <2>4. ExchangeStatus[c] # "idle"
    BY <2>1, TransportAssumption
    DEF IInv, TypeOK, IdsAreOwn, ExchangeStatus, StatusOf, Ids
  <2> QED
    BY <1>1, <2>3, <2>4 DEF X!PeerReplies
<1>3. CASE ~ \E c \in Calls : id[c] = i
  BY <1>1, <1>3 DEF X!vars
<1> QED
  BY <1>2, <1>3

\* Every step of the transport is a step of Exchange or a stutter.
LEMMA StepRefines == IInv /\ [Next]_vars => [X!Next]_(X!vars)
<1> SUFFICES ASSUME IInv, [Next]_vars PROVE X!Next \/ UNCHANGED X!vars
  OBVIOUS
<1>1. ASSUME NEW c \in Calls, Register(c) \/ CallStep(c) \/ CancelContext(c)
      PROVE  X!Next \/ UNCHANGED X!vars
  <2>1. CASE Register(c)
    BY <2>1, RegisterRefines DEF X!Next
  <2>2. CASE WriteRequest(c)
    <3>1. StatusOf(c)' = "open" /\ StatusOf(c) = "open"
      BY <2>2 DEF WriteRequest, IInv, TypeOK, StatusOf
    <3>2. \A d \in Calls \ {c} : UNCHANGED <<call[d], id[d], outcome[d]>>
      BY <2>2 DEF WriteRequest, IInv, TypeOK, regVars
    <3>3. \A d \in Calls \ {c} : StatusOf(d)' = StatusOf(d)
      BY <3>2, StatusUnmoved
    <3>4. ExchangeStatus' = ExchangeStatus
      BY <3>1, <3>3 DEF ExchangeStatus
    <3> QED
      BY <2>2, <3>4 DEF WriteRequest, X!vars, regVars, readVars
  <2>3. CASE ReceiveReply(c)
    BY <2>3, ReceiveRefines DEF X!Next
  <2>4. CASE WriteFails(c) \/ ReceiveClosed(c) \/ SeeDone(c) \/ SeeContext(c)
    BY <2>4, FailRefines
    DEF WriteFails, ReceiveClosed, SeeDone, SeeContext, X!Next
  <2>5. CASE CancelContext(c)
    BY <2>5, QuietStep DEF CancelContext, callVars, regVars, readVars
  <2> QED
    BY <1>1, <2>1, <2>2, <2>3, <2>4, <2>5 DEF CallStep
<1>2. CASE \E i \in Ids : ReadReply(i)
  BY <1>2, ReadReplyRefines DEF X!Next
<1>3. CASE ReaderCloses \/ \E k \in Closers : Close(k)
  <2>1. UNCHANGED <<call, id, outcome, replied>> /\ done' = TRUE
    BY <1>3 DEF ReaderCloses, Close, CloseDone, callVars, regVars
  <2>2. UNCHANGED ExchangeStatus
    BY <2>1 DEF ExchangeStatus, StatusOf
  <2> QED
    BY <2>1, <2>2 DEF X!Next, X!End
<1>4. CASE \/ \E q \in Inbound : ReadInbound(q) \/ HandleInbound(q)
           \/ SendReply \/ ReadEOF
  BY <1>4, QuietStep
  DEF ReadInbound, HandleInbound, SendReply, ReadEOF, callVars, regVars, readVars
<1>5. CASE ReaderSweeps \/ \E k \in Closers : CloserStep(k)
  BY <1>5, QuietStep
  DEF ReaderSweeps, CloserStep, CloserSweeps, CloseWriter, CloseReader, Sweep,
      callVars, regVars, readVars
<1>6. CASE ServerEndsOutput \/ ServerStopsReading \/ UNCHANGED vars
  BY <1>6, QuietStep
  DEF ServerEndsOutput, ServerStopsReading, vars, callVars, regVars, readVars
<1> QED
  BY <1>1, <1>2, <1>3, <1>4, <1>5, <1>6 DEF Next, ReadLoopStep, CloserStep

\* roundTrip implements the safety part of Exchange, for any number of calls.
THEOREM TransportImplementsExchange == Spec => ImplementsExchangeSafety
  BY InitRefines, StepRefines, SpecIInv, PTL
  DEF Spec, ImplementsExchangeSafety, X!Safety
=============================================================================
