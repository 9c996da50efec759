--------------------------- MODULE ClientTransport ---------------------------
(***************************************************************************)
(* The client's bidirectional transport: stdioTransport in                 *)
(* client/transport.go, with the id allocation of client/client.go.        *)
(*                                                                         *)
(* Processes.  Each call of roundTrip runs on its caller's goroutine: it   *)
(* registers a channel of capacity 1 under its id, writes the request and  *)
(* selects on its context, the transport's done channel and its own        *)
(* channel.  The read loop takes each reply's channel out of the map and   *)
(* sends to it outside the lock; it hands server-initiated lines to        *)
(* goroutines of their own.  Any number of goroutines may call Close,      *)
(* which runs the same shutdown as the read loop does at end of input.     *)
(*                                                                         *)
(* The server is the environment: it may reply to a request it received    *)
(* any number of times, in any order, or never; send requests and          *)
(* notifications; end its output; stop reading.                            *)
(***************************************************************************)
EXTENDS Naturals

CONSTANTS
  Calls,      \* the calls of roundTrip
  Inbound,    \* requests and notifications the server may send
  Asks,       \* those of Inbound that carry an id, and so get a reply
  Closers,    \* goroutines that may call Close
  NoCall,     \* "no channel under this id"
  MaxId       \* bound: the ids nextID hands out

ASSUME TransportAssumption ==
  /\ NoCall \notin Calls
  /\ Asks \subseteq Inbound
  /\ MaxId \in Nat

Ids == 1 .. MaxId

VARIABLES
  idCtr,      \* Client.idCtr
  call,       \* where each roundTrip is
  id,         \* the id of each call's request
  pending,    \* stdioTransport.pending: the call whose channel is under an id
  chan,       \* what each call's channel buffers: 0 or the id of a reply
  closed,     \* the calls whose channel is closed
  done,       \* the done channel is closed
  reader,     \* where the read loop is
  held,       \* the channel and the reply the read loop is about to send
  inbound,    \* where each server-initiated line and its goroutine are
  closer,     \* where each call of Close is
  wOpen,      \* writes to the server succeed
  rOpen,      \* the client's reading end is open
  serverEOF,  \* the server has ended its output
  ctxDone,    \* the calls whose context is cancelled
  received,   \* ids of the requests the server has read
  replied,    \* ids the read loop has read a reply to
  outcome     \* what roundTrip returned: 0 not yet, a reply's id, or Failed

vars == <<idCtr, call, id, pending, chan, closed, done, reader, held, inbound,
          closer, wOpen, rOpen, serverEOF, ctxDone, received, replied, outcome>>

callVars   == <<call, outcome>>
regVars    == <<idCtr, id>>
chanVars   == <<chan, closed>>
readVars   == <<reader, held, replied>>
streamVars == <<wOpen, rOpen, serverEOF>>

Failed  == MaxId + 1      \* roundTrip returned an error
Nothing == [call |-> NoCall, id |-> 0]

Init ==
  /\ idCtr = 0
  /\ call = [c \in Calls |-> "idle"]
  /\ id = [c \in Calls |-> 0]
  /\ pending = [i \in Ids |-> NoCall]
  /\ chan = [c \in Calls |-> 0]
  /\ closed = {}
  /\ done = FALSE
  /\ reader = "read"
  /\ held = Nothing
  /\ inbound = [q \in Inbound |-> "unsent"]
  /\ closer = [k \in Closers |-> "idle"]
  /\ wOpen = TRUE
  /\ rOpen = TRUE
  /\ serverEOF = FALSE
  /\ ctxDone = {}
  /\ received = {}
  /\ replied = {}
  /\ outcome = [c \in Calls |-> 0]

-----------------------------------------------------------------------------
(* roundTrip.                                                              *)

LostIncrement == 1      \* mutant of NextId: callers read the same counter

\* Client.nextID, an atomic add.
NextId == idCtr + 1

\* The channel is registered before the request is written.
Register(c) ==
  /\ call[c] = "idle"
  /\ idCtr < MaxId
  /\ idCtr' = NextId
  /\ id' = [id EXCEPT ![c] = NextId]
  /\ pending' = [pending EXCEPT ![NextId] = c]
  /\ call' = [call EXCEPT ![c] = "writing"]
  /\ UNCHANGED <<chanVars, done, readVars, inbound, closer, streamVars, ctxDone,
                 received, outcome>>

WriteRequest(c) ==
  /\ call[c] = "writing"
  /\ wOpen
  /\ received' = received \cup {id[c]}
  /\ call' = [call EXCEPT ![c] = "waiting"]
  /\ UNCHANGED <<regVars, pending, chanVars, done, readVars, inbound, closer,
                 streamVars, ctxDone, outcome>>

\* roundTrip returns o: the select has one case ready, or the write failed.
Returns(c, o) ==
  /\ call' = [call EXCEPT ![c] = "ended"]
  /\ outcome' = [outcome EXCEPT ![c] = o]
  /\ UNCHANGED <<regVars, done, readVars, inbound, closer, streamVars, ctxDone,
                 received>>

WriteFails(c) ==
  /\ call[c] = "writing"
  /\ ~wOpen
  /\ pending' = [pending EXCEPT ![id[c]] = NoCall]
  /\ Returns(c, Failed)
  /\ UNCHANGED chanVars

\* case m, ok := <-ch with a message in the buffer (a closed channel still
\* yields what it buffers).
ReceiveReply(c) ==
  /\ call[c] = "waiting"
  /\ chan[c] # 0
  /\ Returns(c, chan[c])
  /\ chan' = [chan EXCEPT ![c] = 0]
  /\ UNCHANGED <<pending, closed>>

ReceiveClosed(c) ==
  /\ call[c] = "waiting"
  /\ chan[c] = 0
  /\ c \in closed
  /\ Returns(c, Failed)
  /\ UNCHANGED <<pending, chanVars>>

\* mutant of SeeDone: the select lacks the case while the call is registered
SeeDoneUnregistered(c) ==
  /\ call[c] = "waiting"
  /\ done /\ pending[id[c]] # c
  /\ Returns(c, Failed)
  /\ UNCHANGED <<pending, chanVars>>

\* case <-t.done
SeeDone(c) ==
  /\ call[c] = "waiting"
  /\ done
  /\ Returns(c, Failed)
  /\ UNCHANGED <<pending, chanVars>>

\* case <-ctx.Done(): the entry stays in pending.
SeeContext(c) ==
  /\ call[c] = "waiting"
  /\ c \in ctxDone
  /\ Returns(c, Failed)
  /\ UNCHANGED <<pending, chanVars>>

-----------------------------------------------------------------------------
(* readLoop.                                                               *)

Reading ==
  /\ reader = "read"
  /\ rOpen
  /\ ~serverEOF

LeftRegistered(i) == pending         \* mutant of Taken: no delete on delivery

\* delete(t.pending, id), under the lock that looked the channel up.
Taken(i) == [pending EXCEPT ![i] = NoCall]

\* ch != nil
HasWaiter(i) == pending[i] # NoCall

\* A reply: its channel, if any, is taken out of the map; the lock is released
\* before the send.
ReadReply(i) ==
  /\ Reading
  /\ i \in received
  /\ replied' = replied \cup {i}
  /\ pending' = Taken(i)
  /\ IF HasWaiter(i)
     THEN /\ reader' = "send"
          /\ held' = [call |-> pending[i], id |-> i]
     ELSE UNCHANGED <<reader, held>>
  /\ UNCHANGED <<callVars, regVars, chanVars, done, inbound, closer, streamVars,
                 ctxDone, received>>

\* ch <- m.  A send on a closed channel panics and a send to a full one blocks:
\* ChannelDiscipline states that neither happens.
SendReply ==
  /\ reader = "send"
  /\ held.call \notin closed
  /\ chan[held.call] = 0
  /\ chan' = [chan EXCEPT ![held.call] = held.id]
  /\ reader' = "read"
  /\ held' = Nothing
  /\ UNCHANGED <<callVars, regVars, pending, closed, done, inbound, closer,
                 streamVars, ctxDone, received, replied>>

\* A server request or notification: handled on a goroutine of its own.
ReadInbound(q) ==
  /\ Reading
  /\ inbound[q] = "unsent"
  /\ inbound' = [inbound EXCEPT ![q] = "handling"]
  /\ UNCHANGED <<callVars, regVars, pending, chanVars, done, readVars, closer,
                 streamVars, ctxDone, received>>

\* onNotify returns, or serveRequest writes the reply; its write error is
\* ignored.
HandleInbound(q) ==
  /\ inbound[q] = "handling"
  /\ inbound' = [inbound EXCEPT ![q] =
                   IF q \in Asks /\ wOpen THEN "replied" ELSE "handled"]
  /\ UNCHANGED <<callVars, regVars, pending, chanVars, done, readVars, closer,
                 streamVars, ctxDone, received>>

\* Scan returns false.
ReadEOF ==
  /\ reader = "read"
  /\ ~rOpen \/ serverEOF
  /\ reader' = "closing"
  /\ UNCHANGED <<callVars, regVars, pending, chanVars, done, held, replied,
                 inbound, closer, streamVars, ctxDone, received>>

-----------------------------------------------------------------------------
(* shutdown, run by the read loop and by every call of Close.               *)

\* closeOnce.Do(close(done))
CloseDone ==
  /\ done' = TRUE
  /\ UNCHANGED <<callVars, regVars, pending, chanVars, inbound, streamVars,
                 ctxDone, received, held, replied>>

Registered == {pending[i] : i \in Ids} \ {NoCall}

SweptNothing == closed                      \* mutant of Swept: no close(ch)

\* close(ch) for every entry; ChannelDiscipline states that none is closed
\* already.
Swept == closed \cup Registered

\* The loop over pending, under the lock.
Sweep ==
  /\ closed' = Swept
  /\ pending' = [i \in Ids |-> NoCall]
  /\ UNCHANGED <<callVars, regVars, chan, done, inbound, streamVars, ctxDone,
                 received, held, replied>>

ReaderCloses ==
  /\ reader = "closing"
  /\ reader' = "sweeping"
  /\ CloseDone
  /\ UNCHANGED closer

ReaderSweeps ==
  /\ reader = "sweeping"
  /\ reader' = "stopped"
  /\ Sweep
  /\ UNCHANGED closer

Close(k) ==
  /\ closer[k] = "idle"
  /\ closer' = [closer EXCEPT ![k] = "sweeping"]
  /\ CloseDone
  /\ UNCHANGED reader

CloserSweeps(k) ==
  /\ closer[k] = "sweeping"
  /\ closer' = [closer EXCEPT ![k] = "closingW"]
  /\ Sweep
  /\ UNCHANGED reader

CloseWriter(k) ==
  /\ closer[k] = "closingW"
  /\ closer' = [closer EXCEPT ![k] = "closingR"]
  /\ wOpen' = FALSE
  /\ UNCHANGED <<callVars, regVars, pending, chanVars, done, readVars, inbound,
                 rOpen, serverEOF, ctxDone, received>>

CloseReader(k) ==
  /\ closer[k] = "closingR"
  /\ closer' = [closer EXCEPT ![k] = "closed"]
  /\ rOpen' = FALSE
  /\ UNCHANGED <<callVars, regVars, pending, chanVars, done, readVars, inbound,
                 wOpen, serverEOF, ctxDone, received>>

-----------------------------------------------------------------------------
(* The environment.                                                        *)

CancelContext(c) ==
  /\ c \notin ctxDone
  /\ ctxDone' = ctxDone \cup {c}
  /\ UNCHANGED <<callVars, regVars, pending, chanVars, done, readVars, inbound,
                 closer, streamVars, received>>

ServerEndsOutput ==
  /\ ~serverEOF
  /\ serverEOF' = TRUE
  /\ UNCHANGED <<callVars, regVars, pending, chanVars, done, readVars, inbound,
                 closer, wOpen, rOpen, ctxDone, received>>

ServerStopsReading ==
  /\ wOpen
  /\ wOpen' = FALSE
  /\ UNCHANGED <<callVars, regVars, pending, chanVars, done, readVars, inbound,
                 closer, rOpen, serverEOF, ctxDone, received>>

-----------------------------------------------------------------------------
CallStep(c) ==
  \/ WriteRequest(c) \/ WriteFails(c) \/ ReceiveReply(c) \/ ReceiveClosed(c)
  \/ SeeDone(c) \/ SeeContext(c)

CloserStep(k) == CloserSweeps(k) \/ CloseWriter(k) \/ CloseReader(k)

ReadLoopStep == SendReply \/ ReadEOF \/ ReaderCloses \/ ReaderSweeps

Next ==
  \/ \E c \in Calls : Register(c) \/ CallStep(c) \/ CancelContext(c)
  \/ \E i \in Ids : ReadReply(i)
  \/ \E q \in Inbound : ReadInbound(q) \/ HandleInbound(q)
  \/ ReadLoopStep
  \/ \E k \in Closers : Close(k) \/ CloserStep(k)
  \/ ServerEndsOutput \/ ServerStopsReading

Spec == Init /\ [][Next]_vars

(***************************************************************************)
(* Every goroutine that can run does.  Writing is fair because the peer    *)
(* reads or its stream breaks; whether the server replies, and whether     *)
(* anyone calls or closes, is not assumed.                                 *)
(***************************************************************************)
Fairness ==
  /\ \A c \in Calls : WF_vars(CallStep(c))
  /\ WF_vars(ReadLoopStep)
  /\ \A q \in Inbound : WF_vars(HandleInbound(q))
  /\ \A k \in Closers : WF_vars(CloserStep(k))

FairSpec == Spec /\ Fairness

-----------------------------------------------------------------------------
TypeOK ==
  /\ idCtr \in 0 .. MaxId
  /\ call \in [Calls -> {"idle", "writing", "waiting", "ended"}]
  /\ id \in [Calls -> {0} \cup Ids]
  /\ pending \in [Ids -> Calls \cup {NoCall}]
  /\ chan \in [Calls -> {0} \cup Ids]
  /\ closed \subseteq Calls
  /\ done \in BOOLEAN
  /\ reader \in {"read", "send", "closing", "sweeping", "stopped"}
  /\ held \in [call : Calls \cup {NoCall}, id : {0} \cup Ids]
  /\ reader = "send" => held.call \in Calls /\ held.id \in Ids
  /\ inbound \in [Inbound -> {"unsent", "handling", "replied", "handled"}]
  /\ closer \in [Closers -> {"idle", "sweeping", "closingW", "closingR", "closed"}]
  /\ wOpen \in BOOLEAN
  /\ rOpen \in BOOLEAN
  /\ serverEOF \in BOOLEAN
  /\ ctxDone \subseteq Calls
  /\ received \subseteq Ids
  /\ replied \subseteq Ids
  /\ outcome \in [Calls -> {0, Failed} \cup Ids]

-----------------------------------------------------------------------------
(* Safety.                                                                 *)

\* The read loop never sends on a closed channel (a panic in Go) nor on a full
\* one (a read loop stuck for ever), and shutdown never closes a channel twice,
\* however Close, replies and duplicates interleave (transport.go:103-112,
\* 142-150).
ChannelDiscipline ==
  /\ reader = "send" => held.call \notin closed /\ chan[held.call] = 0
  /\ Registered \cap closed = {}

\* A call that returns a message returns a reply to its own request, whose id no
\* other call ever had (client.go:164, transport.go:103-112).
OwnReply ==
  \A c \in Calls : outcome[c] \in Ids =>
    outcome[c] = id[c] /\ \A d \in Calls \ {c} : id[d] # id[c]

\* A call that waits can always still be woken: its channel is in the map, in
\* the read loop's hands, filled or closed.  None is forgotten (transport.go:
\* 105-111 take the channel out of the map before sending to it).
NoLostWaiter ==
  \A c \in Calls : call[c] = "waiting" =>
    \/ pending[id[c]] = c
    \/ reader = "send" /\ held.call = c
    \/ chan[c] # 0
    \/ c \in closed

\* An entry outlives its call only when the call was cancelled or the transport
\* is shutting down (transport.go:165-169 return without a delete).
LeaksOnlyOnCancel ==
  \A c \in Calls : call[c] = "ended" /\ id[c] # 0 /\ pending[id[c]] = c =>
    c \in ctxDone \/ done

\* Once the read loop has stopped, done is closed: no call can wait on a
\* transport nobody reads.
StoppedIsDone == reader = "stopped" => done

-----------------------------------------------------------------------------
(* The abstract specification this implements.                             *)

StatusOf(c) ==
  CASE call[c] = "idle" -> "idle"
    [] call[c] \in {"writing", "waiting"} -> "open"
    [] call[c] = "ended" /\ outcome[c] = id[c] -> "answered"
    [] call[c] = "ended" /\ outcome[c] = Failed -> "failed"
    [] OTHER -> "answered by another's reply"

ExchangeStatus == [c \in Calls |-> StatusOf(c)]

X == INSTANCE Exchange WITH
       Ids <- Calls,
       status <- ExchangeStatus,
       replied <- {c \in Calls : id[c] \in replied},
       over <- done

\* Each call of roundTrip is one exchange: opened once, ended once, answered only
\* by a reply the server sent to that call's request.
ImplementsExchangeSafety == X!Safety

\* And no exchange stays open once its reply was read or the transport is done.
ImplementsExchange == X!Spec

-----------------------------------------------------------------------------
(* Liveness.                                                               *)

\* Every call that began returns once the transport is closed or the server has
\* ended its output, even when it registers after the sweep (transport.go:155),
\* and once its own context is cancelled, whatever became of its entry.
NoCallHangs ==
  \A c \in Calls :
    (call[c] # "idle" /\ (done \/ serverEOF \/ c \in ctxDone)) ~> call[c] = "ended"
=============================================================================
