-------------------------- MODULE ConnectionProofs ---------------------------
(***************************************************************************)
(* Proofs about Connection, for any sets of calls, nested calls and        *)
(* closers, and any number of server-to-client requests.                   *)
(*                                                                         *)
(* Each side takes steps of its own specification, so what SessionProofs   *)
(* and ClientTransportProofs prove of their components holds of them here  *)
(* too.  What relates the sides needs little more: a response is on the    *)
(* wire before the client has read it, a reply is written before the       *)
(* server has, and a line is read by its addressee only.                   *)
(***************************************************************************)
EXTENDS Connection, TLAPS, FiniteSetTheorems

\* The invariants of the components, proved in their own modules.
SP == INSTANCE SessionProofs WITH
        Requests <- Calls, Notes <- {}, MaxReplies <- 1, reader <- sReader,
        held <- sHeld, idCtr <- keyCtr, pending <- sPending, chan <- sChan,
        outcome <- sOutcome

CP == INSTANCE ClientTransportProofs WITH
        Inbound <- Keys, Asks <- Keys, pending <- cPending, chan <- cChan,
        reader <- cReader, held <- cHeld, ctxDone <- callCtxDone, outcome <- cOutcome

\* The client has read a response only to a call whose handler wrote it and ended.
AnswersAreWritten ==
  \A c \in Calls : id[c] \in replied => task[c] = "done" /\ responses[c] = 1

\* A call has returned a message only when the client had read it.
OutcomesAreReplies ==
  \A c \in Calls : cOutcome[c] \in 1 .. MaxId => id[c] \in replied

\* The server has read a reply only to an ask whose handler has ended.
RepliesAreInTurn ==
  \A k \in Keys : replies[k] > 0 =>
    /\ inbound[k] = "replied"
    /\ \A c \in Nested : caller[c] = k => call[c] = "ended"

HostWaits == host # "serving" => sReader = "returned"

OwnTypes ==
  /\ caller \in [Nested -> {0} \cup Keys]
  /\ host \in {"serving", "closing", "ended"}

IInv ==
  /\ CP!IInv
  /\ SP!IInv
  /\ OwnTypes
  /\ AnswersAreWritten
  /\ OutcomesAreReplies
  /\ RepliesAreInTurn
  /\ HostWaits

-----------------------------------------------------------------------------
(* The components' specifications, and those the proofs are about, are the  *)
(* same definitions.                                                        *)

LEMMA Assumptions == SP!SessionAssumption /\ CP!TransportAssumption
<1>1. SP!SessionAssumption
  BY ConnectionAssumption DEF SP!SessionAssumption
<1>2. MaxId \in Nat
  BY ConnectionAssumption, FS_CardinalityType DEF MaxId
<1>3. CP!TransportAssumption
  BY <1>2, ConnectionAssumption DEF CP!TransportAssumption
<1> QED
  BY <1>1, <1>3

LEMMA ServerNext == S!Next => SP!Next
  BY DEF S!Next, S!ReadTask, S!ReadReply, S!Deliver, S!ReadGarbled, S!ReportParseError,
         S!StopOnCancel, S!StopOnEOF, S!Return, S!Ask, S!SendAsk, S!SendAskFails,
         S!TakeReply, S!GiveUp, S!Leave, S!Finish, S!Respond, S!CancelContext,
         S!ClientClosesInput, S!ClientStopsReading, S!HandlerStep, S!ReadLoopStep,
         S!Scanned, S!InFlight, S!FreshKey, S!Registered, S!Deregistered,
         S!HasResponse, S!ChanCap, S!Cancelled, S!Failed, S!Active, S!Asking,
         S!NoReply, S!Tasks, S!Keys, S!readVars, S!envVars, S!askVars, SP!Next,
         SP!ReadTask, SP!ReadReply, SP!Deliver, SP!ReadGarbled, SP!ReportParseError,
         SP!StopOnCancel, SP!StopOnEOF, SP!Return, SP!Ask, SP!SendAsk, SP!SendAskFails,
         SP!TakeReply, SP!GiveUp, SP!Leave, SP!Finish, SP!Respond, SP!CancelContext,
         SP!ClientClosesInput, SP!ClientStopsReading, SP!HandlerStep, SP!ReadLoopStep,
         SP!Scanned, SP!InFlight, SP!FreshKey, SP!Registered, SP!Deregistered,
         SP!HasResponse, SP!ChanCap, SP!Cancelled, SP!Failed, SP!Active, SP!Asking,
         SP!NoReply, SP!Tasks, SP!Keys, SP!readVars, SP!envVars, SP!askVars

LEMMA ServerInit == S!Init => SP!Init
  BY DEF S!Init, S!NoReply, S!Tasks, S!Keys, SP!Init, SP!NoReply, SP!Tasks, SP!Keys

LEMMA ServerType == SP!TypeOK => S!TypeOK
  BY DEF S!TypeOK, S!Failed, S!Active, S!Asking, S!Tasks, S!Keys, SP!TypeOK, SP!Failed,
         SP!Active, SP!Asking, SP!Tasks, SP!Keys

LEMMA ClientNext == C!Next => CP!Next
  BY DEF C!Next, C!Register, C!WriteRequest, C!WriteFails, C!ReceiveReply,
         C!ReceiveClosed, C!SeeDone, C!SeeContext, C!ReadReply, C!SendReply,
         C!ReadInbound, C!HandleInbound, C!ReadEOF, C!ReaderCloses, C!ReaderSweeps,
         C!Close, C!CloserSweeps, C!CloseWriter, C!CloseReader, C!CancelContext,
         C!ServerEndsOutput, C!ServerStopsReading, C!CallStep, C!CloserStep,
         C!ReadLoopStep, C!Reading, C!NextId, C!Returns, C!Taken, C!HasWaiter,
         C!CloseDone, C!Registered, C!Swept, C!Sweep, C!Failed, C!Nothing, C!Ids,
         C!callVars, C!regVars, C!chanVars, C!readVars, C!streamVars, CP!Next,
         CP!Register, CP!WriteRequest, CP!WriteFails, CP!ReceiveReply,
         CP!ReceiveClosed, CP!SeeDone, CP!SeeContext, CP!ReadReply, CP!SendReply,
         CP!ReadInbound, CP!HandleInbound, CP!ReadEOF, CP!ReaderCloses,
         CP!ReaderSweeps, CP!Close, CP!CloserSweeps, CP!CloseWriter, CP!CloseReader,
         CP!CancelContext, CP!ServerEndsOutput, CP!ServerStopsReading, CP!CallStep,
         CP!CloserStep, CP!ReadLoopStep, CP!Reading, CP!NextId, CP!Returns, CP!Taken,
         CP!HasWaiter, CP!CloseDone, CP!Registered, CP!Swept, CP!Sweep, CP!Failed,
         CP!Nothing, CP!Ids, CP!callVars, CP!regVars, CP!chanVars, CP!readVars,
         CP!streamVars

LEMMA ClientInit == C!Init => CP!Init
  BY DEF C!Init, C!Nothing, C!Ids, CP!Init, CP!Nothing, CP!Ids

LEMMA ClientType == CP!TypeOK => C!TypeOK
  BY DEF C!TypeOK, C!Failed, C!Ids, CP!TypeOK, CP!Failed, CP!Ids

-----------------------------------------------------------------------------
(* Every step is a step of each side, or leaves it alone.                   *)

LEMMA ServerSide == [Next]_vars => [S!Next]_sVars
<1> SUFFICES ASSUME [Next]_vars PROVE S!Next \/ UNCHANGED sVars
  OBVIOUS
<1> USE DEF S!Next, S!HandlerStep, S!ReadLoopStep, S!Tasks, S!Keys, Keys,
            ClientOnly, ServerOnly, Joint
<1>1. CASE ToServer
  BY <1>1 DEF ToServer, WriteRequest, WriteReply
<1>2. CASE ToClient
  BY <1>2 DEF ToClient, WriteAsk, WriteResponse
<1>3. ASSUME NEW c \in Calls, Start(c) \/ CallStep(c) \/ HandlerStep(c)
      PROVE  S!Next \/ UNCHANGED sVars
  BY <1>3 DEF Start, CallStep, HandlerStep
<1>4. CASE ClientLoop \/ ServerLoop \/ HostClosesOutput \/ HostClosesInput
  BY <1>4 DEF ClientLoop, ServerLoop, HostClosesOutput, HostClosesInput
<1>5. ASSUME NEW k \in Closers, ClientOnly(C!Close(k)) \/ CloseStep(k)
      PROVE  S!Next \/ UNCHANGED sVars
  BY <1>5 DEF CloseStep
<1>6. ASSUME NEW k \in Keys, ReplyFails(k)
      PROVE  UNCHANGED sVars
  BY <1>6 DEF ReplyFails
<1>7. CASE UNCHANGED vars
  BY <1>7 DEF vars
<1> QED
  BY <1>1, <1>2, <1>3, <1>4, <1>5, <1>6, <1>7 DEF Next

\* What crosses is a key or an id: an ask that is written, a request that was read.
LEMMA ClientSide == CP!IInv /\ SP!IInv /\ [Next]_vars => [C!Next]_cVars
<1> SUFFICES ASSUME CP!IInv, SP!IInv, [Next]_vars PROVE C!Next \/ UNCHANGED cVars
  OBVIOUS
<1> USE DEF C!Next, C!CallStep, C!CloserStep, ClientOnly, ServerOnly, Joint
<1>1. CASE ToServer
  BY <1>1 DEF ToServer, WriteRequest, WriteReply
<1>2. CASE ToClient
  <2>1. ASSUME NEW t \in Calls, WriteAsk(t)
        PROVE  C!Next
    <3>1. task[t] = "asking" /\ C!ReadInbound(ask[t])
      BY <2>1 DEF WriteAsk, S!SendAsk
    <3>2. ask[t] \in Keys
      BY <3>1, ConnectionAssumption
         DEF SP!IInv, SP!TypeOK, SP!PendingMatchesAskers, SP!Asking, SP!Tasks, Keys
    <3> QED
      BY <3>1, <3>2
  <2>2. ASSUME NEW t \in Calls, WriteResponse(t)
        PROVE  C!Next
    <3>1. C!ReadReply(id[t]) /\ id[t] \in received
      BY <2>2 DEF WriteResponse, C!ReadReply
    <3>2. id[t] \in C!Ids
      BY <3>1 DEF CP!IInv, CP!TypeOK, CP!Ids, C!Ids
    <3> QED
      BY <3>1, <3>2
  <2> QED
    BY <1>2, <2>1, <2>2 DEF ToClient
<1>3. ASSUME NEW c \in Calls, Start(c) \/ CallStep(c) \/ HandlerStep(c)
      PROVE  C!Next \/ UNCHANGED cVars
  BY <1>3 DEF Start, CallStep, HandlerStep
<1>4. CASE ClientLoop \/ ServerLoop \/ HostClosesOutput \/ HostClosesInput
  BY <1>4 DEF ClientLoop, ServerLoop, HostClosesOutput, HostClosesInput
<1>5. ASSUME NEW k \in Closers, ClientOnly(C!Close(k)) \/ CloseStep(k)
      PROVE  C!Next
  BY <1>5 DEF CloseStep
<1>6. ASSUME NEW k \in Keys, ReplyFails(k)
      PROVE  C!Next
  BY <1>6 DEF ReplyFails
<1>7. CASE UNCHANGED vars
  BY <1>7 DEF vars
<1> QED
  BY <1>1, <1>2, <1>3, <1>4, <1>5, <1>6, <1>7 DEF Next

-----------------------------------------------------------------------------
(* What a step of either side never takes back.                             *)

LEMMA ServerKeeps ==
  ASSUME SP!TypeOK, S!Next \/ UNCHANGED sVars
  PROVE  /\ \A c \in Calls : task[c] = "done" => task'[c] = "done" /\ responses'[c] = responses[c]
         /\ sReader = "returned" => sReader' = "returned"
<1>1. task \in [Calls -> {"unsent", "done"} \cup SP!Active] /\ responses \in [Calls -> Nat]
  BY DEF SP!TypeOK, SP!Tasks
<1>2. CASE UNCHANGED sVars
  BY <1>2 DEF sVars
<1>3. CASE S!ReadLoopStep
  BY <1>1, <1>3 DEF S!ReadLoopStep, S!ReadTask, S!ReadReply, S!Deliver, S!ReadGarbled,
     S!ReportParseError, S!StopOnCancel, S!StopOnEOF, S!Return, S!Scanned, S!readVars
<1>4. ASSUME NEW t \in S!Tasks, S!HandlerStep(t)
      PROVE  /\ \A c \in Calls : task[c] = "done" => task'[c] = "done" /\ responses'[c] = responses[c]
             /\ sReader' = sReader
  BY <1>1, <1>4 DEF S!HandlerStep, S!Ask, S!SendAsk, S!SendAskFails, S!TakeReply, S!GiveUp,
     S!Leave, S!Finish, S!Respond, S!readVars, S!Tasks
<1>5. CASE S!CancelContext \/ S!ClientClosesInput \/ S!ClientStopsReading
  BY <1>5 DEF S!CancelContext, S!ClientClosesInput, S!ClientStopsReading, S!readVars
<1> QED
  BY <1>2, <1>3, <1>4, <1>5 DEF S!Next

\* An id stays its call's, an answered ask stays answered, an ended call ended; and a
\* call returns a message only out of its channel.
LEMMA ClientKeeps ==
  ASSUME CP!TypeOK, C!Next \/ UNCHANGED cVars
  PROVE  /\ \A c \in Calls : /\ id'[c] = id[c] \/ id'[c] = idCtr + 1
                             /\ id[c] # 0 => id'[c] = id[c] \/ call[c] = "idle"
                             /\ call[c] = "ended" => call'[c] = "ended"
                             /\ cOutcome'[c] \in {cOutcome[c], cChan[c], MaxId + 1}
         /\ \A k \in Keys : inbound[k] = "replied" => inbound'[k] = "replied"
         /\ replied \subseteq replied'
<1> DEFINE Kept ==
      /\ \A c \in Calls : /\ id'[c] = id[c] \/ id'[c] = idCtr + 1
                          /\ id[c] # 0 => id'[c] = id[c] \/ call[c] = "idle"
                          /\ call[c] = "ended" => call'[c] = "ended"
                          /\ cOutcome'[c] \in {cOutcome[c], cChan[c], MaxId + 1}
      /\ \A k \in Keys : inbound[k] = "replied" => inbound'[k] = "replied"
      /\ replied \subseteq replied'
<1>1. /\ id \in [Calls -> {0} \cup CP!Ids]
      /\ call \in [Calls -> {"idle", "writing", "waiting", "ended"}]
      /\ cOutcome \in [Calls -> {0, CP!Failed} \cup CP!Ids]
      /\ inbound \in [Keys -> {"unsent", "handling", "replied", "handled"}]
  BY DEF CP!TypeOK
<1>2. CASE UNCHANGED cVars
  BY <1>2 DEF cVars
<1>3. ASSUME NEW c \in Calls, C!Register(c) \/ C!CallStep(c) \/ C!CancelContext(c)
      PROVE  Kept
  <2>1. CASE C!Register(c)
    BY <1>1, <2>1 DEF C!Register, C!NextId, C!readVars
  <2>2. CASE C!CallStep(c)
    BY <1>1, <2>2 DEF C!CallStep, C!WriteRequest, C!WriteFails, C!ReceiveReply, C!ReceiveClosed,
       C!SeeDone, C!SeeContext, C!Returns, C!Failed, C!regVars, C!readVars
  <2>3. CASE C!CancelContext(c)
    BY <1>1, <2>3 DEF C!CancelContext, C!callVars, C!regVars, C!readVars
  <2> QED
    BY <1>3, <2>1, <2>2, <2>3
<1>4. ASSUME NEW i \in C!Ids, C!ReadReply(i)
      PROVE  Kept
  BY <1>4 DEF C!ReadReply, C!callVars, C!regVars
<1>5. ASSUME NEW q \in Keys, C!ReadInbound(q) \/ C!HandleInbound(q)
      PROVE  Kept
  BY <1>1, <1>5 DEF C!ReadInbound, C!HandleInbound, C!callVars, C!regVars, C!readVars
<1>6. CASE C!ReadLoopStep \/ C!ServerEndsOutput \/ C!ServerStopsReading
  BY <1>6 DEF C!ReadLoopStep, C!SendReply, C!ReadEOF, C!ReaderCloses, C!ReaderSweeps, C!CloseDone,
     C!Sweep, C!ServerEndsOutput, C!ServerStopsReading, C!callVars, C!regVars, C!readVars
<1>7. ASSUME NEW k \in Closers, C!Close(k) \/ C!CloserStep(k)
      PROVE  Kept
  BY <1>7 DEF C!CloserStep, C!Close, C!CloserSweeps, C!CloseWriter, C!CloseReader, C!CloseDone,
     C!Sweep, C!callVars, C!regVars, C!readVars
<1> QED
  BY <1>2, <1>3, <1>4, <1>5, <1>6, <1>7 DEF C!Next

\* What crosses between the sides crosses in the joint steps only.
LEMMA RepliedMoves ==
  ASSUME [Next]_vars
  PROVE  replied' = replied \/ \E c \in Calls : WriteResponse(c)
<1> USE DEF ClientOnly, ServerOnly, Joint, C!callVars, C!regVars, C!chanVars, C!readVars,
            C!streamVars
<1>1. CASE ToServer
  BY <1>1 DEF ToServer, WriteRequest, WriteReply, C!WriteRequest, C!HandleInbound
<1>2. CASE ToClient
  BY <1>2 DEF ToClient, WriteAsk, C!ReadInbound
<1>3. ASSUME NEW c \in Calls, Start(c) \/ HandlerStep(c) \/ ServerOnly(S!Ask(c) \/ S!Finish(c))
             \/ ClientOnly(C!CancelContext(c))
      PROVE  replied' = replied
  BY <1>3 DEF Start, HandlerStep, C!Register, C!CancelContext, cVars
<1>4. ASSUME NEW c \in Calls, CallStep(c)
      PROVE  replied' = replied
  BY <1>4 DEF CallStep, C!WriteFails, C!ReceiveReply, C!ReceiveClosed, C!SeeDone, C!SeeContext,
     C!Returns
<1>5. CASE ClientLoop
  BY <1>5 DEF ClientLoop, C!ReadLoopStep, C!SendReply, C!ReadEOF, C!ReaderCloses,
     C!ReaderSweeps, C!CloseDone, C!Sweep
<1>6. CASE ServerLoop \/ HostClosesOutput \/ HostClosesInput \/ ServerOnly(S!CancelContext)
  BY <1>6 DEF ServerLoop, HostClosesOutput, HostClosesInput, C!ServerEndsOutput,
     C!ServerStopsReading, cVars
<1>7. ASSUME NEW k \in Closers, ClientOnly(C!Close(k)) \/ CloseStep(k)
      PROVE  replied' = replied
  BY <1>7 DEF CloseStep, C!Close, C!CloserSweeps, C!CloseWriter, C!CloseReader, C!CloseDone,
     C!Sweep
<1>8. ASSUME NEW k \in Keys, ReplyFails(k)
      PROVE  replied' = replied
  BY <1>8 DEF ReplyFails, C!HandleInbound
<1>9. CASE UNCHANGED vars
  BY <1>9 DEF vars, cVars
<1> QED
  BY <1>1, <1>2, <1>3, <1>4, <1>5, <1>6, <1>7, <1>8, <1>9 DEF Next

LEMMA RepliesMove ==
  ASSUME [Next]_vars
  PROVE  replies' = replies \/ \E k \in Keys : WriteReply(k)
<1> USE DEF ClientOnly, ServerOnly, Joint, S!readVars, S!envVars, S!askVars
<1>1. CASE ToServer
  BY <1>1 DEF ToServer, WriteRequest, S!ReadTask, S!StopOnCancel
<1>2. CASE ToClient
  BY <1>2 DEF ToClient, WriteAsk, WriteResponse, S!SendAsk, S!Respond
<1>3. ASSUME NEW c \in Calls, Start(c) \/ CallStep(c) \/ ClientOnly(C!CancelContext(c))
      PROVE  replies' = replies
  BY <1>3 DEF Start, CallStep, sVars
<1>4. ASSUME NEW c \in Calls, HandlerStep(c) \/ ServerOnly(S!Ask(c) \/ S!Finish(c))
      PROVE  replies' = replies
  BY <1>4 DEF HandlerStep, S!SendAskFails, S!TakeReply, S!GiveUp, S!Leave, S!Respond, S!Ask,
     S!Finish
<1>5. CASE ClientLoop \/ HostClosesOutput \/ HostClosesInput
  BY <1>5 DEF ClientLoop, HostClosesOutput, HostClosesInput, sVars
<1>6. CASE ServerLoop \/ ServerOnly(S!CancelContext)
  BY <1>6 DEF ServerLoop, S!Deliver, S!StopOnEOF, S!Return, S!CancelContext
<1>7. ASSUME NEW k \in Closers, ClientOnly(C!Close(k)) \/ CloseStep(k)
      PROVE  replies' = replies
  BY <1>7 DEF CloseStep, S!ClientClosesInput, S!ClientStopsReading, sVars
<1>8. ASSUME NEW k \in Keys, ReplyFails(k)
      PROVE  replies' = replies
  BY <1>8 DEF ReplyFails, sVars
<1>9. CASE UNCHANGED vars
  BY <1>9 DEF vars, sVars
<1> QED
  BY <1>1, <1>2, <1>3, <1>4, <1>5, <1>6, <1>7, <1>8, <1>9 DEF Next

LEMMA OwnMoves ==
  ASSUME [Next]_vars
  PROVE  /\ caller' = caller \/ \E c \in Calls : Start(c)
         /\ host' = host \/ HostClosesOutput \/ (host = "closing" /\ host' = "ended")
<1> USE DEF ClientOnly, ServerOnly, Joint
<1>1. CASE ToServer \/ ToClient
  BY <1>1 DEF ToServer, ToClient, WriteRequest, WriteReply, WriteAsk, WriteResponse
<1>2. ASSUME NEW c \in Calls, CallStep(c) \/ HandlerStep(c)
             \/ ServerOnly(S!Ask(c) \/ S!Finish(c)) \/ ClientOnly(C!CancelContext(c))
      PROVE  UNCHANGED <<caller, host>>
  BY <1>2 DEF CallStep, HandlerStep
<1>3. CASE ClientLoop \/ ServerLoop \/ ServerOnly(S!CancelContext)
  BY <1>3 DEF ClientLoop, ServerLoop
<1>4. ASSUME NEW k \in Closers, ClientOnly(C!Close(k)) \/ CloseStep(k)
      PROVE  UNCHANGED <<caller, host>>
  BY <1>4 DEF CloseStep
<1>5. ASSUME NEW k \in Keys, ReplyFails(k)
      PROVE  UNCHANGED <<caller, host>>
  BY <1>5 DEF ReplyFails
<1>6. ASSUME NEW c \in Calls, Start(c)
      PROVE  host' = host
  BY <1>6 DEF Start
<1>7. CASE HostClosesOutput \/ HostClosesInput
  BY <1>7 DEF HostClosesOutput, HostClosesInput
<1>8. CASE UNCHANGED vars
  BY <1>8 DEF vars
<1> QED
  BY <1>1, <1>2, <1>3, <1>4, <1>5, <1>6, <1>7, <1>8 DEF Next

-----------------------------------------------------------------------------
(* The invariant is inductive.                                              *)

LEMMA InitIInv == Init => IInv
<1> SUFFICES ASSUME Init PROVE IInv
  OBVIOUS
<1>1. CP!IInv /\ SP!IInv
  BY Assumptions, ClientInit, ServerInit, CP!InitIInv, SP!InitIInv DEF Init
<1>2. OwnTypes /\ HostWaits
  BY DEF Init, OwnTypes, HostWaits
<1>3. AnswersAreWritten /\ OutcomesAreReplies /\ RepliesAreInTurn
  BY DEF Init, C!Init, S!Init, AnswersAreWritten, OutcomesAreReplies, RepliesAreInTurn, S!Keys,
     Keys
<1> QED
  BY <1>1, <1>2, <1>3 DEF IInv

\* A step of the connection keeps the components' invariants: it is a step of each.
LEMMA ComponentsKeep ==
  ASSUME IInv, [Next]_vars
  PROVE  CP!IInv' /\ SP!IInv'
<1>1. S!Next \/ UNCHANGED sVars
  BY ServerSide
<1>2. [SP!Next]_(SP!vars)
  BY <1>1, ServerNext DEF SP!vars, sVars
<1>3. C!Next \/ UNCHANGED cVars
  BY ClientSide DEF IInv
<1>4. [CP!Next]_(CP!vars)
  BY <1>3, ClientNext DEF CP!vars, cVars
<1> QED
  BY <1>2, <1>4, Assumptions, SP!NextIInv, CP!NextIInv DEF IInv

LEMMA NextIInv == IInv /\ [Next]_vars => IInv'
<1> SUFFICES ASSUME IInv, [Next]_vars PROVE IInv'
  OBVIOUS
<1>1. CP!IInv' /\ SP!IInv'
  BY ComponentsKeep
<1>2. CP!TypeOK /\ SP!TypeOK /\ CP!TypeOK' /\ SP!TypeOK'
  BY <1>1 DEF IInv, CP!IInv, SP!IInv
<1>3. (S!Next \/ UNCHANGED sVars) /\ (C!Next \/ UNCHANGED cVars)
  BY ServerSide, ClientSide DEF IInv
<1>4. /\ \A c \in Calls : task[c] = "done" => task'[c] = "done" /\ responses'[c] = responses[c]
      /\ sReader = "returned" => sReader' = "returned"
  BY <1>2, <1>3, ServerKeeps
<1>5. /\ \A c \in Calls : /\ id'[c] = id[c] \/ id'[c] = idCtr + 1
                          /\ id[c] # 0 => id'[c] = id[c] \/ call[c] = "idle"
                          /\ call[c] = "ended" => call'[c] = "ended"
                          /\ cOutcome'[c] \in {cOutcome[c], cChan[c], MaxId + 1}
      /\ \A k \in Keys : inbound[k] = "replied" => inbound'[k] = "replied"
      /\ replied \subseteq replied'
  BY <1>2, <1>3, ClientKeeps
<1>6. OwnTypes'
  <2>1. caller' \in [Nested -> {0} \cup Keys]
    BY OwnMoves DEF Start, IInv, OwnTypes
  <2>2. host' \in {"serving", "closing", "ended"}
    BY OwnMoves DEF HostClosesOutput, IInv, OwnTypes
  <2> QED
    BY <2>1, <2>2 DEF OwnTypes
<1>7. HostWaits'
  BY <1>4, OwnMoves DEF HostClosesOutput, IInv, HostWaits
<1>8. AnswersAreWritten'
  <2>1. idCtr \in Nat /\ \A i \in replied : i <= idCtr
    BY <1>2 DEF IInv, CP!IInv, CP!Heard, CP!TypeOK
  <2>2. \A c \in Calls : id'[c] \in replied => id[c] = id'[c]
    BY <1>5, <2>1
  <2>3. CASE replied' = replied
    BY <1>4, <2>2, <2>3 DEF IInv, AnswersAreWritten
  <2>4. ASSUME NEW t \in Calls, WriteResponse(t)
        PROVE  AnswersAreWritten'
    <3>1. /\ replied' = replied \cup {id[t]} /\ id' = id
          /\ task' = [task EXCEPT ![t] = "done"] /\ outOpen' = outOpen /\ outOpen
          /\ id[t] \in received
      BY <2>4 DEF WriteResponse, Joint, S!Respond, S!envVars, C!ReadReply, C!regVars
    <3>2. task'[t] = "done" /\ t \in S!Tasks
      BY <1>2, <3>1 DEF SP!TypeOK, SP!Tasks, S!Tasks
    <3>3. responses'[t] = 1
      BY <1>1, <3>1, <3>2 DEF SP!IInv, SP!AnsweredExactlyOnce
    <3>4. ASSUME NEW c \in Calls, id'[c] \in replied'
          PROVE  task'[c] = "done" /\ responses'[c] = 1
      <4>1. CASE id[c] = id[t]
        <5>1. id[t] # 0
          BY <1>2, <3>1 DEF CP!TypeOK, CP!Ids
        <5>2. c = t
          BY <4>1, <5>1 DEF IInv, CP!IInv, CP!IdsAreOwn
        <5> QED
          BY <3>2, <3>3, <5>2
      <4>2. CASE id[c] # id[t]
        BY <1>4, <3>1, <3>4, <4>2 DEF IInv, AnswersAreWritten
      <4> QED
        BY <4>1, <4>2
    <3> QED
      BY <3>4 DEF AnswersAreWritten
  <2> QED
    BY <2>3, <2>4, RepliedMoves
<1>9. OutcomesAreReplies'
  <2>1. ASSUME NEW c \in Calls, cOutcome'[c] \in 1 .. MaxId
        PROVE  id'[c] \in replied'
    <3>1. MaxId \in Nat
      BY Assumptions DEF CP!TransportAssumption
    <3>2. cOutcome'[c] = cOutcome[c] \/ cOutcome'[c] = cChan[c]
      BY <1>5, <2>1, <3>1
    <3>3. cOutcome'[c] \in replied
      <4>1. CASE cOutcome'[c] = cOutcome[c]
        BY <2>1, <4>1 DEF IInv, CP!IInv, CP!Outcomes, CP!RightReply, CP!Ids, OutcomesAreReplies
      <4>2. CASE cOutcome'[c] = cChan[c]
        BY <2>1, <4>2 DEF IInv, CP!IInv, CP!Heard
      <4> QED
        BY <3>2, <4>1, <4>2
    <3>4. cOutcome'[c] = id'[c]
      BY <1>1, <2>1 DEF CP!IInv, CP!Outcomes, CP!RightReply, CP!Ids
    <3> QED
      BY <1>5, <3>3, <3>4
  <2> QED
    BY <2>1 DEF OutcomesAreReplies
<1>10. RepliesAreInTurn'
  <2>1. CASE replies' = replies /\ caller' = caller
    BY <1>5, <2>1, ConnectionAssumption DEF IInv, RepliesAreInTurn
  <2>2. ASSUME NEW k \in Keys, WriteReply(k)
        PROVE  RepliesAreInTurn'
    <3>1. /\ inbound' = [inbound EXCEPT ![k] = "replied"]
          /\ caller' = caller /\ call' = call
          /\ \A c \in Nested : caller[c] = k => call[c] = "ended"
      BY <2>2 DEF WriteReply, Joint, C!HandleInbound, C!callVars
    <3>2. \A j \in Keys : j # k => replies'[j] = replies[j]
      BY <1>2, <2>2 DEF WriteReply, Joint, S!ReadReply, S!StopOnCancel, SP!TypeOK, SP!Keys, Keys
    <3>3. inbound'[k] = "replied"
      BY <1>2, <3>1 DEF CP!TypeOK
    <3> QED
      BY <1>5, <3>1, <3>2, <3>3 DEF IInv, RepliesAreInTurn
  <2>3. ASSUME NEW c \in Calls, Start(c)
        PROVE  RepliesAreInTurn'
    <3>1. UNCHANGED <<replies, inbound>> /\ call[c] = "idle"
      BY <2>3 DEF Start, C!Register, sVars
    <3>2. CASE caller' = caller
      BY <1>5, <3>1, <3>2, ConnectionAssumption DEF IInv, RepliesAreInTurn
    <3>3. ASSUME NEW k \in Keys, c \in Nested, inbound[k] = "handling",
                 caller' = [caller EXCEPT ![c] = k]
          PROVE  RepliesAreInTurn'
      <4>1. caller'[c] = k /\ \A d \in Nested \ {c} : caller'[d] = caller[d]
        BY <3>3 DEF IInv, OwnTypes
      <4> QED
        BY <1>5, <3>1, <3>3, <4>1, ConnectionAssumption DEF IInv, RepliesAreInTurn
    <3> QED
      BY <2>3, <3>2, <3>3 DEF Start
  <2> QED
    BY <2>1, <2>2, <2>3, RepliesMove, OwnMoves
<1> QED
  BY <1>1, <1>6, <1>7, <1>8, <1>9, <1>10 DEF IInv

LEMMA SpecIInv == Spec => []IInv
  BY InitIInv, NextIInv, PTL DEF Spec

-----------------------------------------------------------------------------
(* What the invariant implies.                                              *)

\* The variables of both sides, of the nesting and of the goroutine that serves
\* keep their types (transport/transport.go:96-131).
THEOREM TypeCorrect == Spec => []TypeOK
<1>1. IInv => TypeOK
  BY ServerType, ClientType DEF IInv, CP!IInv, SP!IInv, OwnTypes, TypeOK
<1> QED
  BY <1>1, SpecIInv, PTL

\* A call that returns a message got it from its own handler, which has ended and
\* wrote that one response (session.go:178-184, client/transport.go:103-112).
THEOREM CallsGetTheirAnswers == Spec => []AnsweredByOwnHandler
<1>1. IInv => AnsweredByOwnHandler
  BY DEF IInv, AnswersAreWritten, OutcomesAreReplies, AnsweredByOwnHandler
<1> QED
  BY <1>1, SpecIInv, PTL

\* A handler's ask is answered by a client handler that has ended, with every call
\* that handler made of the server (client/transport.go:121-139).
THEOREM AsksAreAnsweredInTurn == Spec => []AskedInTurn
<1>1. IInv => AskedInTurn
  BY DEF IInv, SP!IInv, SP!FirstReplyWins, SP!Keys, Keys, RepliesAreInTurn, AskedInTurn
<1> QED
  BY <1>1, SpecIInv, PTL

\* The goroutine that serves closes the pipes once nothing on the server can write
\* to them any more (transport/transport.go:114-118).
THEOREM ClosesWhenQuiet == Spec => []ClosedWhenQuiet
<1> USE DEF S!Tasks, SP!Tasks
<1>1. ASSUME IInv, host # "serving" PROVE sPending = {} /\ \A c \in Calls : task[c] \notin S!Active
  <2>1. \A t \in SP!Tasks : task[t] \notin SP!Active
    BY <1>1 DEF IInv, HostWaits, SP!IInv, SP!Drained
  <2>2. {t \in SP!Tasks : task[t] \in SP!Asking} = {}
    BY <2>1 DEF SP!Active, SP!Asking
  <2>3. sPending = {}
    BY <1>1, <2>2 DEF IInv, SP!IInv, SP!PendingMatchesAskers
  <2> QED
    BY <2>1, <2>3 DEF SP!Active, SP!Asking, S!Active, S!Asking
<1>2. IInv => ClosedWhenQuiet
  BY <1>1 DEF ClosedWhenQuiet
<1> QED
  BY <1>2, SpecIInv, PTL

\* Joined, each side behaves as its own specification allows: what the other side
\* does is something its environment may do (transport/transport.go:96-131).
THEOREM SidesKeepTheirSpecs == Spec => S!Spec /\ C!Spec
<1>1. Init => S!Init /\ C!Init
  BY DEF Init
<1>2. IInv /\ [Next]_vars => [S!Next]_(S!vars)
  BY ServerSide DEF S!vars, sVars
<1>3. IInv /\ [Next]_vars => [C!Next]_(C!vars)
  BY ClientSide DEF IInv, C!vars, cVars
<1> QED
  BY <1>1, <1>2, <1>3, SpecIInv, PTL DEF Spec, S!Spec, C!Spec
=============================================================================
