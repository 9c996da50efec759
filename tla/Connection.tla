----------------------------- MODULE Connection -----------------------------
(***************************************************************************)
(* A client and a server joined in memory: Transport.Client                *)
(* (transport/transport.go) runs Server.ServeStdio on a goroutine of its   *)
(* own and hands its streams to client.NewStdio.                           *)
(*                                                                         *)
(* The two ends are ClientTransport and Session.  Their streams are        *)
(* io.Pipes, which hold nothing: a write completes when the other end's    *)
(* scanner reads the line, so each line that crosses is one joint step of  *)
(* its writer and its reader, and a writer waits while the reader is busy. *)
(* A tool handler may ask the client (sampling); the client's handler of   *)
(* that ask may itself call the server before it answers.  What each side  *)
(* takes for its environment is here the other side.                       *)
(***************************************************************************)
EXTENDS Naturals, Sequences, FiniteSets

CONSTANTS
  Calls,      \* the client's calls
  Nested,     \* those of Calls made by the client's handler of a server request
  Closers,    \* goroutines that may call Close
  NoCall,     \* "no call"
  MaxAsk      \* bound: how many server-to-client requests are issued in all

ASSUME ConnectionAssumption ==
  /\ NoCall \notin Calls
  /\ Nested \subseteq Calls
  /\ IsFiniteSet(Calls)
  /\ MaxAsk \in Nat

Keys  == 1 .. MaxAsk
MaxId == Cardinality(Calls)

VARIABLES
  \* the client's transport, as in ClientTransport
  idCtr, call, id, cPending, cChan, closed, done, cReader, cHeld, inbound, closer,
  wOpen, rOpen, serverEOF, callCtxDone, received, replied, cOutcome,
  \* the server's session, as in Session
  sReader, sHeld, ctxDone, eof, outOpen, task, ask, keyCtr, sPending, sChan,
  asked, replies, sOutcome, responses,
  \* the connection
  caller,     \* the ask whose handler made a nested call
  host        \* where the goroutine that runs ServeStdio is

cVars == <<idCtr, call, id, cPending, cChan, closed, done, cReader, cHeld, inbound,
           closer, wOpen, rOpen, serverEOF, callCtxDone, received, replied, cOutcome>>
sVars == <<sReader, sHeld, ctxDone, eof, outOpen, task, ask, keyCtr, sPending, sChan,
           asked, replies, sOutcome, responses>>
vars  == <<cVars, sVars, caller, host>>

C == INSTANCE ClientTransport WITH
       Inbound <- Keys, Asks <- Keys, pending <- cPending, chan <- cChan,
       reader <- cReader, held <- cHeld, ctxDone <- callCtxDone, outcome <- cOutcome

S == INSTANCE Session WITH
       Requests <- Calls, Notes <- {}, MaxReplies <- 1, reader <- sReader,
       held <- sHeld, idCtr <- keyCtr, pending <- sPending, chan <- sChan,
       outcome <- sOutcome

Init ==
  /\ C!Init
  /\ S!Init
  /\ caller = [c \in Nested |-> 0]
  /\ host = "serving"

ClientOnly(A) == A /\ UNCHANGED <<sVars, caller, host>>
ServerOnly(A) == A /\ UNCHANGED <<cVars, caller, host>>
Joint(A)      == A /\ UNCHANGED <<caller, host>>

-----------------------------------------------------------------------------
(* Lines from the client to the server.  The scanner that returns a line    *)
(* after the context was cancelled drops it and the session drains.         *)

WriteRequest(c) ==
  Joint(C!WriteRequest(c) /\ (S!ReadTask(c) \/ S!StopOnCancel))

WriteReply(k) ==
  /\ inbound[k] = "handling" /\ wOpen
  /\ \A c \in Nested : caller[c] = k => call[c] = "ended"
  /\ Joint(C!HandleInbound(k) /\ (S!ReadReply(k) \/ S!StopOnCancel))

ToServer == (\E c \in Calls : WriteRequest(c)) \/ (\E k \in Keys : WriteReply(k))

-----------------------------------------------------------------------------
(* Lines from the server to the client.                                     *)

WriteAsk(t) == Joint(S!SendAsk(t) /\ C!ReadInbound(ask[t]))

\* mutant of WriteResponse: the client's read loop runs its handlers itself
WriteResponseUnlessServing(t) ==
  /\ task[t] = "responding" /\ outOpen
  /\ \A k \in Keys : inbound[k] # "handling"
  /\ Joint(S!Respond(t) /\ C!ReadReply(id[t]))

WriteResponse(t) ==
  /\ task[t] = "responding" /\ outOpen
  /\ Joint(S!Respond(t) /\ C!ReadReply(id[t]))

ToClient == \E t \in Calls : WriteAsk(t) \/ WriteResponse(t)

-----------------------------------------------------------------------------
(* Steps of one side.                                                       *)

\* A call begins: on a goroutine of the application's, or in the handler of an
\* ask, which then waits for it.
Start(c) ==
  /\ C!Register(c)
  /\ IF c \in Nested
     THEN \E k \in Keys :
            /\ inbound[k] = "handling"
            /\ caller' = [caller EXCEPT ![c] = k]
     ELSE UNCHANGED caller
  /\ UNCHANGED <<sVars, host>>

CallStep(c) ==
  ClientOnly(C!WriteFails(c) \/ C!ReceiveReply(c) \/ C!ReceiveClosed(c)
             \/ C!SeeDone(c) \/ C!SeeContext(c))

\* serveRequest's write fails, and the error is ignored.
ReplyFails(k) ==
  /\ inbound[k] = "handling" /\ ~wOpen
  /\ \A c \in Nested : caller[c] = k => call[c] = "ended"
  /\ ClientOnly(C!HandleInbound(k))

ClientLoop == ClientOnly(C!ReadLoopStep)

HandlerStep(t) ==
  ServerOnly(\/ S!SendAskFails(t) \/ S!TakeReply(t) \/ S!GiveUp(t) \/ S!Leave(t)
             \/ ~outOpen /\ S!Respond(t))

ServerLoop == ServerOnly(S!Deliver \/ S!StopOnEOF \/ S!Return)

-----------------------------------------------------------------------------
(* Closing.  The client's Close ends the server's input with its writer and *)
(* breaks the server's output with its reader.                              *)

CloseStep(k) ==
  \/ ClientOnly(C!CloserSweeps(k))
  \/ Joint(C!CloseWriter(k) /\ (S!ClientClosesInput \/ (eof /\ UNCHANGED sVars)))
  \/ Joint(C!CloseReader(k) /\ (S!ClientStopsReading \/ (~outOpen /\ UNCHANGED sVars)))

\* s2cW.Close once ServeStdio has returned, then c2sR.Close.
HostClosesOutput ==
  /\ host = "serving" /\ sReader = "returned"
  /\ host' = "closing"
  /\ C!ServerEndsOutput
  /\ UNCHANGED <<sVars, caller>>

HostClosesInput ==
  /\ host = "closing"
  /\ host' = "ended"
  /\ C!ServerStopsReading \/ (~wOpen /\ UNCHANGED cVars)
  /\ UNCHANGED <<sVars, caller>>

-----------------------------------------------------------------------------
Next ==
  \/ ToServer \/ ToClient
  \/ \E c \in Calls : Start(c) \/ CallStep(c) \/ HandlerStep(c)
  \/ \E c \in Calls : ServerOnly(S!Ask(c) \/ S!Finish(c))
  \/ \E c \in Calls : ClientOnly(C!CancelContext(c))
  \/ \E k \in Keys : ReplyFails(k)
  \/ ClientLoop \/ ServerLoop
  \/ \E k \in Closers : ClientOnly(C!Close(k)) \/ CloseStep(k)
  \/ HostClosesOutput \/ HostClosesInput
  \/ ServerOnly(S!CancelContext)

Spec == Init /\ [][Next]_vars

(***************************************************************************)
(* Goroutines that can run do, and user code returns: a tool handler ends, *)
(* and the client's handler of an ask ends when its nested call has.  A    *)
(* write takes place when the other end scans: each side's writers get     *)
(* their turn, of which there are finitely many.                           *)
(***************************************************************************)
Fairness ==
  /\ WF_vars(ToServer)
  /\ WF_vars(ToClient)
  /\ \A c \in Calls : WF_vars(CallStep(c)) /\ WF_vars(HandlerStep(c))
  /\ \A c \in Calls : WF_vars(ServerOnly(S!Finish(c)))
  /\ \A k \in Keys : WF_vars(ReplyFails(k))
  /\ WF_vars(ClientLoop) /\ WF_vars(ServerLoop)
  /\ \A k \in Closers : WF_vars(CloseStep(k))
  /\ WF_vars(HostClosesOutput) /\ WF_vars(HostClosesInput)

FairSpec == Spec /\ Fairness

-----------------------------------------------------------------------------
(* Safety.                                                                  *)

TypeOK ==
  /\ C!TypeOK
  /\ S!TypeOK
  /\ caller \in [Nested -> {0} \cup Keys]
  /\ host \in {"serving", "closing", "ended"}

\* A call that returns a message got it from its own handler on the server, which
\* has ended and wrote that one response, however calls and asks are nested.
AnsweredByOwnHandler ==
  \A c \in Calls : cOutcome[c] \in 1 .. MaxId => task[c] = "done" /\ responses[c] = 1

\* A handler that got a reply to its ask got it from a client handler that has
\* ended, with every call that handler made (client/transport.go:121-139).
AskedInTurn ==
  \A k \in Keys : sOutcome[k] = 1 =>
    /\ inbound[k] = "replied"
    /\ \A c \in Nested : caller[c] = k => call[c] = "ended"

\* The pipes are closed on the server's side only when no handler can write to
\* them any more (transport/transport.go:114-118).
ClosedWhenQuiet ==
  host # "serving" => sPending = {} /\ \A c \in Calls : task[c] \notin S!Active

-----------------------------------------------------------------------------
(* Liveness.                                                                *)

\* Every call returns, nested calls included, and with its server's answer unless
\* someone closes the client or cancels a context: neither read loop ever waits
\* for what only it could read (session.go:155-158, client/transport.go:121-122).
CallsReturn ==
  \A c \in Calls : call[c] # "idle" ~>
    /\ call[c] = "ended"
    /\ cOutcome[c] \in 1 .. MaxId \/ done \/ ctxDone \/ c \in callCtxDone

\* Cancelling the transport's context and closing the client ends the server's
\* goroutine.
CancelAndCloseStopServer ==
  (ctxDone /\ \E k \in Closers : closer[k] = "closed") ~> host = "ended"

\* "Closing the returned client (via Client.Close) tears the connection down and
\* stops the background server goroutine" (transport/transport.go:93-95).
CloseStopsServer == (\E k \in Closers : closer[k] = "closed") ~> host = "ended"
=============================================================================
