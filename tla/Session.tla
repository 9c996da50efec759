------------------------------- MODULE Session -------------------------------
(***************************************************************************)
(* One server-side session over a bidirectional stdio transport:           *)
(* Server.ServeStdio (stdio.go) and the session type (session.go).         *)
(*                                                                         *)
(* Processes.  The read loop takes one line at a time from the client.  A  *)
(* request or a notification gets a goroutine of its own; a reply is       *)
(* delivered by the read loop itself, through a channel of capacity 1, to  *)
(* the handler that waits for it.  A handler may, any number of times,     *)
(* issue a server-to-client request (sampling, roots, elicitation) and     *)
(* block until the reply arrives or the session's context is cancelled.    *)
(*                                                                         *)
(* The client is the environment: it may send any line at any time, reply  *)
(* more than once or late, close its end and stop reading.  What handlers  *)
(* compute is abstracted; what they do to the session is not.              *)
(***************************************************************************)
EXTENDS Naturals, Sequences, FiniteSets

CONSTANTS
  Requests,     \* requests the client may send (they carry an id)
  Notes,        \* notifications the client may send (no id, so no response)
  MaxAsk,       \* bound: how many server-to-client requests are issued in all
  MaxReplies    \* bound: how many replies the client sends to any one of them

ASSUME SessionAssumption ==
  /\ Requests \cap Notes = {}
  /\ MaxAsk \in Nat
  /\ MaxReplies \in Nat \ {0}

Tasks == Requests \cup Notes       \* each line with a method gets a goroutine
Keys  == 1 .. MaxAsk               \* the ids srv-1, srv-2, ... of session.pending

Unbuffered == 0     \* mutant of ChanCap: a synchronous channel

\* session.go:88, make(chan *pendingResponse, 1)
ChanCap == 1

VARIABLES
  reader,     \* where ServeStdio is: scanning, delivering, reporting a parse
              \* error, in the deferred wg.Wait, returned
  held,       \* the reply the read loop is delivering: its key and its number
  ctxDone,    \* the session's base context is cancelled
  eof,        \* the client has closed its end and every line has been read
  outOpen,    \* writes to the client succeed
  task,       \* where each handler goroutine is
  ask,        \* the key of the server-to-client request a handler is in
  idCtr,      \* session.idCtr
  pending,    \* the keys of session.pending
  chan,       \* the buffered replies of each key's channel
  asked,      \* the keys whose request line has been written
  replies,    \* how many replies to each key the read loop has read
  outcome,    \* what request() returned: 0 not yet, n the n-th reply read,
              \* or an error
  responses   \* how many responses were written to each request

vars == <<reader, held, ctxDone, eof, outOpen, task, ask, idCtr, pending, chan,
          asked, replies, outcome, responses>>

readVars == <<reader, held>>
envVars  == <<ctxDone, eof, outOpen>>
askVars  == <<ask, idCtr, pending, asked, outcome>>

NoReply   == [key |-> 0, n |-> 0]
Asking    == {"asking", "waiting", "leaving"}      \* inside session.request
Active    == {"running", "responding"} \cup Asking \* counted by session.wg
Cancelled == MaxReplies + 1       \* request() returned ctx.Err()
Failed    == MaxReplies + 2       \* request() returned the write error

Init ==
  /\ reader = "scan"
  /\ held = NoReply
  /\ ctxDone = FALSE
  /\ eof = FALSE
  /\ outOpen = TRUE
  /\ task = [t \in Tasks |-> "unsent"]
  /\ ask = [t \in Tasks |-> 0]
  /\ idCtr = 0
  /\ pending = {}
  /\ chan = [k \in Keys |-> << >>]
  /\ asked = {}
  /\ replies = [k \in Keys |-> 0]
  /\ outcome = [k \in Keys |-> 0]
  /\ responses = [r \in Requests |-> 0]

-----------------------------------------------------------------------------
(* The pieces of session's bookkeeping.  Each is preceded by the mutants    *)
(* that the properties below are validated against.                         *)

NothingInFlight == {}                                     \* mutants of InFlight:
BusyBeforeWrite == {t \in Tasks : task[t] \in Active \ {"responding"}}
Unanswered == {t \in Requests : task[t] # "unsent" /\ responses[t] = 0}

\* The goroutines counted by session.wg: Add before go, Done when it has ended.
InFlight == {t \in Tasks : task[t] \in Active}

LostIncrement == 1         \* mutant of FreshKey: two askers read the same idCtr

\* idCtr++ under idMu; the key is the id's text.
FreshKey == idCtr + 1

NotRegistered(k) == pending                    \* mutant of Registered

\* pending[key] = ch under pendMu.
Registered(k) == pending \cup {k}

NotDeregistered(k) == pending                  \* mutant of Deregistered

\* The deferred delete(pending, key) under pendMu.
Deregistered(k) == pending \ {k}

HasResponseIfLive(t) == t \in Requests /\ ~ctxDone    \* mutant of HasResponse

\* Dispatch returns nil for a notification and a response for a request.
HasResponse(t) == t \in Requests

-----------------------------------------------------------------------------
(* The read loop.                                                          *)

\* A line has arrived and the context is still live.
Scanned ==
  /\ reader = "scan"
  /\ ~eof
  /\ ~ctxDone

\* A line with a method: wg.Add(1) and go.
ReadTask(t) ==
  /\ Scanned
  /\ task[t] = "unsent"
  /\ task' = [task EXCEPT ![t] = "running"]
  /\ UNCHANGED <<readVars, envVars, askVars, chan, replies, responses>>

\* A line without a method is a reply: the channel is looked up under pendMu
\* and left in the map; an unknown key is dropped.
ReadReply(k) ==
  /\ Scanned
  /\ k \in asked
  /\ replies[k] < MaxReplies
  /\ replies' = [replies EXCEPT ![k] = @ + 1]
  /\ IF k \in pending
     THEN /\ reader' = "deliver"
          /\ held' = [key |-> k, n |-> replies'[k]]
     ELSE UNCHANGED readVars
  /\ UNCHANGED <<envVars, askVars, task, chan, responses>>

\* ch <- resp, after pendMu is released: blocks while the buffer is full.
Deliver ==
  /\ reader = "deliver"
  /\ Len(chan[held.key]) < ChanCap
  /\ chan' = [chan EXCEPT ![held.key] = Append(@, held.n)]
  /\ reader' = "scan"
  /\ held' = NoReply
  /\ UNCHANGED <<envVars, askVars, task, replies, responses>>

\* A line that is not JSON is answered by the read loop itself.
ReadGarbled ==
  /\ Scanned
  /\ reader' = "report"
  /\ UNCHANGED <<held, envVars, askVars, task, chan, replies, responses>>

ReportParseError ==
  /\ reader = "report"
  /\ reader' = "scan"
  /\ UNCHANGED <<held, envVars, askVars, task, chan, replies, responses>>

\* ctx is consulted only after Scan has returned a line, which is discarded.
StopOnCancel ==
  /\ reader = "scan"
  /\ ~eof
  /\ ctxDone
  /\ reader' = "drain"
  /\ UNCHANGED <<held, envVars, askVars, task, chan, replies, responses>>

StopOnEOF ==
  /\ reader = "scan"
  /\ eof
  /\ reader' = "drain"
  /\ UNCHANGED <<held, envVars, askVars, task, chan, replies, responses>>

\* The deferred wg.Wait, then the deferred removeSession.
Return ==
  /\ reader = "drain"
  /\ InFlight = {}
  /\ reader' = "returned"
  /\ UNCHANGED <<held, envVars, askVars, task, chan, replies, responses>>

-----------------------------------------------------------------------------
(* A handler goroutine.                                                    *)

\* request(): a fresh id, and its channel registered before anything is sent.
Ask(t) ==
  /\ task[t] = "running"
  /\ idCtr < MaxAsk
  /\ idCtr' = FreshKey
  /\ ask' = [ask EXCEPT ![t] = FreshKey]
  /\ pending' = Registered(FreshKey)
  /\ task' = [task EXCEPT ![t] = "asking"]
  /\ UNCHANGED <<readVars, envVars, chan, asked, replies, outcome, responses>>

SendAsk(t) ==
  /\ task[t] = "asking"
  /\ outOpen
  /\ asked' = asked \cup {ask[t]}
  /\ task' = [task EXCEPT ![t] = "waiting"]
  /\ UNCHANGED <<readVars, envVars, ask, idCtr, pending, chan, replies, outcome,
                 responses>>

SendAskFails(t) ==
  /\ task[t] = "asking"
  /\ ~outOpen
  /\ outcome' = [outcome EXCEPT ![ask[t]] = Failed]
  /\ task' = [task EXCEPT ![t] = "leaving"]
  /\ UNCHANGED <<readVars, envVars, ask, idCtr, pending, chan, asked, replies,
                 responses>>

\* mutant of TakeReply: request() waits on after a reply
TakeReplyAndWait(t) ==
  /\ task[t] = "waiting"
  /\ chan[ask[t]] # << >>
  /\ outcome' = [outcome EXCEPT ![ask[t]] = Head(chan[ask[t]])]
  /\ chan' = [chan EXCEPT ![ask[t]] = Tail(@)]
  /\ UNCHANGED <<readVars, envVars, task, ask, idCtr, pending, asked, replies,
                 responses>>

\* The select's receive case.
TakeReply(t) ==
  /\ task[t] = "waiting"
  /\ chan[ask[t]] # << >>
  /\ outcome' = [outcome EXCEPT ![ask[t]] = Head(chan[ask[t]])]
  /\ chan' = [chan EXCEPT ![ask[t]] = Tail(@)]
  /\ task' = [task EXCEPT ![t] = "leaving"]
  /\ UNCHANGED <<readVars, envVars, ask, idCtr, pending, asked, replies, responses>>

\* mutant of GiveUp: the context is only looked at once a reply is there
GiveUpAfterReply(t) ==
  /\ task[t] = "waiting"
  /\ ctxDone /\ chan[ask[t]] # << >>
  /\ outcome' = [outcome EXCEPT ![ask[t]] = Cancelled]
  /\ task' = [task EXCEPT ![t] = "leaving"]
  /\ UNCHANGED <<readVars, envVars, ask, idCtr, pending, chan, asked, replies,
                 responses>>

\* The select's ctx.Done case; with both ready, Go picks either.
GiveUp(t) ==
  /\ task[t] = "waiting"
  /\ ctxDone
  /\ outcome' = [outcome EXCEPT ![ask[t]] = Cancelled]
  /\ task' = [task EXCEPT ![t] = "leaving"]
  /\ UNCHANGED <<readVars, envVars, ask, idCtr, pending, chan, asked, replies,
                 responses>>

\* The deferred delete of the map entry; the handler's code resumes.
Leave(t) ==
  /\ task[t] = "leaving"
  /\ pending' = Deregistered(ask[t])
  /\ ask' = [ask EXCEPT ![t] = 0]
  /\ task' = [task EXCEPT ![t] = "running"]
  /\ UNCHANGED <<readVars, envVars, idCtr, chan, asked, replies, outcome, responses>>

\* The handler returns; Dispatch yields a response unless there was no id.
Finish(t) ==
  /\ task[t] = "running"
  /\ task' = [task EXCEPT ![t] = IF HasResponse(t) THEN "responding" ELSE "done"]
  /\ UNCHANGED <<readVars, envVars, askVars, chan, replies, responses>>

\* The response is written, or its write error ignored; wg.Done follows.
Respond(t) ==
  /\ task[t] = "responding"
  /\ responses' = IF outOpen THEN [responses EXCEPT ![t] = @ + 1] ELSE responses
  /\ task' = [task EXCEPT ![t] = "done"]
  /\ UNCHANGED <<readVars, envVars, askVars, chan, replies>>

-----------------------------------------------------------------------------
(* The environment.                                                        *)

CancelContext ==
  /\ ~ctxDone
  /\ ctxDone' = TRUE
  /\ UNCHANGED <<readVars, eof, outOpen, askVars, task, chan, replies, responses>>

ClientClosesInput ==
  /\ ~eof
  /\ eof' = TRUE
  /\ UNCHANGED <<readVars, ctxDone, outOpen, askVars, task, chan, replies, responses>>

ClientStopsReading ==
  /\ outOpen
  /\ outOpen' = FALSE
  /\ UNCHANGED <<readVars, ctxDone, eof, askVars, task, chan, replies, responses>>

-----------------------------------------------------------------------------
HandlerStep(t) ==
  \/ Ask(t) \/ SendAsk(t) \/ SendAskFails(t) \/ TakeReply(t) \/ GiveUp(t)
  \/ Leave(t) \/ Finish(t) \/ Respond(t)

ReadLoopStep ==
  \/ \E t \in Tasks : ReadTask(t)
  \/ \E k \in Keys : ReadReply(k)
  \/ Deliver \/ ReadGarbled \/ ReportParseError
  \/ StopOnCancel \/ StopOnEOF \/ Return

Next ==
  \/ ReadLoopStep
  \/ \E t \in Tasks : HandlerStep(t)
  \/ CancelContext \/ ClientClosesInput \/ ClientStopsReading

Spec == Init /\ [][Next]_vars

(***************************************************************************)
(* The scheduler runs every goroutine that can run, and user handlers      *)
(* return: weak fairness on the steps that need no line from the client.   *)
(* Nothing makes the client send, close or stop reading.                   *)
(***************************************************************************)
ServerFairness ==
  /\ WF_vars(Deliver \/ ReportParseError \/ StopOnEOF \/ Return)
  /\ \A t \in Tasks :
       /\ WF_vars(SendAsk(t) \/ SendAskFails(t) \/ TakeReply(t) \/ GiveUp(t)
                  \/ Leave(t) \/ Respond(t))
       /\ WF_vars(Finish(t))

FairSpec == Spec /\ ServerFairness

\* A client that answers every request it received, as client.go does.
\* Its reply has a finite place in the stream, so the read loop comes to it
\* however many other lines it reads first: strong fairness.
AnsweringSpec == FairSpec /\ \A k \in Keys : SF_vars(replies[k] = 0 /\ ReadReply(k))

-----------------------------------------------------------------------------
TypeOK ==
  /\ reader \in {"scan", "deliver", "report", "drain", "returned"}
  /\ held \in [key : 0 .. MaxAsk, n : 0 .. MaxReplies]
  /\ ctxDone \in BOOLEAN
  /\ eof \in BOOLEAN
  /\ outOpen \in BOOLEAN
  /\ task \in [Tasks -> {"unsent", "done"} \cup Active]
  /\ ask \in [Tasks -> 0 .. MaxAsk]
  /\ idCtr \in 0 .. MaxAsk
  /\ pending \subseteq Keys
  /\ chan \in [Keys -> Seq(1 .. MaxReplies)]
  /\ \A k \in Keys : Len(chan[k]) <= 1
  /\ asked \subseteq Keys
  /\ replies \in [Keys -> 0 .. MaxReplies]
  /\ outcome \in [Keys -> 0 .. Failed]
  /\ responses \in [Requests -> Nat]

-----------------------------------------------------------------------------
(* Safety.                                                                 *)

\* session.pending holds exactly the keys of the requests some handler is
\* inside, each handler its own: the deferred delete leaks no entry and no two
\* requests ever share a channel (session.go:83-97).
PendingMatchesAskers ==
  /\ pending = {ask[t] : t \in {u \in Tasks : task[u] \in Asking}}
  /\ \A t \in Tasks : ask[t] # 0 <=> task[t] \in Asking
  /\ \A t, u \in Tasks : ask[t] = ask[u] /\ ask[t] # 0 => t = u

\* request() returns the first reply the client sent to its own id, whatever
\* duplicates and late replies are in flight (deliver, session.go:146-153).
FirstReplyWins ==
  \A k \in Keys : outcome[k] \in 1 .. MaxReplies => outcome[k] = 1 /\ replies[k] > 0

\* Delivering the first reply to a request finds room in the buffer, so a client
\* that replies once never blocks the read loop, even when the handler has
\* given up in the meantime (the capacity of session.go:88 is what ensures it).
FirstReplyNeverBlocks ==
  reader = "deliver" /\ held.n = 1 => Len(chan[held.key]) < ChanCap

\* A request whose handler finished has one response on the wire unless the
\* client stopped reading, and none before it finished (session.go:178-184).
AnsweredExactlyOnce ==
  \A r \in Requests :
    /\ responses[r] <= 1
    /\ responses[r] = 1 => task[r] = "done"
    /\ task[r] = "done" /\ outOpen => responses[r] = 1

\* ServeStdio "waits for in-flight handlers to finish before returning"
\* (stdio.go:26-28): nothing is left running or registered behind it.
ServeWaitsForHandlers ==
  reader = "returned" => pending = {} /\ \A t \in Tasks : task[t] \notin Active

\* After ServeStdio has returned the session writes no response and no request,
\* so that its caller may close w (transport/transport.go:114-118).
SilentAfterReturn ==
  [][reader = "returned" => UNCHANGED <<responses, asked, pending>>]_vars

-----------------------------------------------------------------------------
(* The abstract specification this implements, for the server's requests.  *)

UsedKeys == 1 .. idCtr

StatusOf(k) ==
  CASE k \notin UsedKeys -> "idle"
    [] k \in UsedKeys /\ outcome[k] = 0 -> "open"
    [] k \in UsedKeys /\ outcome[k] = 1 -> "answered"
    [] k \in UsedKeys /\ outcome[k] \in {Cancelled, Failed} -> "failed"
    [] OTHER -> "answered by a duplicate"

ExchangeStatus == [k \in Keys |-> StatusOf(k)]

X == INSTANCE Exchange WITH
       Ids <- Keys,
       status <- ExchangeStatus,
       replied <- {k \in Keys : replies[k] > 0},
       over <- ctxDone

\* session.request keeps the safety part of Exchange, whatever the client does.
ImplementsExchangeSafety == X!Safety

\* With a client that replies at most once, it keeps its liveness too.
ImplementsExchange == X!Spec

-----------------------------------------------------------------------------
(* Liveness.                                                               *)

\* A request that was read is answered and its goroutine ends, unless the
\* client closes its end first: a handler that waits for a reply is then never
\* woken by the transport (session.go:111-119 does not watch the input).
RequestsAreAnswered ==
  \A t \in Tasks : task[t] \in Active ~> (task[t] = "done" \/ eof)

\* Cancelling the context releases every handler: none stays in request().
CancelReleasesHandlers ==
  ctxDone ~> \A t \in Tasks : task[t] \notin Active

\* Once the context is cancelled and the input has ended, ServeStdio returns.
ReturnsAfterCancelAndEOF == (ctxDone /\ eof) ~> reader = "returned"

\* "the read loop remains free to service the responses that a blocked handler
\* may be awaiting" (session.go:155-158): it never stays inside a delivery.
ReadLoopStaysFree == reader = "deliver" ~> reader = "scan"

\* "ServeStdio blocks until stdin reaches EOF or ctx is cancelled and waits for
\* in-flight handlers to finish before returning" (stdio.go:26-28).
ReturnsOnCancel == ctxDone ~> reader = "returned"
=============================================================================
