---------------------------- MODULE Subscriptions ----------------------------
(***************************************************************************)
(* The server's connected sessions and what is broadcast to them:          *)
(* addSession, removeSession, broadcast and NotifyResourceUpdated          *)
(* (server.go), resources/subscribe and resources/unsubscribe (dispatch.go,*)
(* session.go), and the SSE streams of the HTTP transport (http.go).       *)
(*                                                                         *)
(* Processes.  Sessions come and go; a client sees its connection before   *)
(* the server has put the session into its set.  A client sends subscribe  *)
(* and unsubscribe requests for one resource (subscriptions to different   *)
(* URIs do not interact); each is handled on a goroutine of its own.  Any  *)
(* goroutine of the application may notify: it takes a copy of the session *)
(* set under the lock and then writes to one session after another, and    *)
(* for a resource update looks at each session's subscription just before. *)
(***************************************************************************)
EXTENDS Naturals, Sequences, FiniteSets

CONSTANTS
  Stdio,        \* sessions of ServeStdio
  Streams,      \* sessions of handleHTTPGet (SSE)
  Updates,      \* calls of NotifyResourceUpdated
  ListChanges,  \* calls of NotifyToolsChanged and its two siblings
  Pipelining,   \* whether a client may send a request before the last was answered
  MaxOps        \* bound: the subscribe and unsubscribe requests of each client

ASSUME SubscriptionsAssumption ==
  /\ Stdio \cap Streams = {}
  /\ Updates \cap ListChanges = {}
  /\ Pipelining \in BOOLEAN
  /\ MaxOps \in [Stdio \cup Streams -> Nat]

Clients == Stdio \cup Streams
Calls   == Updates \cup ListChanges
Kinds   == {"subscribe", "unsubscribe"}

VARIABLES
  life,       \* each session: not yet there, open, its client gone, removed
  sessions,   \* Server.sessions
  subs,       \* the sessions whose session.subs holds the resource
  ops,        \* the kinds of request each client has sent, in order
  opState,    \* how far the handler of each of them is
  phase,      \* where each notifying call is
  todo,       \* the sessions of its copy that it has not come to yet
  at,         \* the sessions it is about to write to (at most one)
  got,        \* the sessions each call's notification was written to
  owed,       \* history: clients the call must reach, seen from the client
  heard,      \* history: those that had heard from their session when it began
  allowed     \* history: clients the call may reach, seen from the client

vars == <<life, sessions, subs, ops, opState, phase, todo, at, got, owed, heard, allowed>>

opVars   == <<subs, ops, opState>>
callVars == <<phase, todo, at, got>>
history  == <<owed, heard, allowed>>

Init ==
  /\ life = [s \in Clients |-> "new"]
  /\ sessions = {}
  /\ subs = {}
  /\ ops = [s \in Clients |-> << >>]
  /\ opState = [s \in Clients |-> << >>]
  /\ phase = [b \in Calls |-> "idle"]
  /\ todo = [b \in Calls |-> {}]
  /\ at = [b \in Calls |-> {}]
  /\ got = [b \in Calls |-> {}]
  /\ owed = [b \in Calls |-> {}]
  /\ heard = [b \in Calls |-> {}]
  /\ allowed = [b \in Calls |-> {}]

-----------------------------------------------------------------------------
(* What a client knows from what it got: of its own subscription, and that  *)
(* its session is at work.  A stream's own requests are POSTed elsewhere.   *)

Answered(s)     == \A i \in DOMAIN opState[s] : opState[s][i] = "answered"
Last(s)         == ops[s][Len(ops[s])]
Subscriber(s)   == ops[s] # << >> /\ Answered(s) /\ Last(s) = "subscribe"
Unsubscriber(s) == Answered(s) /\ (ops[s] = << >> \/ Last(s) = "unsubscribe")
Heard(s)        == \/ s \in Stdio /\ \E i \in DOMAIN opState[s] : opState[s][i] = "answered"
                   \/ \E b \in Calls : s \in got[b]

-----------------------------------------------------------------------------
(* Sessions.                                                                *)

\* The client sees its connection: of a stream, the 200 that is flushed first.
Open(s) ==
  /\ life[s] = "new"
  /\ life' = [life EXCEPT ![s] = "open"]
  /\ UNCHANGED <<sessions, opVars, callVars, history>>

\* addSession, which comes later, and whether or not the client is still there.
AddSession(s) ==
  /\ life[s] \in {"open", "ending"} /\ s \notin sessions
  /\ sessions' = sessions \cup {s}
  /\ UNCHANGED <<life, opVars, callVars, history>>

\* The client disconnects: its input ends or its request context is done.
Disconnect(s) ==
  /\ life[s] = "open"
  /\ life' = [life EXCEPT ![s] = "ending"]
  /\ owed' = [b \in Calls |-> owed[b] \ {s}]
  /\ UNCHANGED <<sessions, opVars, callVars, heard, allowed>>

\* removeSession, deferred: for stdio the handlers are waited for first.
Remove(s) ==
  /\ life[s] = "ending" /\ s \in sessions
  /\ s \in Stdio => Answered(s)
  /\ life' = [life EXCEPT ![s] = "removed"]
  /\ sessions' = sessions \ {s}
  /\ UNCHANGED <<opVars, callVars, history>>

-----------------------------------------------------------------------------
(* Requests.                                                                *)

Send(s, kind) ==
  /\ life[s] = "open"
  /\ Len(ops[s]) < MaxOps[s]
  /\ Pipelining \/ Answered(s)
  /\ ops' = [ops EXCEPT ![s] = Append(@, kind)]
  /\ opState' = [opState EXCEPT ![s] = Append(@, "handling")]
  /\ owed' = [b \in Calls |-> IF b \in Updates THEN owed[b] \ {s} ELSE owed[b]]
  /\ allowed' = IF kind = "subscribe"
                THEN [b \in Calls |-> allowed[b] \cup {s}]
                ELSE allowed
  /\ UNCHANGED <<life, sessions, subs, callVars, heard>>

\* (Mutant) The session's lines are read before addSession.
ReadAtOnce(s) == TRUE

\* Lines are read after addSession; a POST is handled whatever its stream does.
Served(s) == s \in Streams \/ s \in sessions

\* conn.subscribe or conn.unsubscribe: a request POSTed over HTTP has no conn,
\* and is acknowledged without an effect.
Recorded(s, kind) ==
  IF s \in Streams THEN subs
  ELSE IF kind = "subscribe" THEN subs \cup {s} ELSE subs \ {s}

Apply(s, i) ==
  /\ opState[s][i] = "handling" /\ Served(s)
  /\ subs' = Recorded(s, ops[s][i])
  /\ opState' = [opState EXCEPT ![s][i] = "applied"]
  /\ UNCHANGED <<life, sessions, ops, callVars, history>>

\* (Mutant) The response is written first.
AnswerAtOnce(s, i) ==
  /\ opState[s][i] \in {"handling", "applied"} /\ Served(s)
  /\ opState' = [opState EXCEPT ![s][i] = "answered"]
  /\ UNCHANGED <<life, sessions, subs, ops, callVars, history>>

\* Nothing that s sent but this is without an answer.
LastAnswer(s, i) == \A j \in DOMAIN opState[s] \ {i} : opState[s][j] = "answered"

\* An unsubscribe that is answered forbids the calls that have not come to s.
Answer(s, i) ==
  /\ opState[s][i] = "applied"
  /\ opState' = [opState EXCEPT ![s][i] = "answered"]
  /\ allowed' = [b \in Calls |->
       IF b \in Updates /\ LastAnswer(s, i) /\ Last(s) = "unsubscribe" /\ s \notin at[b] \cup got[b]
         THEN allowed[b] \ {s} ELSE allowed[b]]
  /\ UNCHANGED <<life, sessions, subs, ops, callVars, owed, heard>>

-----------------------------------------------------------------------------
(* Notifying.                                                               *)

\* The copy of s.sessions made under sessionsMu.
Snapshot == sessions

Notify(b) ==
  /\ phase[b] = "idle"
  /\ phase' = [phase EXCEPT ![b] = "looping"]
  /\ todo' = [todo EXCEPT ![b] = Snapshot]
  /\ owed' = [owed EXCEPT ![b] =
                {s \in Clients : life[s] = "open" /\ (b \in ListChanges \/ Subscriber(s))}]
  /\ heard' = [heard EXCEPT ![b] = {s \in Clients : Heard(s)}]
  /\ allowed' = [allowed EXCEPT ![b] =
                {s \in Clients : b \in ListChanges \/ ~Unsubscriber(s)}]
  /\ UNCHANGED <<life, sessions, opVars, at, got>>

\* (Mutant) Nobody's subscription is looked at.
AlwaysSubscribed(b, s) == TRUE

\* A resource update asks isSubscribed; a list change goes to everyone.
Wanted(b, s) == b \in ListChanges \/ s \in subs

\* The loop comes to session s (a Go map has no order).
Consider(b, s) ==
  /\ phase[b] = "looping" /\ at[b] = {}
  /\ s \in todo[b]
  /\ todo' = [todo EXCEPT ![b] = @ \ {s}]
  /\ at' = [at EXCEPT ![b] = IF Wanted(b, s) THEN {s} ELSE {}]
  /\ UNCHANGED <<life, sessions, opVars, phase, got, history>>

\* sess.notify: to a session whose client is gone the write fails, and the error
\* is ignored.
Write(b, s) ==
  /\ s \in at[b]
  /\ got' = [got EXCEPT ![b] = IF life[s] = "open" THEN @ \cup {s} ELSE @]
  /\ at' = [at EXCEPT ![b] = {}]
  /\ UNCHANGED <<life, sessions, opVars, phase, todo, history>>

NotifyReturns(b) ==
  /\ phase[b] = "looping" /\ at[b] = {} /\ todo[b] = {}
  /\ phase' = [phase EXCEPT ![b] = "returned"]
  /\ UNCHANGED <<life, sessions, opVars, todo, at, got, history>>

-----------------------------------------------------------------------------
HandlerStep(s) == \E i \in DOMAIN opState[s] : Apply(s, i) \/ Answer(s, i)

NotifyStep(b) == (\E s \in Clients : Consider(b, s) \/ Write(b, s)) \/ NotifyReturns(b)

Next ==
  \/ \E s \in Clients : \/ Open(s) \/ AddSession(s) \/ Disconnect(s) \/ Remove(s)
                        \/ HandlerStep(s)
                        \/ \E kind \in Kinds : Send(s, kind)
  \/ \E b \in Calls : Notify(b) \/ NotifyStep(b)

Spec == Init /\ [][Next]_vars

-----------------------------------------------------------------------------
(* Types, and that only stdio sessions ever hold a subscription.            *)
TypeOK ==
  /\ life \in [Clients -> {"new", "open", "ending", "removed"}]
  /\ sessions \subseteq Clients
  /\ subs \subseteq Stdio
  /\ ops \in [Clients -> Seq(Kinds)]
  /\ opState \in [Clients -> Seq({"handling", "applied", "answered"})]
  /\ \A s \in Clients : Len(ops[s]) = Len(opState[s]) /\ Len(ops[s]) <= MaxOps[s]
  /\ phase \in [Calls -> {"idle", "looping", "returned"}]
  /\ todo \in [Calls -> SUBSET Clients]
  /\ at \in [Calls -> SUBSET Clients]
  /\ got \in [Calls -> SUBSET Clients]
  /\ owed \in [Calls -> SUBSET Clients]
  /\ heard \in [Calls -> SUBSET Clients]
  /\ allowed \in [Calls -> SUBSET Clients]

-----------------------------------------------------------------------------
(* Safety.                                                                  *)

\* "broadcast delivers a notification to every connected session" (server.go:89):
\* when a list-changed call returns, every client has been written to that was
\* connected when it began, and still is, and had heard from its session by then:
\* it had an answer on it, or an earlier notification.
ListChangesReachListeners ==
  \A b \in ListChanges : phase[b] = "returned" => owed[b] \cap heard[b] \subseteq got[b]

\* "to all connected clients" (server.go:108-109): the same for every client that
\* saw its connection, for a stream the 200 of its GET (http.go:110-111).
ListChangesReachConnected ==
  \A b \in ListChanges : phase[b] = "returned" => owed[b] \subseteq got[b]

\* NotifyResourceUpdated reaches "every client currently subscribed" (server.go:
\* 121-123): every stdio client that had its subscribe answered before the call
\* and sends nothing more.  It is a promise to clients that wait for answers.
UpdatesReachSubscribers ==
  \A b \in Updates : phase[b] = "returned" => owed[b] \cap Stdio \subseteq got[b]

\* A client that never subscribed is not notified of an update, and neither is
\* one whose unsubscribe was answered before the update began, or while it was
\* under way but had not come to that client (server.go:136-140).
NoStrayUpdates == \A b \in Updates : got[b] \subseteq allowed[b]

\* "the connection is registered as a notification-only session so that
\* list-changed and resource-updated broadcasts are delivered as SSE events"
\* (http.go:97-98).
UpdatesReachStreams ==
  \A b \in Updates : phase[b] = "returned" => owed[b] \cap heard[b] \cap Streams \subseteq got[b]

\* "handleUnsubscribe cancels a prior resources/subscribe" (dispatch.go:294):
\* once everything was answered, the last request a stdio client sent decides.
\* A client that pipelines has no such promise: its two handlers are goroutines
\* that may run in either order (session.go:176-184).
LastRequestDecides ==
  \A s \in Stdio : Answered(s) /\ ops[s] # << >> =>
    (s \in subs <=> Last(s) = "subscribe")

=============================================================================
