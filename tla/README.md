# A verification project for fastmcp

fastmcp is a Go library for the Model Context Protocol: JSON-RPC 2.0 between a
server that offers tools, resources and prompts and a client that uses them,
over stdio, in-memory pipes or HTTP. Both ends may send requests, both handle
what they read concurrently, and either may stop, cancel or vanish at any
moment. Around that core are packages that drive it (middleware, bulk calls,
retries), compose servers (mounting, proxies) or translate for it (URI
templates, JSON Schema, OpenAPI, bearer tokens). This directory holds TLA+
models of all of these, the TLC configurations that check them on small
instances, and TLAPS proofs for every value of their parameters. Line numbers
refer to the files under `src/`.

- [1. The system](#1-the-system)
- [2. Modules and how they correspond to the code](#2-modules-and-how-they-correspond-to-the-code)
- [3. Runs, bounds and fairness](#3-runs-bounds-and-fairness)
- [4. Where the code and its documentation differ](#4-where-the-code-and-its-documentation-differ)
- [5. Proofs](#5-proofs)
- [6. What is not modelled](#6-what-is-not-modelled)
- [7. Plan](#7-plan)

To repeat: `tlc -config X.cfg M` for each run of PROJECT.json, `tlapm M.tla` for
each `*Proofs.tla`.

## 1. The system

| Component | State | Operations | What makes it hard | What makes it correct |
|---|---|---|---|---|
| Server session, stdio (`session.go`, `stdio.go`) | `pending` map of channels, `idCtr`, wait group, subscriptions | read loop, one goroutine per request or notification, `request`, `deliver`, shutdown | replies late, repeated, or after the handler gave up; cancellation; end of input with handlers still waiting | each asker gets the first reply to its own id; one response per request; nothing left behind on return |
| Client stdio transport (`client/transport.go`) | `pending`, `done`, `closed` channels, `idCtr` | `roundTrip`, `readLoop`, `serveRequest`, `shutdown`, `close` | channels are closed and sent to by different goroutines, outside the lock; registration may race with the shutdown sweep | no send on a closed channel; no waiter forgotten; own replies only |
| In-memory connection (`transport/transport.go`, `client/client.go`, `context.go`) | the two above over `io.Pipe`s | tool calls, sampling and roots requests, nested calls, closing | synchronous pipes: a write waits for the other end's scan; nesting through both read loops | no mutual waiting; calls get their own handler's answer; orderly teardown |
| Session set and broadcasts (`server.go`, `http.go`, `dispatch.go`) | `sessions`, each session's `subs` | connect, disconnect, subscribe, unsubscribe, list changes, resource updates | a client sees its connection before its session is in the set; the set is copied under the lock and walked after it; subscriptions change during the walk | everyone owed a notification is written to, no one else is |
| Dispatch and registries (`dispatch.go`, `tool.go`, `resource.go`, `prompt.go`) | three maps with an order slice, a template slice, one `RWMutex` | register, list, call, read | registration at run time while lists and reads take copies | order is first-registration order, no duplicates, a listed name can be called |
| HTTP (`http.go`) | none per POST; a session per GET | single, batch, SSE stream | batches are handled in order, no session for POST | one response per request of a batch |
| Mounting (`mount/`) | a parent's registry, name sets | compose with collision policies, delegated calls | the names taken are a snapshot; servers mount each other; templates overlap | what was there stays, what is listed is served, no call goes round for ever |
| Proxy (`proxy/`) | a server that mirrors a client's lists, a forwarding handler each | discovery, filters and prefixes, forwarding, completion | the backend changes or goes after discovery; a URI is matched by one template language and rebuilt for another | to a client the proxy is the backend, as it is now |
| Bulk calls (`contrib/bulk.go`, `caller.go`) | a result slot per call, a semaphore, a cancel function, the joined errors; a loopback session | sequential, parallel, the bulk meta-tools, `Close` | stop on the first error races with workers in flight; a bulk call may be one of the calls of a bulk call; `Close` races with both | bounded fan-out, each call at most once, no failure untold, everything ends |
| Retry (`contrib/helpers.go`) | attempt counter, delay | attempts with backoff | an answer that is lost after the tool ran; cancellation during the wait | at most one run per attempt, a result only of a run, delays within the cap |
| Middleware (`middleware/`) | counters, token buckets | hooks around dispatch | concurrent requests, a clock read before the lock, panics, the order of the chain | no interval is credited twice, counts agree with answers, nothing internal leaves |
| Auth (`auth/`) | keys, a token table | verify, require scopes, challenge, metadata | order of checks, expiry at the boundary with and without leeway | a request passes exactly with a genuine, current token for this server with its scopes |
| URI templates (`uritemplate/`, `resource.go`) | none | expand, match, in three dialects | percent-encoding, operators, wildcards, greedy captures | what was put in is what comes out |
| JSON Schema (`jsonschema/`, `schema.go`) | none | dereference, compress, validate, reflect | chains and cycles of references, properties named like keywords, pruning | a rewritten schema accepts what the schema accepted |
| OpenAPI bridge (`openapi/`) | the registered routes | classify, name, build a tool's input, send its request | one name in several places, Go types with optional and zero values, nested like the schemas, references, route maps | each argument reaches its place as it was given |
| Logging levels, elicitation, content, errors | small or none | conversions of data | | |

How they interact. A transport reads a line and either calls `session.handle`
(server) or `readLoop` (client). `handle` starts a goroutine that runs
`Server.Dispatch`, which calls a tool, resource or prompt handler with a
`Context`; through it the handler logs, reports progress (both notifications)
and asks the client (`session.request`), whose answer is delivered by the same
read loop. The client correlates responses in `roundTrip` and answers the
server's requests in `serveRequest`, where user code may call the server again.
`NotifyToolsChanged` and its siblings reach all sessions at once, from any
goroutine. Mounting, proxies, bulk calls, middleware and auth are layered on
top of the registries and `Dispatch`.

The hazards this leads to, each with its line and the properties that would
catch it, are listed in PROJECT.json.

## 2. Modules and how they correspond to the code

`Exchange` is what any JSON-RPC correlator promises, at either end: an exchange
is opened once, may be replied to by the peer only after it was opened, ends
once (answered by a reply to itself, or failed), and does end once a reply has
come or the connection is over. `Session` and `ClientTransport` both implement
it.

`Session` models `ServeStdio` and `session`. `reader` is the control point of
the read loop (scanning, inside `deliver`'s send, writing a parse error, in the
deferred `wg.Wait`, returned); `task` the control point of each handler
goroutine; `pending`, `chan`, `idCtr` are the fields of the same name. One
action reads one line: `ReadTask` (a request or a notification, which starts a
goroutine), `ReadReply` (a lookup in `pending`, then `Deliver` as a step of its
own, because `deliver` sends after the unlock), `ReadGarbled`. `Ask`, `SendAsk`,
`TakeReply`, `GiveUp`, `Leave` are the steps of `request` between which other
goroutines can run. A pending entry stays until `Leave`, as in the code, so
repeated replies are possible. The client may send any request, notification or
garbled line at any time, and reply to what it was asked in any order and any
number up to `MaxReplies`, late ones included. A reply to an id that was never
asked for finds no entry and changes nothing, so `ReadReply` leaves it out. What
a handler computes is left out.

`ClientTransport` models `stdioTransport`: `Register`, `WriteRequest` and the
four ways out of the `select` are the steps of `roundTrip`; `ReadReply` takes
the channel out of the map and `SendReply` sends to it after the unlock;
`CloseDone` and `Sweep` are the two halves of `shutdown`, run by the read loop
at end of input and by any number of closers (`Close`, `CloserSweeps`,
`CloseWriter`, `CloseReader`).

`Connection` composes the two as `transport.Client` does. Their streams are
`io.Pipe`s, so each line is one joint action of its writer and the other end's
scan (`ToServer`, `ToClient`). A handler may ask the client; the client's
handler of that ask may make a nested call, whose handler may ask again.
`HostClosesOutput` and `HostClosesInput` are what the goroutine that ran
`ServeStdio` does after it returned.

`Subscriptions` models the session set. `Open` is what the client sees of its
connection, for a stream the 200 that is flushed first; `AddSession` puts the
session into the set, later. A session's lines are read after that (`Served`),
while a POST is handled whatever its sender's stream does. `Notify` copies the
set; `Consider` comes to one session of the copy and looks at its subscription;
`Write` writes to it; between any two of these, sessions connect, disconnect and
are removed, and requests are handled (`Apply`, then `Answer`). `owed`, `heard`
and `allowed` record what is known at the client: whom a call must reach if
every connected client is meant, who had by then heard from its session (an
answer on it, or a notification), and whom it may reach. An unsubscribe that is
answered takes its client out of `allowed` also for a call that is under way but
has not come to it. Subscriptions to different URIs are independent, so one URI
is modelled.

`Mount` models the registries of any number of servers and `mount.compose`
between them. A name or URI is the sequence of its parts and prefixing is
concatenation, so that two prefixes can lead to one name. A composition takes
the parent's names kind by kind (`TakeNames`), lists the child kind by kind
(`ListChild`) and registers one component at a time (`ComposeItem`), with other
compositions and the application's own registrations (`RegisterLate`) in
between. A client's call is dispatched by the server it has come to (`Hop`):
the first component that answers is served there or delegates to its child,
with the child's own name or the URI rebuilt from the template's placeholders.
`Registered` keeps the code's difference between kinds: a tool, resource or
prompt keeps its place when it is registered again, a template is appended.

`Batch` is what `CallToolsBulk` promises however it runs the calls: each at most
once, none left out without an excuse (a failure, if the batch stops on errors,
or the end of the caller's context), nothing in flight after the return, no
recorded failure unreported. `Bulk` is the code: in parallel mode `worker` is
the control point of each call's goroutine, with `Acquire` and `SkipAtSelect`
as the two arms of its first `select`, `CheckContext` the second look at the
context, `RecordFailure` and `CancelRest` what it does with a failure, and
`Release` its deferred receive from the semaphore; in sequential mode `StartNext`, `StopBefore`
and `RecordInLoop` are the loop's iterations. The calls go through the loopback
session of `BulkToolCaller` (`SendCall`, `Handle`, `TakeResult`, `TakeError`), and
the handler of a call in `Nested` makes a batch of its own over the same session
(`StartInner`, `FinishInner`). `Close` has its steps (`CloseCancels`, `CloseLoop`,
`ForgetLoop`, `CloseReturns`) beside all of that. The session and the transport
themselves, which have modules of their own, appear as what a caller sees of them.

`Pipeline` is a request's way through `middleware.Dispatcher`, and the `Retry`
in front of it. A chain is any sequence of middlewares; `at` and `way` are where
a request is and whether it goes down or up. `ReadClock` and `TakeToken` are two
steps, since `RateLimit.allow` reads the clock before it takes the lock. A panic
is a response that middlewares without `recover` let pass, doing nothing of what they do
after `next`; one that leaves the chain ends the process (`Crash`). `DeliverLost`
is a call whose answer the client's transport loses after the tool ran.

`UriTemplate`, `JsonSchema`, `OpenApi`, `HttpFront` and `Proxy` hold the stateless
packages as operators, one per function of the code, which keep its names.
Text is a sequence of characters where its encoding is the point
(`UriTemplate`) and of words elsewhere. A schema is the decoded JSON the Go code
walks, so that a property may be named `$ref`. `HttpFront` runs a request
through `Protect`, the bearer middleware, a verifier and `http.go`'s POST, with a
signature abstracted to the algorithm and key it was made with. In `Proxy`, a
server's handlers are the application's or forward to its backend; what a client
of that backend may be answered is a parameter, `method ?? params`, of every
operator that calls a handler, so that one server is put in front of another
without recursion.
`route`, `callServer` and `New` are the server's, the client's and the proxy's code.

A value in `OpenApi` has the Go type that `goType` makes of its schema: a scalar, a
list, a map, a struct, or anything. `recode` is what becomes of a value that is
decoded into its type and encoded again: a field that is left out is null where
it is a pointer and otherwise a zero, what is not declared goes, and what does
not fit is an error of the decoder (`InvalidArguments`). `structToMap` drops what
is null at the top, and no deeper. The reference definition in `OpenApiCalls` says
it from the caller's side: `arriving` is what comes of a value that its schema
accepts, with no zeros made up, and `Conforms` that the arguments are such values.
Both are tables over the finite types of a document (`GoTypes`, each after its
parts) and the values that are passed (`Json`).

Their systems have a caller who takes up one task and makes its calls one after
another, each answer kept (`Tasks`): `UriCalls` (a URI is expanded, then
matched), `HttpRequests` (a request is sent to a protected server), `ProxyCalls`
(a proxy is built, then asked when its backend has changed), `OpenApiCalls` (the
operations of a document are registered, then one is called), and `Library`, which
composes the four with a fifth (a schema is dereferenced, then compressed). The
properties compare the answers with reference definitions that do not use the
code's algorithm: what was put into a URI, `ValidUnder` on the schema as it was,
the request the document declares, the token as it was issued, the backend asked
directly. All but `Library` use recursive functions in place of recursive
operators, so that they can be proved about; so `OpenApi` takes JSON values from
`JsonValue` and not from `JsonSchema`, and that the input schema of a generated tool
accepts what its operation declares, down to the properties of nested objects, is part of `SchemaKeepsMeaning`, in `Library`.

Each definition that a mutant replaces is preceded by the mutant: what a
plausible slip in the code would make of it. PROJECT.json pairs each property
with the mutant that breaks it.

## 3. Runs, bounds and fairness

| Run | What it asks | Bounds |
|---|---|---|
| `session_safety` | the session's bookkeeping under every interleaving | 2 requests, 1 notification, 2 asks, up to 3 replies each; symmetry |
| `session_liveness` | requests answered, cancellation, return, refinement of `Exchange` | 1 request, 1 notification, 2 asks, 1 reply each |
| `transport` | channel discipline, correlation, shutdown races; calls end after shutdown or cancellation | 2 calls, 1 closer beside the read loop, 1 server request, replies unbounded |
| `connection` | joined ends, nesting, teardown: calls get their own answers and return, the server ends | 1 call and 1 nested call, 1 ask, 1 closer; 108,794 states |
| `subscriptions` | who is notified, by clients that wait for their answers | 1 stdio session with 2 requests, 1 stream, 1 update, 2 list changes; symmetry; 3,639,911 states |
| `mount` | what compositions leave alone, whether what is listed is served, whether calls end | 2 servers, 2 compositions, every policy, 2 kinds, 1 late registration, 1 caller |
| `bulk` | fan-out, reporting, refinement of `Batch`, termination, `Close` | 3 calls, the first of them a bulk call itself, 2 tokens or a loop; 285,084 states |
| `pipeline` | rates, masking, counts, retries | 2 retrying callers, 1 notification, 4 chains, a bucket of one and a half requests, 2 attempts, 2 ticks; 1,704,561 states |
| `library` | the five stateless packages against reference definitions | see below; 85,026 states |
| `bulk_nil`, `library_collision`, `library_rootref` | documented claims the code does not keep | minimal |

Why these bounds are enough. Two askers (or calls) are what it takes to confuse
ids, channels or map entries; a third party (a notification, a closer beside the
read loop's own shutdown, a server request) is what it takes to interfere
between two steps of one of them. Three replies are a first, one that fills the
buffer behind it and one that blocks. One ask with one nested call is the
shortest chain that goes through each read loop twice. In `Subscriptions`
sessions interact only through the set that calls copy, so one of each kind
shows what each may see; two requests are a subscribe and the unsubscribe that
follows it; of two list changes one can be what a stream has heard before the
other. What is POSTed has no effect on the set (`Subscriptions_streams.cfg` has it). In `Mount` two compositions are enough for servers that mount each
other, for a chain through both, and for two that race onto one parent; tools
stand for the kinds that are looked up by name, templates for the one that is
matched; the prefix `p` occurs in names too, so that prefixed and plain names
collide. In `Bulk` three calls on two tokens are the least with one running, one
failing and one waiting; the first is the meta-tool, whose inner call needs the
session while the outer one holds a token. In `Pipeline` the bucket holds one
request and half of the next, so that what a tick brings decides; the chains
have the counters outside, inside and alone, the limiter outside and inside
what masks, and one has nothing that recovers. The proofs lift all of these to
every bound.

The tasks of `library` are small but adversarial by construction: 14 RFC
templates, 13 of FastMCP's dialect and exploded queries, with every pair of ten
values (empty, with a percent sign, a separator, an escape, a space); schemas
with two or three definitions that refer to each other in every way, under eight
roots, each tried on some thirty values; documents of two operations whose ids,
paths, parameters and bodies collide or refer to components, under three route
maps, with every subset of the arguments, and of values of ten types (lists and
structs in structs among them) those that fit, lack a property, have one too many
or are of another type; tokens that are right but for one
part, under static and JWT verifiers with and without keys, and every kind of
POST body; a backend that stays, gains a tool and new handlers, restarts empty
or goes, behind proxies with and without prefix, filters and template overrides,
one of which has a variable whose name contains a brace.

Fairness. Weak fairness says that a goroutine that can go on does, which the Go
scheduler provides, that user handlers return, and that a write completes: the
peer reads, or its stream breaks. Nothing is assumed about whether the peer
sends, closes or stops reading, or whether anyone cancels. `AnsweringSpec` adds
that the client answers each request once, as `client.go` does, with strong
fairness on the reading of that reply, since it has a finite place in the
stream and the loop comes to it. In `Connection` no such assumption is needed:
the client is there. In `Bulk` the workers, the handlers of calls, the loop of
the loopback server and a `Close` that began go on; that anyone closes or
cancels is not assumed. In `Mount`, a request which has come to a server is
dispatched. `Pipeline` and `Library` have safety properties only.

Deadlock is checked in `mount`, whose clients go on calling, and nowhere else,
because the other systems really stop: a session that has returned, calls that
have all ended, a process that crashed, a task that is done.

## 4. Where the code and its documentation differ

Three are runs of PROJECT.json that TLC finds violated:

- `bulk_nil`: `contrib/bulk.go:149-150` says the error of a batch is nil when all
  calls succeed; a worker that finds the caller's context over stores
  `ErrSkipped` and adds nothing to the errors (`bulk.go:222-229`), so a parallel
  batch of which nothing ran may return nil. The sequential one reports it.
- `library_collision`: `openapi/openapi.go:93-95` says a tool sends every argument
  in its place; two of one name in different places become two fields of one
  JSON name, of which `encoding/json` writes neither (`register.go:161-178`).
- `library_rootref`: `jsonschema/transform.go:105-106` says that definitions no
  `$ref` refers to are removed; one that the root itself refers to goes too
  (`transform.go:230-270`), and the reference dangles.

Seven more have a configuration each, to run by hand:

| Configuration | Module | Property | What it shows |
|---|---|---|---|
| `Session_cancel.cfg` | `MCSession` | `ReturnsOnCancel` | `stdio.go:26-28` says ServeStdio blocks until end of input or cancellation; the context is looked at only after a line has been read (`stdio.go:38-43`), so an idle session stays |
| `Session_duplicates.cfg` | `MCSession` | `ReadLoopStaysFree` | `session.go:155-158` says the read loop remains free; `deliver` leaves the entry in the map, so a client that repeats a reply can leave the loop in its send (`session.go:151`) for ever |
| `Connection_close.cfg` | `MCConnection` | `CloseStopsServer` | `transport/transport.go:93-95` says Close stops the server goroutine; a handler that waits for the client's reply is not woken by the end of its input (`session.go:111`) and holds `wg.Wait` |
| `Subscriptions_streams.cfg` | `MCSubscriptions` | `UpdatesReachStreams` | `http.go:97-98` says resource updates are delivered as SSE events; a subscribe by POST has no session to record it in (`dispatch.go:288`) and is acknowledged all the same |
| `Subscriptions_opening.cfg` | `MCSubscriptions` | `ListChangesReachConnected` | `server.go:109-110` says a list change goes to all connected clients; the 200 of a stream is flushed (`http.go:110-111`) before its session is added (`http.go:128`), so a client that sees its stream open may be missed |
| `Library_nested.cfg` | `MCLibrary` | `AbsentFieldsDropped` | `register.go:157-158` says absent optional fields are dropped; an optional property left out inside of an object is sent as null, since only the outermost map is looked through (`register.go:172-176`) |
| `Mount_overwrite.cfg` | `MCMount` | `OverwriteReplaces` | `mount/mount.go:36-37` says CollisionOverwrite replaces the existing component; a template is appended (`resource.go:73`) behind the one it should replace, which goes on answering (`dispatch.go:233`) |

The models state the following as the code has it; where a comment says
otherwise PROJECT.json quotes it.

- `Retry`'s first delay is not capped (`helpers.go:57`), and one that is cancelled
  between attempts returns the context's error (`helpers.go:69`).
- The bulk meta-tool that is called after `Close` answers with an empty success.
- `RateLimit` with readings out of order refills at the reading of whoever comes
  first to the lock; a later, older reading adds nothing. What was taken stays
  within the capacity and the refill (`RateBound`), although requests that read
  the clock long before may come as a burst.
- A proxied call's arguments pass through a `map[string]any` (`proxy.go:233`), which
  rounds integers above 2^53; so do those of an OpenAPI tool inside of what has no
  declared type. The models have numbers as they are.
- A proxied call's transport errors become tool errors (`proxy.go:235`), binary
  resources come back as text, and a completion with more values than the limit
  loses the backend's total. A static resource that the filters leave out can
  still be read through a proxied template that matches it. A template that names
  a variable twice, and a value or a variable's name with a brace, change the URI
  that is forwarded (`Restorable`). The name with a brace came up in the proof: the
  placeholder `{{x}` contains the text of another, `{x}`, which may be replaced
  inside it. TLC finds the URI that differs when that conjunct is left out.
- Registering a prompt again drops its completer.
- An RFC 6570 literal that expansion must encode does not match its own expansion.
- An argument named `-`, or a property of a body without a name, is never sent, since
  Go's `json` tags give these names a meaning (`openapi/register.go:70`). Header names
  that differ in case only are taken for two, though HTTP does not tell them apart.
- Two operations whose names sanitize alike are registered one over the other
  (`openapi.go:142`); a parameter of the path item wins over the operation's
  (`openapi.go:211`, `232-237`); unsigned Go fields become "integer" without a lower limit.
- An argument with undeclared properties inside loses them, one that lacks a required
  property gets a zero for it, and one of another type is refused (`tool.go:124-128`).
- Values that had to be escaped in a resource's URI are escaped again on their way to the
  service (`openapi/resource.go:46`).
- `Validate` ignores `$ref`, and a reflected enum refuses nothing before it was
  encoded (`schema.go:128`). `DereferenceRefs` drops a definition that a pointer
  into it refers to; with circular references it falls back to the root's, whose
  own keywords then give way (`refs.go:84-91`), and leaves a discriminator as it was.

Three statements hold only under a condition that the models make explicit.
`ListChangesReachListeners` (a list change goes to every connected client) needs a
client that had heard from its session, since a stream is seen open before it is
in the set. `ArgumentsArrive` needs arguments of the types declared, a tool name
of its own and names used once; what it promises of a property left out inside of
an argument is a null.
`LastRequestDecides` (an unsubscribe cancels the subscribe before it) needs a
client that waits for its answers, since `session.go:176-184` handles requests
in either order. `ExistingStays` speaks of what a parent had when a composition
began: a component registered while it runs may be replaced without an error,
under every policy, because the names taken are a snapshot (`mount.go:142`).
The conditions of the library's properties (templates that can be inverted,
names used once, schemas without outside references) are operators of `UriCalls`,
`ProxyCalls`, `OpenApiCalls` and `Library`, with the property they belong to.

## 5. Proofs

Each of the modules `Session`, `ClientTransport`, `Connection`, `Subscriptions`,
`Bulk` and `Pipeline` has a `*Proofs` module, `LibraryProofs` is that of `UriCalls`
and `HttpRequests`, and `CompositionProofs` that of `Mount`, `ProxyCalls` and
`OpenApiCalls`, the three ways to make a server of others; it uses the lemmas of
`LibraryProofs`. They prove, for every value of the constants, type correctness and
the safety invariants of the runs (all but `SchemaKeepsMeaning`, see
[6](#6-what-is-not-modelled)), the action properties `SilentAfterReturn` and
`ExistingStays`, that `Session` and `ClientTransport` implement the safety part of
`Exchange`, that `Bulk` implements `Batch`, and that each end of a `Connection`
behaves as its own module says. PROJECT.json lists them. The assumptions are
those the modules name: identities are disjoint, bounds are natural numbers,
retryable results are failures, tasks are well formed (`UriTasksAssumption`,
`HttpTasksAssumption`, `ProxyTasksAssumption`, `OpenApiTasksAssumption`: texts are
sequences of characters, times are integers, a request's body is one message or
several, a backend's handlers are its own and its names distinct, an operation's
parameters are in the places that OpenAPI has), and a document's types and the values
passed are listed with their parts, no property being named `""` or `-`
(`GoTypesAssumption`, `JsonAssumption`). Several invariants are proved and no longer run:
the type invariants, `FirstReplyNeverBlocks`, `ServeWaitsForHandlers`,
`ImplementsExchangeSafety`, `StoppedIsDone`, `AskedInTurn`.

The argument in `SessionProofs`. `FirstReplyWins` is not inductive: to know that
what a handler takes from its channel is the first reply one must know where
the first reply is. `FirstInPlace` says that while a request is undecided, the
first reply is either not read yet, in the read loop's hands, or at the head of
the channel; `Delivering` that the loop holds only replies whose key was
issued, in order; `Issued` that keys above the counter are untouched; and
`Drained` that a loop that has returned left no handler. With `PendingMatchesAskers`
(each asker its own key) they form `IInv`, preserved by each action; the
invariants follow from its conjuncts.

The argument in `ClientTransportProofs`. A call's channel is in at most one
place: the map, or the read loop's hands, or already used (`PlacesExclude`).
That excludes a send on a closed or full channel and a second close. `NoneLost`
is its converse for waiting calls. `IdsAreOwn` and `MapIsOwn` (ids are handed
out once, and the map's entry for an id is that id's call) give `OwnReply`:
a call that ends with a reply ends with the one to its id (`RightReply`).
`Heard` ties outcomes to replies that were read.

The argument in `SubscriptionsProofs`. A session that was heard from is in the set
until it is removed (`AtWorkIsIn`): an answer comes from a read loop that started
after `addSession`, a notification from a copy of the set. So it is in every copy
made while it is open; whoever a list change owes and had heard from its session
is still to be looked at, about to be written to, or written to (`ListsComing`). For updates the loop reads a subscription that changes under it.
If clients wait for their answers (`~Pipelining`), at most one request of each is
in flight (`OneAtATime`), the subscription is what the last applied request said
(`Decided`), and an update owes exactly the sessions that are subscribed, with
nothing in flight, since before it began (`UpdatesComing`, `SubscribersAllowed`).
The three theorems that need it say so as an assumption.

The argument in `CompositionProofs` about `Mount`. No step removes a key or moves it
(`RegistrationStep`, `Grows`), so whatever could be answered still can
(`AnswersStay`). Every delegating component has its origin on its child
(`Rooted`), because what is composed was listed there (`ItemsListed`), and a
template matches every URI it expands to (`ExpandedMatches`): a delegated call
arrives at a server that can answer it (`CallsAnswerable`). For `ExistingStays`,
`FirstOnesTaken` says that once a kind's names are taken they include all that
the parent had at first; a name without a clash is then none of those, and
registering it touches none of them (`RegisteredKeeps`). That calls end, because
each delegation drops a prefix, is checked by TLC.

The argument in `ConnectionProofs` is composition. Every step of the connection
is a step of the server's session or leaves it alone, and likewise of the
client's transport (`ServerSide`, `ClientSide`): what either takes for its
environment is something the other may do. So each side's specification holds
(`SidesKeepTheirSpecs`), and the invariants proved of the components are
invariants here, cited through an instance of their proofs. What relates the
sides is short: a response the client has read was written by a handler that
has ended (`AnswersAreWritten`), a message a call returned was read
(`OutcomesAreReplies`), a reply the server has read was written after its
handler's nested calls ended (`RepliesAreInTurn`), and the pipes are closed
after `ServeStdio` has returned (`HostWaits`).

The argument in `BulkProofs`. A goroutine between `Acquire` and `Release` holds
one token of the semaphore (`Tokens`), so as many are in flight as there are
tokens; in sequential mode at most one call is not where it began or ended
(`OneAtATime`). What a slot stores is what its exchange returned (`Stored`), an
error in the list is a slot that failed (`ErrsHaveCause`), the batch is
cancelled only by a goroutine that recorded one (`Stopping`), and no goroutine is left when
the batch returns (`NobodyLeft`). The refinement maps a slot to pending,
running or its result; each action of `Bulk` is one of `Batch` or a stutter.

The argument in `PipelineProofs`. `Credited` bounds what was taken by what the
bucket began with and the time up to its last refill, which no reading is later
than: an older reading adds nothing, a later one moves the bound along with it.
`Passed` says that a response above a middleware is as that middleware leaves
it; no middleware further out brings back what was masked. `Attempts` ties a
caller's attempt to the place of its request: on its way down an attempt has
not run the tool yet, so it runs it once at most. `CountsMatchAnswers` speaks of
the moments at which no request is under way; `Balanced` is what holds at all of
them: what `Metrics` has counted with an outcome is at most what was answered
with it and what is still on its way out with it (`Passing`, a finite set that
each step enlarges or reduces by one request or leaves alone), and exactly that
when it is outermost and no panic can pass it.

The argument in `LibraryProofs` about URI templates. The functions that walk over
a text are recursive functions on its positions. That such a function exists, and
what its values are, needs induction over data, which no library theorem gives
the provers here; it is proved by least counterexample instead: a non-empty set
of numbers has a least element (`Least`, from the well-foundedness of `<`), so a
claim that holds at 0 and is handed on holds everywhere (`Counting`), and likewise
for sequences that grow at their end (`Growing`). On that rest `FlattenSeq`'s laws,
the walks of the parsers, which always move on (`TrailExists`), and `SplitJoin`.
`Decoding` says that percent-decoding undoes each of the encodings and that no
encoded value has a reserved character. `RoundMatch` is the heart: a text made
of an expression's literals and of encoded values, where a reserved character
stands between any two captures and at most one capture spans segments, is
matched by that expression in one way only. It compares two ways to place the
expression's items in the text by their literal marks, from the left up to the
spanning capture and from the right behind it; where the first mark that they
place differently would be, a capture would have to take a reserved character.
So it does not matter which of several matches is preferred (lazy, greedy,
leftmost). `QueryParsed` is the same for the text of a query. What remains is
that the parsers make such expressions of an invertible template (`RfcCase`,
`FastCase`), and that a path has no `?`. The proof found two conditions of
`FastInvertible` unnecessary, that the names asked for be distinct and not occur
in the path; they have been dropped, and TLC has a template that has both.

About HTTP: `RequestServed` goes through the checks of the bearer middleware in
their order, for either verifier, with what the reference definition
(`Genuine`, `Current`, `Intended`, `Scoped`) says of each; `BatchAnsweredInOrder` is
by least counterexample over the length of the batch.

About proxies. `ProxyTransparent` is an invariant because `ProxyAnswers` is one:
the first answer is what `New` makes of the backend as it was, the second one of
those the proxy so built can give with the backend as it is. What is left is a
statement about two servers, in three parts. `NewChooses` takes the loops of
`New` apart: each registry is the sequence of the backend's entries that the
filters choose (`Chosen`), under the prefix, which tells names apart
(`PrefixIsOwn`), and what one loop registers the others leave alone. So what the
proxy finds under a name is the entry that forwards to the backend's own name, or
nothing if the name is not shown (`PrefixedFound`, `PrefixedMissing`,
`ResourceFound`, `TemplateFound`); on the backend no such chain is assumed, it may
have lost the entry since. Then there is a lemma for what a backend answers to
each method (`BackendTool`, `BackendPrompt`, `BackendRead`, `BackendSuggests`) and
one for what the proxy makes of that (`ProxiedTool`, ...). For a template the URI
has been matched, taken apart and put together again: `UriRestored`, in
`LibraryProofs`, says that the same URI comes out. `Compiled` keeps the
template's text in the expression made of it, `MatchedLocated` puts each found
text at its item, and `OneFilled` says that substituting one placeholder fills
just the items of that variable, since neither the texts put in nor the names
have a brace that could make a placeholder; so it does not matter in which order
the map yields the variables.

About documents. `ArgumentsArrive` is an invariant because `OpenApiAnswers` is one:
the first answer is the server that `FromOpenAPIDoc` makes, the second what a
tool or template of that server sends. It relates a call to the document, past
everything that registration, decoding and encoding do with it, in three parts.
`DocumentServed` follows the loop over the operations, which is a recursive
function of the turns taken: a tool stays unless another of its name takes its
place, and the templates are all there, in order (`ToolIsOwn`, `TemplateIsOwn`;
of two templates with one URI the first answers, whichever operation it was).
`RouteFits` follows the loops over the parameters, where a place and a name count
once, and over the properties of the body: there is one field for each declared
name, in its place, required as it was declared, whatever references led to it.
`ArgumentsKept` is about Go's struct: a field alone with its name takes its value,
an optional one that was not given is left out, and a required one was given, so
no zero value is made up. What a value becomes on its way is `ValueArrives`: of a
value that its schema accepts, `recode` and `arriving` agree. The types are listed
each after its parts, so this goes by least counterexample over that list, and the
values of a type by cases; `TypesListed`, `PassedExist` and `RecodeIs` say that the
two recursive tables exist and what they hold. `RequestIsOwn` then puts the parts of the request side by
side; `TemplateFilled` does so for a template, whose variables are filled if they
are declared as parameters of the path.

Refinement. The abstract status of an exchange is a function of the counter
and its outcome; a lemma per concrete action shows which abstract step it is,
and every other action leaves all statuses alone.

## 6. What is not modelled

Liveness, fairness and the refinement of liveness are checked by TLC only, for
the prover has no rule for them. So is one invariant, `SchemaKeepsMeaning` of
`Library`: inlining, cleaning up and validating walk trees of schemas, whose nodes
are not numbered as the places of a text are, with recursive operators, which
modules with proofs cannot use.

Left out, and why:

- the documentation generator, the examples and the web site: no part of a
  running server or client;
- `elicit` and `mcplog`: a request like those of `Session` and a level in front of
  a write; what else is in them converts Go values;
- `mcperror`, the constructors in `content*.go`, `jsonrpc.go`: encodings without state;
- `jsonschema/build.go`, a schema's `pattern` and `format`, the texts of errors;
- `httpTransport`: one POST per call with no state of its own; reading an OpenAPI
  document, and what becomes of the service's response;
- `utNormalize` and the decoding of results in `client.go`: conversions of Go values;
- cryptography: a signature is the key it was made with;
- the hooks of single operations in `middleware.go`, which only replace `next`;
- notifications from handlers, which nothing waits for; their order at the client
  is not promised (`client/transport.go:117` starts a goroutine for each).

What the models of the pure packages simplify: an object or list in a path, a query
or a header, which the code renders with `fmt.Sprint`; that `encoding/json` takes a
property's name in any case when none fits exactly; the order of what a Go map
holds, where nothing depends on it. In `Pipeline` a retry begins when its first
attempt has left the server; with `httpTransport`, whose requests may time out, it
may overlap it. `RetryKeepsPolicy` counts runs against attempts, and the bucket and the
counters take requests in any order, so an overlap would add a request and no step.

A peer that neither reads nor closes is not modelled: writes to it would block
for ever. Go's data races do not occur in the modelled parts, except that
`BulkToolCaller.Close` and its handlers share fields without a lock; the model
gives `Close` its steps one field at a time. Elsewhere each shared field is read
and written under its lock, and the steps of the models are what lies between
an unlock and the next lock.

## 7. Plan

Done: `Session`, `ClientTransport`, `Exchange`, `Connection`, `Subscriptions`,
`Mount`, `Batch`, `Bulk`, `Pipeline`, `UriTemplate` with `UriCalls`, `HttpFront` with
`HttpRequests`, `Proxy` with `ProxyCalls`, and `OpenApi` with `OpenApiCalls`, each with
proofs; `JsonSchema` and `Library`, checked.

What could follow, in order:

1. A proof of `SchemaKeepsMeaning`: it needs schemas as well-founded trees, with
   recursion replaced by functions on them.
2. `Bulk` on `Connection` in place of what a caller sees of the session, so that a
   loopback `Close` and the joined teardown are one system.
3. `httpTransport` beside `stdioTransport`, and elicitation's schema and decoding
   among the tasks of `Library`.
