----------------------------- MODULE ProxyCalls -----------------------------
(***************************************************************************)
(* A proxy at work: it is built in front of a backend, the backend changes, *)
(* and a client asks it something.  A task is [before, after, cfg,          *)
(* request]: the backend as it was and as it is, whose handlers are the     *)
(* application's, what the proxy is configured with, and the request,       *)
(* [method, params].                                                        *)
(***************************************************************************)
EXTENDS Proxy, Tasks

CONSTANT ProxyTasks

ProxyInit == answers = <<>> /\ \E given \in ProxyTasks : task = [kind |-> "proxy", of |-> given]

\* What a client is answered by a server that has no backend, and by one whose
\* backend is such a server.
Nobody(method, params) == {}
Backed(server, method, params) == callServer(Nobody, server, method, params)
Proxied(server, proxy, method, params) ==
  route(LAMBDA m, p : Backed(server, m, p), proxy, method, params)

BuildProxy == NextCall("proxy", 0, New(t.before, t.cfg))
AskProxy ==
  /\ task.kind = "proxy" /\ Len(answers) = 1 /\ answers[1].ok
  /\ \E a \in Proxied(t.after, answers[1].result, t.request.method, t.request.params) :
       NextCall("proxy", 1, a)

ProxyNext == BuildProxy \/ AskProxy
ProxySpec == ProxyInit /\ [][ProxyNext]_taskVars

-----------------------------------------------------------------------------
(* Well-formed tasks.                                                       *)

Words == Seq(STRING)
Registry(entries) ==
  /\ Len(entries) \in Nat /\ DOMAIN entries = 1 .. Len(entries)
  /\ \A i \in DOMAIN entries : entries[i].handler.kind = "own"
Distinct(entries) == \A i, j \in DOMAIN entries : entries[i].key = entries[j].key => i = j

\* A tool's arguments are an object; a result has blocks, or a text.
WellFormedTools(entries) ==
  /\ Registry(entries) /\ Distinct(entries)
  /\ \A i \in DOMAIN entries :
       /\ entries[i].key \in Words
       /\ "not an object" \notin DOMAIN entries[i].handler.does
       /\ \A args \in DOMAIN entries[i].handler.does :
            LET out == entries[i].handler.does[args] IN ~out.ok => out.text \in Words
WellFormedResources(entries) ==
  /\ Registry(entries) /\ Distinct(entries)
  /\ \A i \in DOMAIN entries : entries[i].handler.does.text \in Words
WellFormedCompleter(completer) ==
  /\ completer.kind \in {"none", "own"}
  /\ completer.kind = "own" => completer.does \in Words
WellFormedTemplates(entries) ==
  /\ Registry(entries)
  /\ \A i \in DOMAIN entries :
       /\ entries[i].key \in Seq(Char)
       /\ entries[i].handler.does \in [ok : BOOLEAN, text : Words]
       /\ WellFormedCompleter(entries[i].completer)
WellFormedPrompts(entries) ==
  /\ Registry(entries) /\ Distinct(entries)
  /\ \A i \in DOMAIN entries :
       /\ entries[i].key \in Words
       /\ WellFormedCompleter(entries[i].completer)

WellFormedServer(s) ==
  /\ s.up \in BOOLEAN
  /\ WellFormedTools(s.tools) /\ WellFormedResources(s.resources)
  /\ WellFormedTemplates(s.templates) /\ WellFormedPrompts(s.prompts)

WellFormedAsk(method, params) ==
  \/ method = "tools/call" /\ params = [name |-> params.name, args |-> params.args] /\ params.name \in Words
  \/ method = "prompts/get" /\ params = [name |-> params.name, args |-> params.args] /\ params.name \in Words
  \/ method = "resources/read" /\ params = [uri |-> params.uri] /\ params.uri \in Seq(Char)
  \/ /\ method = "completion/complete"
     /\ params = [ref |-> params.ref, argument |-> params.argument, value |-> params.value]
     /\ params.ref = [type |-> params.ref.type, name |-> params.ref.name] /\ params.ref.name \in Words
  \/ method \in {"initialize", "ping", "tools/list", "resources/list", "resources/templates/list",
                 "prompts/list"}

WellFormedProxyTask(given) ==
  /\ WellFormedServer(given.before) /\ WellFormedServer(given.after)
  /\ given.cfg.prefix \in Words
  /\ Len(given.cfg.templates) \in Nat
  /\ DOMAIN given.cfg.templates = 1 .. Len(given.cfg.templates)
  /\ \A i \in DOMAIN given.cfg.templates : given.cfg.templates[i].key \in Seq(Char)
  /\ WellFormedAsk(given.request.method, given.request.params)

ASSUME ProxyTasksAssumption == \A given \in ProxyTasks : WellFormedProxyTask(given)

-----------------------------------------------------------------------------
(* What a client may expect.                                                *)

\* What the backend answers to the same request, now.
Direct(method, params) == Backed(t.after, method, params)

\* Content blocks are relayed as they are, or else the structured value as a
\* text; every way to fail is a tool error, with the backend's text in it.
SameTool(direct, proxied) ==
  /\ proxied.ok
  /\ proxied.result.isError = (~direct.ok \/ direct.result.isError)
  /\ ~proxied.result.isError =>
       \/ proxied.result.content = direct.result.content
       \/ /\ direct.result.content = <<>>
          /\ proxied.result.content = <<NewTextContent(direct.result.structured)>>
  /\ direct.ok /\ direct.result.isError =>
       \A i \in DOMAIN direct.result.content :
         ToSet(direct.result.content[i].text) \subseteq ToSet(proxied.result.content[1].text)

\* The bytes of a blob come as text; an error keeps its text.
SameRead(direct, proxied) ==
  /\ direct.ok = proxied.ok
  /\ IF direct.ok THEN proxied.result.contents[1].text =
                         direct.result.contents[1].text \o direct.result.contents[1].blob
     ELSE proxied.text = direct.text
SamePrompt(direct, proxied) ==
  /\ direct.ok = proxied.ok
  /\ IF direct.ok THEN proxied.result.messages = direct.result.messages ELSE proxied.text = direct.text
SameValues(direct, proxied) ==
  proxied.ok /\ proxied.result.values = IF direct.ok THEN direct.result.values ELSE <<>>

\* A URI the proxy can hand on as it came: no placeholder is named twice, and
\* neither a name nor the URI has a brace.
Restorable(template, uri) ==
  LET re == compileURITemplate(template) IN
  /\ \A i, j \in Captured(re) : re[i].name = re[j].name => i = j
  /\ \A i \in Captured(re) : "{" \notin ToSet(re[i].name)
  /\ ToSet(uri) \cap {"{", "}"} = {}

\* The backend's components that the proxy was built with.
Shown(entries, keys) ==
  FlattenSeq([i \in DOMAIN entries |-> IF entries[i].key \in keys THEN <<entries[i]>> ELSE <<>>])
ShownTools == Shown(t.before.tools, t.cfg.tools)
ShownResources == Shown(t.before.resources, t.cfg.resources)
ShownPrompts == Shown(t.before.prompts, t.cfg.prompts)
Among(entries, name) == \E i \in DOMAIN entries : name = t.cfg.prefix \o entries[i].key
Unprefixed(name) == From(name, Len(t.cfg.prefix) + 1)
Unknown(a) == ~a.ok /\ a.code = "invalid params"

\* proxy.go: to a client the proxy is the backend, as far as its filters let it
\* show: the backend as it is now, even if it has changed, failed or gone since
\* the proxy was built, behind names that were fixed then.
ProxyTransparent ==
  After("proxy", 2) =>
    LET method == t.request.method
        params == t.request.params
        answer == answers[2]
        first == Matching(t.cfg.templates, params.uri)
    IN CASE method = "tools/call" ->
              IF Among(ShownTools, params.name)
                THEN \E d \in Direct(method, [params EXCEPT !.name = Unprefixed(@)]) : SameTool(d, answer)
                ELSE Unknown(answer)
         [] method = "prompts/get" ->
              IF Among(ShownPrompts, params.name)
                THEN \E d \in Direct(method, [params EXCEPT !.name = Unprefixed(@)]) : SamePrompt(d, answer)
                ELSE Unknown(answer)
         [] method = "resources/read" ->
              IF Known(ShownResources, params.uri)
                THEN \E d \in Direct(method, params) : SameRead(d, answer)
              ELSE IF first = 0 THEN Unknown(answer)
              ELSE Restorable(t.cfg.templates[first].key, params.uri) =>
                     \E d \in Direct(method, params) : SameRead(d, answer)
         [] method = "completion/complete" ->
              /\ params.ref.type = "ref/prompt" /\ Among(ShownPrompts, params.ref.name) =>
                   \E d \in Direct(method, [params EXCEPT !.ref.name = Unprefixed(@)]) : SameValues(d, answer)
              /\ params.ref.type = "ref/resource" /\ Known(t.cfg.templates, params.ref.name) =>
                   \E d \in Direct(method, params) : SameValues(d, answer)
         [] method = "tools/list" ->
              answer = Done([i \in DOMAIN ShownTools |->
                [key |-> t.cfg.prefix \o ShownTools[i].key, structured |-> FALSE,
                 description |-> ShownTools[i].description]])
         [] method = "resources/list" ->
              answer = Done([i \in DOMAIN ShownResources |-> ResourceInfo(ShownResources[i])])
         [] method = "prompts/list" ->
              answer = Done([i \in DOMAIN ShownPrompts |->
                [PromptInfo(ShownPrompts[i]) EXCEPT !.key = t.cfg.prefix \o @]])
         [] OTHER -> answer.ok
=============================================================================
