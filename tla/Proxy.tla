------------------------------- MODULE Proxy -------------------------------
(***************************************************************************)
(* What a server answers to its peer's requests (dispatch.go, tool.go,      *)
(* prompt.go, completion.go, content.go), the calls of the high-level       *)
(* client (client/client.go), and the server that forwards to another one   *)
(* through such a client (proxy/proxy.go).                                  *)
(*                                                                          *)
(* A registry is a sequence in registration order, its entries' key unique, *)
(* but for the templates.  A handler is the application's, with a function  *)
(* of what it is given, or it forwards to the server's backend.  What a     *)
(* client of the backend may be answered is the parameter of whatever       *)
(* calls a handler, written  method ?? params,  so that proxies may be put  *)
(* one behind another.  Names and texts are sequences of words, URIs and    *)
(* templates those of UriTemplate.                                          *)
(***************************************************************************)
EXTENDS UriTemplate

CONSTANT completionLimit       \* suggestions in one answer, 100 in the code
ASSUME CompletionLimitAssumption == completionLimit \in Nat

Done(result) == [ok |-> TRUE, result |-> result]
Failed(code, text) == [ok |-> FALSE, code |-> code, text |-> text]

-----------------------------------------------------------------------------
(* Registries.                                                              *)

NewServer(name, version, instructions) ==
  [name |-> name, version |-> version, instructions |-> instructions, up |-> TRUE,
   tools |-> <<>>, resources |-> <<>>, templates |-> <<>>, prompts |-> <<>>]

Find(entries, key) == SelectInSeq(entries, LAMBDA e : e.key = key)
Known(entries, key) == Find(entries, key) # 0
Entry(entries, key) == entries[Find(entries, key)]
\* An entry takes the place of the one of its key, its completer included.
Put(entries, entry) ==
  IF Known(entries, entry.key) THEN [entries EXCEPT ![Find(entries, entry.key)] = entry]
  ELSE Append(entries, entry)

NoCompleter == [kind |-> "none"]
Tool(server, name, description, structured, handler) ==
  [server EXCEPT !.tools = Put(@, [key |-> name, description |-> description,
                                   structured |-> structured, handler |-> handler])]
Resource(server, uri, about, blob, handler) ==
  [server EXCEPT !.resources = Put(@, [key |-> uri, about |-> about, blob |-> blob, handler |-> handler])]
ResourceTemplate(server, template, about, blob, handler) ==
  [server EXCEPT !.templates = Append(@, [key |-> template, about |-> about, blob |-> blob,
                                          handler |-> handler, completer |-> NoCompleter])]
Prompt(server, name, description, arguments, handler) ==
  [server EXCEPT !.prompts = Put(@, [key |-> name, description |-> description, arguments |-> arguments,
                                     handler |-> handler, completer |-> NoCompleter])]

\* A completer is attached to what is registered, of two templates the first.
SetCompleter(entries, key, completer) ==
  IF Known(entries, key) THEN [entries EXCEPT ![Find(entries, key)].completer = completer] ELSE entries
CompletePrompt(server, name, completer) ==
  [server EXCEPT !.prompts = SetCompleter(@, name, completer)]
CompleteResourceTemplate(server, template, completer) ==
  [server EXCEPT !.templates = SetCompleter(@, template, completer)]

-----------------------------------------------------------------------------
(* Content.                                                                 *)

NewTextContent(words) == [type |-> "text", text |-> words]
NewImageContent(words) == [type |-> "image", text |-> <<>>, data |-> words]

\* What a tool's handler returns, and the content made of it.
NilValue == [kind |-> "nil"]
toContent(v) ==
  CASE v.kind = "nil" -> <<NewTextContent(<<"null">>)>>
    [] v.kind = "content" -> v.blocks
    [] OTHER -> <<NewTextContent(v.text)>>          \* a string, or anything else encoded

joinTextContent(content) ==
  LET texts == FlattenSeq([i \in DOMAIN content |->
                 IF content[i].text # <<>> THEN <<content[i].text>> ELSE <<>>])
  IN IF texts = <<>> THEN <<"tool error">> ELSE Join(texts, <<"\n">>)
joinResourceContents(contents) ==
  FlattenSeq([i \in DOMAIN contents |->
    IF contents[i].text # <<>> THEN contents[i].text ELSE contents[i].blob])

-----------------------------------------------------------------------------
(* A request and its possible answers: more than one only where the order   *)
(* of a Go map decides.                                                     *)

\* Tools.
ToolFailed(text) == [ok |-> FALSE, text |-> text]
Returned(value) == [ok |-> TRUE, value |-> value]

\* (Mutant) What the backend reports as a tool error is relayed as a result.
RelayAnswer(a) ==
  IF ~a.ok THEN ToolFailed(a.text) ELSE Returned([kind |-> "content", blocks |-> a.result.content])
forwardTool(a) ==
  IF ~a.ok THEN ToolFailed(a.text)
  ELSE IF a.result.isError THEN ToolFailed(joinTextContent(a.result.content))
  ELSE IF a.result.content = <<>> /\ a.result.structured # <<>>
    THEN Returned([kind |-> "content", blocks |-> <<NewTextContent(a.result.structured)>>])
  ELSE Returned([kind |-> "content", blocks |-> a.result.content])

\* Arguments that do not decode are the handler's error; a forwarding handler
\* takes any object.
CallHandler(_ ?? _, tool, args) ==
  CASE tool.handler.kind = "own" ->
         {IF args \in DOMAIN tool.handler.does THEN tool.handler.does[args]
          ELSE ToolFailed(<<"invalid arguments">>)}
    [] tool.handler.kind = "forward" /\ args = "not an object" -> {ToolFailed(<<"invalid arguments">>)}
    [] OTHER -> {forwardTool(a) : a \in "tools/call" ?? [name |-> tool.handler.name, args |-> args]}

ToolResult(tool, out) ==
  IF ~out.ok THEN [content |-> <<NewTextContent(out.text)>>, structured |-> <<>>, isError |-> TRUE]
  ELSE [content |-> toContent(out.value), isError |-> FALSE,
        structured |-> IF tool.structured /\ out.value # NilValue THEN out.value.text ELSE <<>>]
handleToolsCall(_ ?? _, s, p) ==
  IF ~Known(s.tools, p.name) THEN {Failed("invalid params", <<"unknown tool">>)}
  ELSE {Done(ToolResult(Entry(s.tools, p.name), out)) :
          out \in CallHandler(??, Entry(s.tools, p.name), p.args)}

\* Resources: the static one, or else the first template that matches.
Content(uri, entry, text) ==
  [contents |-> <<[uri |-> uri, about |-> entry.about, text |-> IF entry.blob THEN <<>> ELSE text,
                   blob |-> IF entry.blob THEN text ELSE <<>>]>>]
ReadAnswer(uri, entry, out) ==
  IF out.ok THEN Done(Content(uri, entry, out.text)) ELSE Failed("internal", out.text)
forwardRead(a) ==
  IF a.ok THEN [ok |-> TRUE, text |-> joinResourceContents(a.result.contents)]
  ELSE [ok |-> FALSE, text |-> a.text]
\* The application's handler of a template answers with the variables it got.
OwnRead(t, vars) ==
  LET re == compileURITemplate(t.key)
      said == FlattenSeq([i \in DOMAIN re |-> IF IsCapture(re[i]) THEN vars[re[i].name] ELSE <<>>])
  IN IF t.handler.does.ok THEN [t.handler.does EXCEPT !.text = @ \o said] ELSE t.handler.does
ReadBackend(_ ?? _, uri) == {forwardRead(a) : a \in "resources/read" ?? [uri |-> uri]}

ReadStatic(_ ?? _, entry) ==
  IF entry.handler.kind = "own" THEN {entry.handler.does} ELSE ReadBackend(??, entry.handler.name)
ReadTemplate(_ ?? _, entry, vars) ==
  IF entry.handler.kind = "own" THEN {OwnRead(entry, vars)}
  ELSE UNION {ReadBackend(??, uri) : uri \in expandTemplate(entry.handler.name, vars)}
Matching(templates, uri) == SelectInSeq(templates, LAMBDA e : match(e.key, uri).matched)
handleResourcesRead(_ ?? _, s, p) ==
  LET static == Entry(s.resources, p.uri)
      found  == s.templates[Matching(s.templates, p.uri)]
  IN IF Known(s.resources, p.uri)
       THEN {ReadAnswer(p.uri, static, out) : out \in ReadStatic(??, static)}
     ELSE IF Matching(s.templates, p.uri) # 0
       THEN {ReadAnswer(p.uri, found, out) : out \in ReadTemplate(??, found, match(found.key, p.uri).vars)}
     ELSE {Failed("invalid params", <<"unknown resource">>)}

\* Prompts and completion.
PromptAnswer(entry, out) ==
  IF out.ok THEN Done([description |-> entry.description, messages |-> out.messages])
  ELSE Failed("internal", out.text)
forwardPrompt(a) ==
  IF a.ok THEN [ok |-> TRUE, messages |-> a.result.messages] ELSE [ok |-> FALSE, text |-> a.text]
handlePromptsGet(_ ?? _, s, p) ==
  LET entry == Entry(s.prompts, p.name) IN
  IF ~Known(s.prompts, p.name) THEN {Failed("invalid params", <<"unknown prompt">>)}
  ELSE IF entry.handler.kind = "own" THEN {PromptAnswer(entry, entry.handler.does[p.args])}
  ELSE {PromptAnswer(entry, forwardPrompt(a)) :
          a \in "prompts/get" ?? [name |-> entry.handler.name, args |-> p.args]}

Suggestions(_ ?? _, completer, p) ==
  CASE completer.kind = "none" -> {<<>>}
    [] completer.kind = "own" -> {completer.does}
    [] OTHER -> {IF a.ok THEN a.result.values ELSE <<>> :
                   a \in "completion/complete" ?? [p EXCEPT !.ref.name = completer.name]}
CompleterOf(s, ref) ==
  LET entries == IF ref.type = "ref/prompt" THEN s.prompts
                 ELSE IF ref.type = "ref/resource" THEN s.templates ELSE <<>>
  IN IF Known(entries, ref.name) THEN Entry(entries, ref.name).completer ELSE NoCompleter
Capped(values) ==
  [values |-> SubSeq(values, 1, IF Len(values) > completionLimit THEN completionLimit ELSE Len(values)),
   total |-> Len(values), hasMore |-> Len(values) > completionLimit]
handleComplete(_ ?? _, s, p) ==
  {Done(Capped(values)) : values \in Suggestions(??, CompleterOf(s, p.ref), p)}

\* The handshake and the lists.
Capabilities(s) ==
  {"logging", "completions"} \cup (IF s.tools # <<>> THEN {"tools"} ELSE {})
  \cup (IF s.resources # <<>> \/ s.templates # <<>> THEN {"resources"} ELSE {})
  \cup (IF s.prompts # <<>> THEN {"prompts"} ELSE {})
handleInitialize(s, p) ==
  [protocol |-> IF p.protocol # "" THEN p.protocol ELSE "latest", capabilities |-> Capabilities(s),
   name |-> s.name, version |-> s.version, instructions |-> s.instructions]
ToolInfo(e) == [key |-> e.key, description |-> e.description, structured |-> e.structured]
ResourceInfo(e) == [key |-> e.key, about |-> e.about]
PromptInfo(e) == [key |-> e.key, description |-> e.description, arguments |-> e.arguments]
handleToolsList(s) == [i \in DOMAIN s.tools |-> ToolInfo(s.tools[i])]
handleResourcesList(s) == [i \in DOMAIN s.resources |-> ResourceInfo(s.resources[i])]
handleResourceTemplatesList(s) == [i \in DOMAIN s.templates |-> ResourceInfo(s.templates[i])]
handlePromptsList(s) == [i \in DOMAIN s.prompts |-> PromptInfo(s.prompts[i])]

route(_ ?? _, s, method, params) ==
  CASE method = "initialize" -> {Done(handleInitialize(s, params))}
    [] method = "ping" -> {Done(<<>>)}
    [] method = "tools/list" -> {Done(handleToolsList(s))}
    [] method = "tools/call" -> handleToolsCall(??, s, params)
    [] method = "resources/list" -> {Done(handleResourcesList(s))}
    [] method = "resources/templates/list" -> {Done(handleResourceTemplatesList(s))}
    [] method = "resources/read" -> handleResourcesRead(??, s, params)
    [] method = "prompts/list" -> {Done(handlePromptsList(s))}
    [] method = "prompts/get" -> handlePromptsGet(??, s, params)
    [] method = "completion/complete" -> handleComplete(??, s, params)
    [] OTHER -> {Failed("method not found", <<method>>)}

\* The client's call; a server that is gone fails it in the transport.
callServer(_ ?? _, s, method, params) ==
  IF s.up THEN route(??, s, method, params) ELSE {Failed("transport", <<"closed">>)}

-----------------------------------------------------------------------------
(* The proxy.  cfg is [name, version, instructions, prefix, tools, prompts, *)
(* resources, templates, initialize]: what it filters by is the set of what *)
(* is kept, and "none" leaves a name to the backend.                        *)

forward(name) == [kind |-> "forward", name |-> name]

\* The server after n turns of each loop over what the backend lists.
registerTools(srv, cfg, tools) ==
  LET after[n \in 0 .. Len(tools)] ==
        IF n = 0 THEN srv
        ELSE IF tools[n].key \notin cfg.tools THEN after[n - 1]
        ELSE Tool(after[n - 1], cfg.prefix \o tools[n].key, tools[n].description, FALSE,
                  forward(tools[n].key))
  IN after[Len(tools)]
registerResources(srv, cfg, resources) ==
  LET after[n \in 0 .. Len(resources)] ==
        IF n = 0 THEN srv
        ELSE IF resources[n].key \notin cfg.resources THEN after[n - 1]
        ELSE Resource(after[n - 1], resources[n].key, resources[n].about, FALSE,
                      forward(resources[n].key))
  IN after[Len(resources)]
registerTemplates(srv, cfg) ==
  LET spec == cfg.templates
      after[n \in 0 .. Len(spec)] ==
        IF n = 0 THEN srv
        ELSE CompleteResourceTemplate(
               ResourceTemplate(after[n - 1], spec[n].key, spec[n].about, FALSE, forward(spec[n].key)),
               spec[n].key, forward(spec[n].key))
  IN after[Len(spec)]
registerPrompts(srv, cfg, prompts) ==
  LET after[n \in 0 .. Len(prompts)] ==
        IF n = 0 THEN srv
        ELSE IF prompts[n].key \notin cfg.prompts THEN after[n - 1]
        ELSE CompletePrompt(
               Prompt(after[n - 1], cfg.prefix \o prompts[n].key, prompts[n].description,
                      prompts[n].arguments, forward(prompts[n].key)),
               cfg.prefix \o prompts[n].key, forward(prompts[n].key))
  IN after[Len(prompts)]

\* New fails if the backend does not answer; its lists are read once.
New(backend, cfg) ==
  LET info == handleInitialize(backend, [protocol |-> "latest"])
      or(own, inherited) == IF own # "none" THEN own
                            ELSE IF cfg.initialize THEN inherited ELSE "none"
      name == or(cfg.name, info.name)
      srv == NewServer(IF name = "none" THEN "fastmcp-proxy" ELSE name,
                       or(cfg.version, info.version), or(cfg.instructions, info.instructions))
      withTools == registerTools(srv, cfg, handleToolsList(backend))
      withResources == registerResources(withTools, cfg, handleResourcesList(backend))
  IN IF ~backend.up THEN Failed("transport", <<"closed">>)
     ELSE Done(registerPrompts(registerTemplates(withResources, cfg), cfg, handlePromptsList(backend)))
=============================================================================
