----------------------------- MODULE OpenApiCalls ----------------------------
(***************************************************************************)
(* A server made from an OpenAPI document at work: the operations are       *)
(* registered, and one of them is called through what it became.  A task is *)
(* [rules, ops, components, nth, args].                                     *)
(***************************************************************************)
EXTENDS OpenApi, Tasks

CONSTANT OpenApiTasks

OpenApiInit == answers = <<>> /\ \E given \in OpenApiTasks : task = [kind |-> "openapi", of |-> given]

RegisterOperations == NextCall("openapi", 0, FromOpenAPIDoc(t))

\* The operation that is called, through what it was registered as: of two
\* templates with one URI the first.
Called == t.ops[t.nth]
CallOperation ==
  LET type   == classify(t.rules, Called)
      server == answers[1]
  IN NextCall("openapi", 1,
       CASE type = "tool" -> CallTool(server.tools[toolName(Called)], t.args)
         [] type = "resource" -> ReadResource(server.resources[Called.path])
         [] type = "template" ->
              ReadRouteTemplate(server.templates[SelectInSeq(server.templates, LAMBDA r : r.path = Called.path)],
                                t.args)
         [] OTHER -> "not served")

OpenApiNext == RegisterOperations \/ CallOperation
OpenApiSpec == OpenApiInit /\ [][OpenApiNext]_taskVars

-----------------------------------------------------------------------------
(* Well-formed tasks.                                                       *)

IsSequence(s) == s \in Seq(ToSet(s))

\* A parameter that is sent is in one of the other three of OpenAPI's places;
\* the properties of a body are the keys of a map.  Arguments are JSON.
WellFormedOperation(op, components) ==
  /\ IsSequence(op.shared) /\ IsSequence(op.params) /\ IsSequence(op.path)
  /\ LET all == paramsOf(op, components) IN
     \A i \in DOMAIN all : isSent(all[i]) => all[i].in \in {"path", "query", "header"}
                                            /\ all[i].type \in ToSet(GoTypes)
  /\ LET body == bodyOf(op, components) IN
     /\ IsSequence(body.props) /\ IsSequence(body.required)
     /\ \A i, j \in DOMAIN body.props : body.props[i].name = body.props[j].name => i = j
     /\ \A i \in DOMAIN body.props : body.props[i].type \in ToSet(GoTypes)
     /\ body.json = "value" => body.type \in ToSet(GoTypes)

WellFormedDocument(doc) ==
  /\ IsSequence(doc.ops) /\ IsSequence(doc.rules)
  /\ doc.nth \in DOMAIN doc.ops
  /\ \A i \in DOMAIN doc.rules : doc.rules[i].type \in {"tool", "resource", "template", "exclude"}
  /\ \A i \in DOMAIN doc.ops : WellFormedOperation(doc.ops[i], doc.components)
  /\ Range(doc.args) \subseteq Json

ASSUME OpenApiTasksAssumption == \A given \in OpenApiTasks : WellFormedDocument(given)

-----------------------------------------------------------------------------
(* What arrives at the service.                                             *)

\* The parameters an operation is called with, and the names it takes in every
\* place of the request.
Parameters(op) ==
  LET all == paramsOf(op, t.components) IN {i \in DOMAIN all : isSent(all[i])}
Param(op, i) == paramsOf(op, t.components)[i]
InPlace(op, in) == {Param(op, i).name : i \in {j \in Parameters(op) : Param(op, j).in = in}}
Body(op) == bodyOf(op, t.components)
BodyProps(op) == CASE Body(op).json = "object" -> {[name |-> p.name, type |-> p.type] : p \in ToSet(Body(op).props)}
                   [] Body(op).json = "value" -> {[name |-> "body", type |-> Body(op).type]}
                   [] OTHER -> {}
InBody(op) == {p.name : p \in BodyProps(op)}
Takes(op) == BodyProps(op) \cup {[name |-> Param(op, i).name, type |-> Param(op, i).type] : i \in Parameters(op)}
Declared(op) == {p.name : p \in Takes(op)}
PathVars(op) == {op.path[i].name : i \in {j \in DOMAIN op.path : op.path[j].var}}

\* No name is used twice, and none is one that Go's json tags give a meaning.
NamesDistinct(op) ==
  /\ \A i, j \in Parameters(op) : Param(op, i).name = Param(op, j).name => i = j
  /\ \A i \in Parameters(op) : Param(op, i).name \notin InBody(op)
  /\ Declared(op) \cap {"", "-"} = {}
NameUnique(op) ==
  \A i \in DOMAIN t.ops : classify(t.rules, t.ops[i]) = "tool" /\ toolName(t.ops[i]) = toolName(op)
                            => t.ops[i] = op
Required(op) ==
  {Param(op, i).name : i \in {j \in Parameters(op) : Param(op, j).required \/ Param(op, j).in = "path"}}
  \cup (ToSet(Body(op).required) \cap InBody(op))

\* What comes of a value that its type's schema accepts, Wrong of any other: a
\* property that may be left out, and is, comes as null, and of the others those
\* that are declared come.
Coming(T, v, known) ==
  LET named == NamedFields(T.fields)
      at(f) == IF f.name \in DOMAIN v.m THEN known[f.type][v.m[f.name]] ELSE IF f.optional THEN Null ELSE Wrong
      props == [name \in DOMAIN named |-> at(named[name])]
      elems == [i \in DOMAIN v.q |-> known[T.elem][v.q[i]]]
  IN CASE T.kind = "struct" /\ v.kind = "map" -> UnlessWrong(props, Map(props))
       [] T.kind = "slice" /\ v.kind = "list" -> UnlessWrong(elems, List(elems))
       [] FitsType(T, v) -> v
       [] OTHER -> Wrong
arriving[T \in ToSet(GoTypes)] == [v \in Json |-> Coming(T, v, arriving)]

\* The caller gives what is required, and of what is declared nothing ill-typed.
Conforms(op, args) ==
  /\ Required(op) \subseteq DOMAIN args
  /\ \A p \in Takes(op) : p.name \in DOMAIN args => arriving[p.type][args[p.name]] # Wrong

\* The arguments an operation is called with: those declared that are not null.
Sent(op, args) ==
  LET type(n) == (CHOOSE p \in Takes(op) : p.name = n).type
  IN [n \in {m \in DOMAIN args \cap Declared(op) : args[m] # Null} |-> arriving[type(n)][args[n]]]

Upstream(op, args) ==
  LET place(names) == [n \in names \cap DOMAIN args |-> args[n]]
      filled(seg) == seg.var /\ seg.name \in InPlace(op, "path") \cap DOMAIN args IN
  [method |-> op.method,
   path |-> [i \in DOMAIN op.path |-> IF filled(op.path[i]) THEN [var |-> FALSE, value |-> args[op.path[i].name]]
                                      ELSE op.path[i]],
   query |-> [n \in InPlace(op, "query") \cap DOMAIN args |->
                IF args[n].kind = "list" THEN args[n].q ELSE <<args[n]>>],
   header |-> place(InPlace(op, "header")),
   body |-> IF InBody(op) \cap DOMAIN args = {} THEN Null
            ELSE IF Body(op).json = "value" THEN args["body"] ELSE Map(place(InBody(op)))]

\* openapi.go, register.go, resource.go: whatever else the document registers,
\* a call of what an operation declares sends the operation's own request, every
\* argument in its place as it was given, but that a property left out inside of
\* one is null there, and nothing undeclared; a template that is read leaves no
\* variable in the path.
\* Conditions: no other tool of its name, no name used in two places; every
\* variable of the template's path is declared as one.
ArgumentsArrive ==
  /\ After("openapi", 2) /\ classify(t.rules, Called) = "tool" /\ NameUnique(Called)
     /\ NamesDistinct(Called) /\ Conforms(Called, t.args)
       => answers[2] = Upstream(Called, Sent(Called, t.args))
  /\ After("openapi", 2) /\ classify(t.rules, Called) = "template"
     /\ (\A i \in DOMAIN t.ops : t.ops[i].path = Called.path =>
           PathVars(Called) \subseteq InPlace(t.ops[i], "path"))
     /\ DOMAIN t.args = PathVars(Called)
       => \A i \in DOMAIN Called.path :
            answers[2].path[i] = IF Called.path[i].var THEN [var |-> FALSE, value |-> t.args[Called.path[i].name]]
                                 ELSE Called.path[i]

\* openapi.go says that every argument is put into the path, the query, the
\* headers or the body: the same without the condition on names.
EveryArgumentSent ==
  After("openapi", 2) /\ classify(t.rules, Called) = "tool" /\ NameUnique(Called)
  /\ Conforms(Called, t.args)
    => answers[2] = Upstream(Called, Sent(Called, t.args))

\* register.go says that absent optional fields are dropped: of a call whose
\* arguments are all declared nothing but the arguments is sent.
AbsentFieldsDropped ==
  After("openapi", 2) /\ classify(t.rules, Called) = "tool" /\ NameUnique(Called)
  /\ NamesDistinct(Called) /\ Conforms(Called, t.args) /\ DOMAIN t.args \subseteq Declared(Called)
    => answers[2] = Upstream(Called, t.args)
=============================================================================
