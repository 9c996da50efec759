------------------------------ MODULE OpenApi ------------------------------
(***************************************************************************)
(* The package openapi: how the operations of an OpenAPI document become    *)
(* tools and resources of a server (openapi.go, routemap.go, spec.go), the  *)
(* Go struct a tool takes its arguments in, and the HTTP request a call     *)
(* sends upstream (register.go, resource.go).                               *)
(*                                                                          *)
(* An operation is [method, path, id, tags, shared, params, body], its path *)
(* a sequence of segments [var, name]; a parameter is [ref, name, in,       *)
(* required, type]; a body is [ref, json, props, required, type], json      *)
(* being "object", "value" or "none", its properties, [name, type], in      *)
(* lexical order.  A type is that of a Go value, [kind], with the type of   *)
(* its elements or its fields, [name, type, optional, tag].                 *)
(***************************************************************************)
EXTENDS Integers, SequencesExt, JsonValue

CONSTANTS GoTypes,           \* the types of values, each after its parts
          Json               \* the values that are passed, with their parts

\* A document's type is finite; its properties are the keys of a map, and none
\* has a name that Go's json tags give a meaning.
PartTypes(T) ==
  CASE T.kind = "slice" -> {T.elem}
    [] T.kind = "struct" -> {T.fields[i].type : i \in DOMAIN T.fields}
    [] OTHER -> {}
ASSUME GoTypesAssumption ==
  /\ GoTypes \in Seq(ToSet(GoTypes))
  /\ \A n \in DOMAIN GoTypes :
       /\ PartTypes(GoTypes[n]) \subseteq {GoTypes[m] : m \in 1 .. (n - 1)}
       /\ GoTypes[n].kind = "struct" =>
            LET fields == GoTypes[n].fields IN
            /\ \A i, j \in DOMAIN fields : fields[i].name = fields[j].name => i = j
            /\ \A i \in DOMAIN fields : fields[i].name \notin {"", "-"}
ASSUME JsonAssumption ==
  /\ Null \in Json
  /\ \A v \in Json : /\ v.kind = "map" => Range(v.m) \subseteq Json
                     /\ v.kind = "list" => Range(v.q) \subseteq Json

NoRef == ""

\* A reference is followed, through others, to what it names; one that leads
\* nowhere, or round in a circle, leaves the last node reached.
Resolve(node, components) ==
  LET from[n \in {node} \cup Range(components), seen \in SUBSET DOMAIN components] ==
        IF n.ref = NoRef \/ n.ref \in seen \/ n.ref \notin DOMAIN components THEN n
        ELSE from[components[n.ref], seen \cup {n.ref}]
  IN from[node, {}]

-----------------------------------------------------------------------------
(* Operations.                                                              *)

\* A run of characters other than letters and digits becomes one "_"; those at
\* the ends go.
Letters == {"a", "b", "c", "get", "put"}
sanitizeName(s) ==
  LET slug == FoldLeft(LAMBDA out, c :
                CASE c \in Letters -> Append(out, c)
                  [] c \notin Letters /\ out # <<>> /\ Last(out) = "_" -> out
                  [] OTHER -> Append(out, "_"), <<>>, s)
      first == IF slug # <<>> /\ slug[1] = "_" THEN Tail(slug) ELSE slug
  IN IF first # <<>> /\ Last(first) = "_" THEN Front(first) ELSE first

SlugText(path) ==
  FlattenSeq([i \in DOMAIN path |->
    IF path[i].var THEN <<"/", "{", path[i].name, "}">> ELSE <<"/", path[i].name>>])

toolName(op) ==
  sanitizeName(IF op.id # <<>> THEN op.id ELSE <<op.method, "_">> \o SlugText(op.path))

\* A rule's patterns are the paths they match.
matches(rule, op) ==
  /\ rule.methods = {} \/ "*" \in rule.methods \/ op.method \in rule.methods
  /\ rule.paths = {} \/ op.path \in rule.paths
  /\ rule.tags \subseteq op.tags

classify(rules, op) ==
  LET first == SelectInSeq(rules, LAMBDA rule : matches(rule, op))
  IN IF first = 0 THEN "tool" ELSE rules[first].type

\* What an operation declares, the path item's parameters before its own.
paramsOf(op, components) ==
  LET declared == op.shared \o op.params
  IN [i \in DOMAIN declared |-> Resolve(declared[i], components.parameters)]
bodyOf(op, components) == Resolve(op.body, components.bodies)

\* A parameter left without a name, or in a cookie, is not sent.
isSent(p) == p.name # "" /\ p.in # "cookie"

inputField(name, in, required, type) == [name |-> name, in |-> in, required |-> required, type |-> type]

\* The fields after n calls of addParam: a place and a name count once.
addParams(params) ==
  LET fields[n \in 0 .. Len(params)] ==
        IF n = 0 THEN <<>>
        ELSE LET p == params[n]
                 before == fields[n - 1]
                 used == \E i \in DOMAIN before : before[i].in = p.in /\ before[i].name = p.name
             IN IF ~isSent(p) \/ used THEN before
                ELSE Append(before, inputField(p.name, p.in, p.required \/ p.in = "path", p.type))
  IN fields[Len(params)]

bodyFields(body) ==
  LET inBody(name, type) == inputField(name, "body", Contains(body.required, name), type)
  IN CASE body.json = "object" -> [i \in DOMAIN body.props |-> inBody(body.props[i].name, body.props[i].type)]
       [] body.json = "value" -> <<inBody("body", body.type)>>
       [] OTHER -> <<>>

\* The arguments of an operation and their places in the request.
buildRoute(op, components) ==
  [name |-> toolName(op), method |-> op.method, path |-> op.path,
   whole |-> bodyOf(op, components).json = "value",
   fields |-> addParams(paramsOf(op, components)) \o bodyFields(bodyOf(op, components))]

\* Registration, operation after operation: a tool takes the place of a tool
\* of its name, as a resource does of one of its URI, and a template is added.
BareServer == [tools |-> <<>>, resources |-> <<>>, templates |-> <<>>]
Stored(f, key, x) == [k \in DOMAIN f \cup {key} |-> IF k = key THEN x ELSE f[k]]
Register(server, op, route, type) ==
  CASE type = "exclude" -> server
    [] type = "resource" -> [server EXCEPT !.resources = Stored(@, op.path, route)]
    [] type = "template" -> [server EXCEPT !.templates = Append(@, route)]
    [] OTHER -> [server EXCEPT !.tools = Stored(@, route.name, route)]

\* The server after n turns over a document, [rules, ops, components].
FromOpenAPIDoc(doc) ==
  LET served[n \in 0 .. Len(doc.ops)] ==
        IF n = 0 THEN BareServer
        ELSE Register(served[n - 1], doc.ops[n], buildRoute(doc.ops[n], doc.components),
                      classify(doc.rules, doc.ops[n]))
  IN served[Len(doc.ops)]

-----------------------------------------------------------------------------
(* Calls.                                                                   *)

\* The struct a tool's arguments are decoded into, as reflection sees it: an
\* optional field is a pointer.
structType(fields) ==
  [i \in DOMAIN fields |-> [name |-> fields[i].name, type |-> fields[i].type,
                            optional |-> ~fields[i].required, tag |-> <<>>]]

\* The fields of a struct that Go's encoding/json knows, by their names: it
\* leaves out every field whose name another field has too.
NamedFields(fields) ==
  LET alone(f) == \A j, k \in DOMAIN fields : fields[j].name = f.name /\ fields[k].name = f.name => j = k
      kept == {i \in DOMAIN fields : fields[i].name # "-" /\ alone(fields[i])}
  IN [name \in {fields[i].name : i \in kept} |-> fields[CHOOSE i \in kept : fields[i].name = name]]

\* What does not fit a type is an error of the decoder, whatever is around it.
Wrong == [kind |-> "wrong"]
UnlessWrong(parts, whole) == IF Wrong \in Range(parts) THEN Wrong ELSE whole

\* (Mutant) An optional field is no pointer: a zero is sent where nothing was given.
WithoutPointers(fields, given, known) ==
  LET named == NamedFields(fields)
  IN [name \in DOMAIN named |->
       known[named[name].type][IF name \in DOMAIN given THEN given[name] ELSE Null]]

\* What is sent of an object: a field that is not given is null where it is a
\* pointer, and otherwise what null is decoded to; what is undeclared goes.
Encoded(fields, given, known) ==
  LET named == NamedFields(fields)
      x(name) == IF name \in DOMAIN given THEN given[name] ELSE Null
  IN [name \in DOMAIN named |->
       IF named[name].optional /\ x(name) = Null THEN Null ELSE known[named[name].type][x(name)]]

FitsType(T, v) ==
  \/ T.kind = "any"
  \/ <<T.kind, v.kind>> \in {<<"string", "str">>, <<"float", "num">>, <<"bool", "bool">>, <<"map", "map">>}
  \/ T.kind = "int" /\ v.kind = "num" /\ v.n % 2 = 0

\* Null leaves a value the zero of its type.
Zero(T) ==
  CASE T.kind = "string" -> Str(<<>>)
    [] T.kind \in {"int", "float"} -> Num(0)
    [] T.kind = "bool" -> Bool(FALSE)
    [] OTHER -> Null

\* A value decoded into a type and encoded again, its parts' being known.
Recoded(T, v, known) ==
  LET fields == Encoded(T.fields, IF v = Null THEN <<>> ELSE v.m, known)
      elems  == [i \in DOMAIN v.q |-> known[T.elem][v.q[i]]]
  IN CASE T.kind = "struct" /\ (v = Null \/ v.kind = "map") -> UnlessWrong(fields, Map(fields))
       [] T.kind = "slice" /\ v.kind = "list" -> UnlessWrong(elems, List(elems))
       [] T.kind # "struct" /\ v = Null -> Zero(T)
       [] v # Null /\ FitsType(T, v) -> v
       [] OTHER -> Wrong
recode[T \in ToSet(GoTypes)] == [v \in Json |-> Recoded(T, v, recode)]

\* The arguments out of the struct: what is null is dropped, here and no deeper.
ArgsStruct(fields, args) == Encoded(structType(fields), args, recode)
structToMap(fields, args) ==
  LET all == ArgsStruct(fields, args)
  IN [name \in {n \in DOMAIN all : all[n] # Null} |-> all[name]]

\* The values a query argument is sent as: an array repeats its key.
toStrings(v) == IF v.kind = "list" THEN v.q ELSE <<v>>

\* A path segment is sent as a value, [var |-> FALSE], or as it was written.
doRequest(route, vals) ==
  LET given(in) == {i \in DOMAIN route.fields : route.fields[i].in = in /\ route.fields[i].name \in DOMAIN vals}
      args(in) == [name \in {route.fields[i].name : i \in given(in)} |-> vals[name]]
      filled(seg) == IF seg.var /\ seg.name \in DOMAIN args("path")
                       THEN [var |-> FALSE, value |-> args("path")[seg.name]] ELSE seg
  IN [method |-> route.method,
      path |-> [i \in DOMAIN route.path |-> filled(route.path[i])],
      query |-> [name \in DOMAIN args("query") |-> toStrings(args("query")[name])],
      header |-> args("header"),
      body |-> CASE given("body") = {} -> Null
                 [] given("body") # {} /\ route.whole -> vals["body"]
                 [] OTHER -> Map(args("body"))]

InvalidArguments == [error |-> "invalid arguments"]
CallTool(route, args) ==
  IF Wrong \in Range(ArgsStruct(route.fields, args)) THEN InvalidArguments
  ELSE doRequest(route, structToMap(route.fields, args))

\* A template's variables are its path parameters; a resource has none.
ReadRouteTemplate(route, params) ==
  doRequest(route, [name \in {route.fields[i].name : i \in {j \in DOMAIN route.fields :
                               route.fields[j].in = "path" /\ route.fields[j].name \in DOMAIN params}}
                     |-> params[name]])
ReadResource(route) == doRequest(route, <<>>)
=============================================================================
