------------------------------- MODULE Library ------------------------------
(***************************************************************************)
(* The stateless packages at work: a caller takes up one task and makes the *)
(* calls it needs, one after another.  What each call answers is kept.      *)
(*   uri      an RFC 6570 or a FastMCP template is expanded and the URI is   *)
(*            matched against it again; a query is expanded and parsed       *)
(*   schema   a JSON Schema is dereferenced, and cleaned up                  *)
(*   openapi  the operations of a document are registered, one is called     *)
(*   http     a request passes the middleware                                *)
(*   proxy    a proxy is built, the backend changes, both are asked the same *)
(***************************************************************************)
EXTENDS FiniteSets, SequencesExt, UriCalls, HttpRequests, ProxyCalls, OpenApiCalls

CONSTANTS SchemaTasks,       \* [schema, opts]
          SampleValues       \* the values a schema is tried on

J == INSTANCE JsonSchema

Init ==
  /\ answers = <<>>
  /\ \/ UriInit
     \/ \E given \in SchemaTasks : task = [kind |-> "schema", of |-> given]
     \/ OpenApiInit
     \/ HttpInit
     \/ ProxyInit

-----------------------------------------------------------------------------
(* Schemas.                                                                 *)

Dereference == NextCall("schema", 0, J!DereferenceRefs(t.schema))
Compress    == NextCall("schema", 1, J!CompressSchema(t.schema, t.opts))

\* The schema of a generated tool's input, as tools/list shows it.
InputSchema(generated) == J!reflectStructSchema(structType(generated.fields))

Next ==
  \/ UriNext
  \/ Dereference \/ Compress
  \/ OpenApiNext
  \/ ServeHTTP
  \/ ProxyNext

Spec == Init /\ [][Next]_taskVars

-----------------------------------------------------------------------------
(* Properties of schemas.                                                   *)

Circular(schema) == J!hasCircularDefRef(J!Defs(schema))

\* The schemas whose references a reader can follow without any other source.
SelfContained(schema) ==
  LET defs == J!Defs(schema)
      named == J!collectDefRefs(schema)
  IN /\ J!stripRemote(schema) = schema
     /\ named \subseteq DOMAIN defs
     /\ Circular(schema) => ~J!Has(schema, "$ref")

\* A discriminator asks every variant for the property it names, once the
\* references are inlined.
Discriminates(schema, v) ==
  J!HasMap(schema, "discriminator") /\ ~Circular(schema) =>
    (v.kind = "map" => schema.m["discriminator"].m["propertyName"].s \in DOMAIN v.m)

MeansUnder(schema, v) == J!ValidUnder(schema, v, J!Defs(schema))

\* refs.go, transform.go: inlining the references of a schema, and cleaning it
\* up without dropping parameters or limits, accept what the schema accepted:
\* a sibling of "$ref", a property named like a keyword, a definition reached
\* only through another, a cycle, must not change what a value has to be.
\* Condition: a schema that is itself a reference is dereferenced, too.
\* schema.go, register.go: the input schema reflected from the struct of a
\* generated tool accepts what its operation declares, down to the properties of
\* its body's objects, and refuses what is missing or ill-typed.
SchemaKeepsMeaning ==
  /\ task.kind = "schema" /\ SelfContained(t.schema) =>
       /\ After("schema", 1) =>
            \A v \in SampleValues :
              /\ MeansUnder(answers[1], v) = (MeansUnder(t.schema, v) /\ Discriminates(t.schema, v))
              \* a client needs no references: the validator's verdict is the same
              /\ ~Circular(t.schema) => J!Validate(answers[1], v) = MeansUnder(answers[1], v)
       /\ After("schema", 2) /\ ~t.opts.dereference /\ ~t.opts.additional /\ t.opts.params = <<>>
          /\ ~J!Has(t.schema, "$ref") =>
            \A v \in SampleValues : MeansUnder(answers[2], v) = MeansUnder(t.schema, v)
       /\ After("schema", 2) /\ t.opts.dereference /\ ~t.opts.additional /\ t.opts.params = <<>> =>
            \A v \in SampleValues : MeansUnder(answers[2], v) = MeansUnder(answers[1], v)
       \* opening a schema up refuses nothing it accepted, alternatives aside
       /\ After("schema", 2) /\ t.opts.additional /\ t.opts.params = <<>> /\ ~J!Has(t.schema, "oneOf") =>
            \A v \in SampleValues : MeansUnder(answers[1], v) => MeansUnder(answers[2], v)
  /\ After("openapi", 1) /\ classify(t.rules, Called) = "tool" /\ NameUnique(Called) /\ NamesDistinct(Called) =>
       J!Validate(InputSchema(answers[1].tools[toolName(Called)]), J!Map(t.args)) = Conforms(Called, t.args)

\* transform.go says that the clean-up removes the definitions that no "$ref"
\* refers to: those that one does refer to stay.
ReferencedDefsStay ==
  After("schema", 2) /\ SelfContained(t.schema) =>
    J!collectDefRefs(answers[2]) \subseteq DOMAIN J!Defs(answers[2])

=============================================================================
