----------------------------- MODULE JsonSchema -----------------------------
(***************************************************************************)
(* The package jsonschema: references and their inlining (refs.go), the     *)
(* clean-up of a schema (transform.go) and validation (validate.go), and    *)
(* the schemas the server reflects from Go types (schema.go).  A schema and *)
(* the value it judges are both decoded JSON, so a property may be named    *)
(* like a keyword.                                                          *)
(***************************************************************************)
EXTENDS Integers, SequencesExt, JsonValue

\* What a "$ref" points to: a definition by its name, anywhere else in the
\* document (which may be inside a definition), or another document.
Ref(to) == [kind |-> "ref", to |-> to]
Inside == "inside"
Remote == "remote"

Has(n, key) == n.kind = "map" /\ key \in DOMAIN n.m
HasMap(n, key) == Has(n, key) /\ n.m[key].kind = "map"
Without(n, key) == Map([k \in DOMAIN n.m \ {key} |-> n.m[k]])
With(n, key, x) == Map([k \in DOMAIN n.m \cup {key} |-> IF k = key THEN x ELSE n.m[k]])
OnKids(n, F(_)) ==
  CASE n.kind = "map" -> Map([k \in DOMAIN n.m |-> F(n.m[k])])
    [] n.kind = "list" -> List([i \in DOMAIN n.q |-> F(n.q[i])])
    [] OTHER -> n

\* A list of names, decoded or built in Go.
asStrings(n) ==
  CASE n.kind = "strings" -> n.q
    [] n.kind = "list" -> LET texts == SelectSeq(n.q, LAMBDA e : e.kind = "str")
                          IN [i \in DOMAIN texts |-> texts[i].s]
    [] OTHER -> <<>>
NamesAt(n, key) == IF Has(n, key) THEN asStrings(n.m[key]) ELSE <<>>

-----------------------------------------------------------------------------
(* References.                                                              *)

defName(n) == Has(n, "$ref") /\ n.m["$ref"].kind = "ref" /\ n.m["$ref"].to \notin {Inside, Remote}
isRemoteRef(n) == Has(n, "$ref") /\ n.m["$ref"].kind = "ref" /\ n.m["$ref"].to = Remote

RECURSIVE stripRemote(_), collectDefRefs(_), inlineDefs(_, _, _), Closure(_, _)
stripRemote(n) ==
  OnKids(IF isRemoteRef(n) THEN Without(n, "$ref") ELSE n, LAMBDA x : stripRemote(x))

collectDefRefs(n) ==
  LET own == IF defName(n) THEN {n.m["$ref"].to} ELSE {} IN
  CASE n.kind = "map" -> own \cup UNION {collectDefRefs(n.m[k]) : k \in DOMAIN n.m}
    [] n.kind = "list" -> UNION {collectDefRefs(n.q[i]) : i \in DOMAIN n.q}
    [] OTHER -> {}

Defs(n) == IF HasMap(n, "$defs") THEN n.m["$defs"].m ELSE <<>>

\* (Mutant) Definitions that only another definition leads to are not followed.
OneStep(names, defs) == names \cup UNION {collectDefRefs(defs[d]) : d \in names \cap DOMAIN defs}

\* Everything reached from a set of names through the definitions.
Closure(names, defs) ==
  LET more == names \cup UNION {collectDefRefs(defs[d]) : d \in names \cap DOMAIN defs}
  IN IF more = names THEN names ELSE Closure(more, defs)

hasCircularDefRef(defs) == \E d \in DOMAIN defs : d \in Closure(collectDefRefs(defs[d]), defs)

\* A reference becomes a copy of its definition, under the siblings of "$ref".
inlineDefs(n, defs, active) ==
  LET into(x) == inlineDefs(x, defs, active)
      to == n.m["$ref"].to IN
  IF defName(n) /\ to \notin active /\ to \in DOMAIN defs /\ defs[to].kind = "map"
    THEN LET resolved == inlineDefs(defs[to], defs, active \cup {to})
             siblings == OnKids(Without(n, "$ref"), into)
         IN Map(siblings.m @@ resolved.m)
    ELSE OnKids(n, into)

ResolveRootRef(n) ==
  IF Has(n, "type") \/ ~defName(n) \/ ~HasMap(n, "$defs") THEN n
  ELSE LET to == n.m["$ref"].to IN
       IF to \in DOMAIN Defs(n) /\ Defs(n)[to].kind = "map"
         THEN Map(Defs(n)[to].m @@ Without(n, "$ref").m) ELSE n

\* A function on every schema that a schema keyword leads to.
SingleKeywords == {"not", "if", "then", "else", "additionalItems", "contentSchema", "propertyNames",
                   "unevaluatedItems", "unevaluatedProperties", "additionalProperties"}
MapKeywords == {"properties", "patternProperties", "$defs", "definitions", "dependentSchemas", "dependencies"}
ListKeywords == {"allOf", "anyOf", "oneOf", "prefixItems"}
OnSchemas(n, F(_)) ==
  LET sub(x) == IF x.kind = "map" THEN F(x) ELSE x
      at(k, x) ==
        CASE k \in SingleKeywords -> sub(x)
          [] k \in MapKeywords /\ x.kind = "map" -> OnKids(x, sub)
          [] k \in ListKeywords /\ x.kind = "list" -> OnKids(x, sub)
          [] k = "items" -> IF x.kind = "list" THEN OnKids(x, sub) ELSE sub(x)
          [] OTHER -> x
  IN Map([k \in DOMAIN n.m |-> at(k, n.m[k])])

addRequired(n, name) ==
  IF n.kind # "map" \/ Contains(NamesAt(n, "required"), name) THEN n
  ELSE With(n, "required", Strings(Append(NamesAt(n, "required"), name)))

RECURSIVE applyDiscriminator(_), pruneTitles(_), pruneAdditionalProperties(_)
applyDiscriminator(n) ==
  LET disc == n.m["discriminator"]
      named == Has(disc, "propertyName") /\ disc.m["propertyName"].kind = "str"
                 /\ disc.m["propertyName"].s # ""
      at(k, x) ==
        IF named /\ k \in {"anyOf", "oneOf", "allOf"} /\ x.kind = "list"
          THEN OnKids(x, LAMBDA v : addRequired(v, disc.m["propertyName"].s)) ELSE x
      here == IF HasMap(n, "discriminator")
                THEN Map([k \in DOMAIN n.m \ {"discriminator"} |-> at(k, n.m[k])]) ELSE n
  IN OnSchemas(here, LAMBDA x : applyDiscriminator(x))

DereferenceRefs(schema) ==
  LET safe == stripRemote(schema) IN
  IF hasCircularDefRef(Defs(safe)) THEN ResolveRootRef(safe)
  ELSE applyDiscriminator(inlineDefs(Without(safe, "$defs"), Defs(safe), {}))

-----------------------------------------------------------------------------
(* Clean-up.                                                                *)

PruneParam(n, name) ==
  LET kept == SelectSeq(NamesAt(n, "required"), LAMBDA r : r # name)
      left == IF HasMap(n, "properties") THEN With(n, "properties", Without(n.m["properties"], name)) ELSE n
  IN CASE ~Has(n, "required") -> left
       [] Has(n, "required") /\ kept = <<>> -> Without(left, "required")
       [] OTHER -> With(left, "required", Strings(kept))

pruneTitles(n) == OnSchemas(Without(n, "title"), LAMBDA x : pruneTitles(x))

\* Unlike the two above, this walks every map, whatever its key.
pruneAdditionalProperties(n) ==
  LET sub(x) == IF x.kind = "map" THEN pruneAdditionalProperties(x) ELSE x
      each(x) == IF x.kind = "list" THEN OnKids(x, sub) ELSE sub(x)
      open == IF Has(n, "additionalProperties") /\ n.m["additionalProperties"] = Bool(FALSE)
                THEN Without(n, "additionalProperties") ELSE n
  IN OnKids(open, each)

\* What the values of a schema refer to: a "$ref" of the schema itself is none.
pruneUnusedDefs(n) ==
  LET rest == Without(n, "$defs")
      seeds == UNION {collectDefRefs(rest.m[k]) : k \in DOMAIN rest.m}
      used == Closure(seeds, Defs(n)) \cap DOMAIN Defs(n)
  IN IF used = {} /\ HasMap(n, "$defs") THEN rest
     ELSE IF HasMap(n, "$defs") THEN With(n, "$defs", Map([d \in used |-> Defs(n)[d]])) ELSE n

CompressSchema(schema, opts) ==
  LET inlined == IF opts.dereference THEN DereferenceRefs(schema) ELSE schema
      pruned  == FoldLeft(PruneParam, inlined, opts.params)
      plain   == IF opts.titles THEN pruneTitles(pruned) ELSE pruned
      open    == IF opts.additional THEN pruneAdditionalProperties(plain) ELSE plain
  IN pruneUnusedDefs(open)

-----------------------------------------------------------------------------
(* Validation.                                                              *)

matchesType(t, v) ==
  CASE t = "object" -> v.kind = "map"
    [] t = "array" -> v.kind = "list"
    [] t = "string" -> v.kind = "str"
    [] t = "boolean" -> v.kind = "bool"
    [] t = "null" -> v = Null
    [] t = "number" -> v.kind = "num"
    [] t = "integer" -> v.kind = "num" /\ v.n % 2 = 0
    [] OTHER -> TRUE

validateTypeAny(raw, v) ==
  CASE raw.kind = "str" -> matchesType(raw.s, v)
    [] raw.kind = "list" -> \E t \in ToSet(asStrings(raw)) : matchesType(t, v)
    [] OTHER -> TRUE

\* A limit is enforced when it is a number, anything else passed over; a size
\* is a whole number of things.
Limit(n, key, holds(_)) == Has(n, key) /\ n.m[key].kind = "num" => holds(n.m[key].n)

validateArray(n, v) ==
  v.kind = "list" =>
    /\ Limit(n, "minItems", LAMBDA m : Len(v.q) >= m \div 2)
    /\ Limit(n, "maxItems", LAMBDA m : Len(v.q) <= m \div 2)
    /\ Has(n, "uniqueItems") /\ n.m["uniqueItems"] = Bool(TRUE) => IsInjective(v.q)

\* A pattern is left out.
validateString(n, v) ==
  v.kind = "str" => /\ Limit(n, "minLength", LAMBDA m : Len(v.s) >= m \div 2)
                    /\ Limit(n, "maxLength", LAMBDA m : Len(v.s) <= m \div 2)

validateNumber(n, v) ==
  v.kind = "num" =>
    /\ Limit(n, "minimum", LAMBDA m : v.n >= m)
    /\ Limit(n, "maximum", LAMBDA m : v.n <= m)
    /\ Limit(n, "exclusiveMinimum", LAMBDA m : v.n > m)
    /\ Limit(n, "exclusiveMaximum", LAMBDA m : v.n < m)
    /\ Limit(n, "multipleOf", LAMBDA m : m # 0 => v.n % m = 0)

ListAt(n, key) == Has(n, key) /\ n.m[key].kind = "list"
SubSchemas(n, key) == IF ListAt(n, key) THEN SelectSeq(n.m[key].q, LAMBDA x : x.kind = "map") ELSE <<>>

\* What a schema stands for when its references are followed as they are met.
RECURSIVE Resolved(_, _), ValidUnder(_, _, _)
Resolved(n, defs) ==
  IF defName(n) /\ n.m["$ref"].to \in DOMAIN defs /\ defs[n.m["$ref"].to].kind = "map"
    THEN Map(Without(n, "$ref").m @@ Resolved(defs[n.m["$ref"].to], defs).m) ELSE n

ValidUnder(schema, v, defs) ==
  LET n == Resolved(schema, defs)
      valid(sub, x) == sub.kind = "map" => ValidUnder(sub, x, defs)
      matching(key) == SelectSeq(SubSchemas(n, key), LAMBDA sub : valid(sub, v))
      props == IF HasMap(n, "properties") THEN n.m["properties"].m ELSE <<>> IN
  /\ Len(matching("allOf")) = Len(SubSchemas(n, "allOf"))
  /\ Has(n, "anyOf") => matching("anyOf") # <<>>
  /\ Has(n, "oneOf") => Len(matching("oneOf")) = 1
  /\ Has(n, "const") => n.m["const"] = v
  /\ ListAt(n, "enum") => Contains(n.m["enum"].q, v)
  /\ Has(n, "type") => validateTypeAny(n.m["type"], v)
  /\ v.kind = "map" =>
       /\ ToSet(NamesAt(n, "required")) \subseteq DOMAIN v.m
       /\ \A k \in DOMAIN props \cap DOMAIN v.m : valid(props[k], v.m[k])
       /\ Has(n, "additionalProperties") /\ n.m["additionalProperties"] = Bool(FALSE)
            => DOMAIN v.m \subseteq DOMAIN props
  /\ validateArray(n, v)
  /\ v.kind = "list" /\ HasMap(n, "items") => \A i \in DOMAIN v.q : valid(n.m["items"], v.q[i])
  /\ validateString(n, v)
  /\ validateNumber(n, v)

\* The code's validator takes every schema as it is and follows no reference.
Validate(schema, v) == ValidUnder(schema, v, <<>>)

-----------------------------------------------------------------------------
(* Reflection: the schema of a Go struct.  A type is a record with its kind *)
(* and, where it has them, its element type and its fields; a field has the *)
(* name of its json tag, its type, whether it is a pointer or omitempty,    *)
(* and its jsonschema tag.                                                  *)

\* Limits stay texts, and an enum is a []string.
parseJSONSchemaTag(tag) ==
  [key \in DOMAIN tag \cap {"description", "title", "default", "enum", "minimum", "maximum"} |->
    IF key = "enum" THEN Strings(tag[key]) ELSE Str(tag[key])]

RECURSIVE typeSchema(_), reflectStructSchema(_)
typeSchema(t) ==
  LET plain(name) == Map("type" :> Str(name)) IN
  CASE t.kind = "bool" -> plain("boolean")
    [] t.kind = "int" -> plain("integer")
    [] t.kind = "float" -> plain("number")
    [] t.kind = "string" -> plain("string")
    [] t.kind = "slice" -> Map("type" :> Str("array") @@ "items" :> typeSchema(t.elem))
    [] t.kind = "map" -> plain("object")
    [] t.kind = "struct" -> reflectStructSchema(t.fields)
    [] OTHER -> Map(<<>>)

\* Of two fields of one name the later gives the property its schema.
reflectStructSchema(fields) ==
  LET shown == SelectSeq(fields, LAMBDA f : f.name # "-")
      required == SelectSeq(shown, LAMBDA f : ~f.optional)
      field(f) == Map(parseJSONSchemaTag(f.tag) @@ typeSchema(f.type).m)
      last(name) == shown[SelectLastInSeq(shown, LAMBDA f : f.name = name)]
      schema == "type" :> Str("object") @@
                "properties" :> Map([name \in {shown[i].name : i \in DOMAIN shown} |-> field(last(name))])
  IN Map(IF required = <<>> THEN schema
         ELSE schema @@ "required" :> Strings([i \in DOMAIN required |-> required[i].name]))
=============================================================================
