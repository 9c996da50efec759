----------------------------- MODULE MCLibrary ------------------------------
EXTENDS Library

\* Templates and the values of their variables.
X == <<"x">>
Y == <<"y">>
XY == <<"x", "_", "y">>
MCRfc == {<<"{","x","}","/","{","y","}">>,
  <<"g",":","{","x","}",",","{","y","}">>,
  <<"{","x",",","y","}">>,
  <<"{","/","x",",","y","}">>,
  <<"g","{","x","}","?","{","y","}">>,
  <<"{","x","}","{","y","}">>,
  <<"{","x","}","g","{","y","}">>,
  <<" ","{","x","}",":","{","y","}">>,
  <<"{","+","x","}",":","{","y","}">>,
  <<"{","?","x",",","y","}">>,
  <<"{","x",":","2","}","/","{","y","}">>,
  <<"{","x">>,
  <<"{",";","x","}","{","#","y","}">>,
  <<"{",".","x",",","y","}">>}
MCFast == {<<"g","/","{","x","}","/","{","y","}">>,
  <<"{","x","*","}","/","{","y","}">>,
  <<"{","x","}","/","{","y","*","}">>,
  <<"g","/","{","x","}","{","?","y","}">>,
  <<"{","x","-","y","}","/","{","y","}">>,
  <<"{","x","}","{","?","x","-","y",",","y","}">>,
  <<"{","x","*","}","/","{","y","*","}">>,
  <<"{","x","}","{","y","}">>,
  <<"{","x","}","/","{","&","y","}">>,
  <<"{","x","*","}">>,
  <<"{","x","}","{","?","x","-","y",",","x",",","x","_","y","}">>,
  <<"{","x">>,
  <<"{","0","x","}">>}
MCTexts == {<<"x">>, <<"%">>, <<" ","x">>, <<"x","/">>, <<"+">>, <<"%","2","F">>, <<>>, <<"x",",">>, <<"=","&">>, <<"F","-">>}
MCStrings(a, b) == X :> [kind |-> "string", items |-> <<a>>] @@ Y :> [kind |-> "string", items |-> <<b>>]
MCQueryVars ==
  {X :> [kind |-> "list", items |-> <<a, b>>] : a, b \in MCTexts}
  \cup {X :> [kind |-> "map", items |-> <<<<X, a>>, <<Y, b>>>>] : a, b \in MCTexts}
MCUriTasks ==
  {[dialect |-> "rfc", template |-> s, vars |-> MCStrings(a, b)] : s \in MCRfc, a, b \in MCTexts}
  \cup {[dialect |-> "fastmcp", template |-> s, vars |-> X :> a @@ n :> b] :
          s \in MCFast, a, b \in MCTexts, n \in {Y, XY}}
  \cup {[dialect |-> "fastmcp", template |-> s, vars |-> X :> a] : s \in MCFast, a \in MCTexts}
  \cup {[dialect |-> "query", template |-> <<"{", "?", "x", "*", "}">>, vars |-> v] : v \in MCQueryVars}

-----------------------------------------------------------------------------
\* Schemas: two definitions that refer to each other or not, and a third that
\* the second alone refers to, or nothing does, under roots that refer to the first.
MCType(name) == "type" :> J!Str(name)
MCRef(d) == J!Map("$ref" :> J!Ref(d))
MCObject(props) == J!Map(MCType("object") @@ "properties" :> J!Map(props) @@ "title" :> J!Str("T"))
MCBodies(other) ==
  {J!Map(MCType("integer") @@ "minimum" :> J!Num(2)),
   MCRef(other),
   MCObject("p" :> MCRef(other) @@ "title" :> J!Map(MCType("string"))),
   J!Map(MCType("array") @@ "items" :> MCRef(other)),
   J!Map("anyOf" :> J!List(<<MCRef(other), J!Map(MCType("null"))>>))}
MCRoots ==
  {"$ref" :> J!Ref("A"),
   "$ref" :> J!Ref("A") @@ "minimum" :> J!Num(4),
   MCType("object") @@ "properties" :> J!Map("title" :> MCRef("A") @@ "p" :> MCRef("B"))
     @@ "required" :> J!Strings(<<"title">>),
   "allOf" :> J!List(<<MCRef("A"), J!Map("not a keyword" :> MCRef("B"))>>),
   "anyOf" :> J!List(<<MCRef("A")>>),
   "oneOf" :> J!List(<<MCRef("A"), MCRef("B")>>),
   "anyOf" :> J!List(<<MCObject("p" :> MCRef("A")), MCObject("title" :> MCRef("B"))>>)
     @@ "discriminator" :> J!Map("propertyName" :> J!Str("p")),
   MCType("object") @@ "properties" :> J!Map("p" :> J!Map(MCType("string") @@ "maxLength" :> J!Num(2)))
     @@ "additionalProperties" :> J!Bool(FALSE)}
\* Two definitions that are nothing but a reference to each other have no
\* meaning, and neither have two whose only base is an alternative of both.
MCMeaningless == {MCRef("A"), MCRef("B"), J!Map("anyOf" :> J!List(<<MCRef("A"), J!Map(MCType("null"))>>)),
                  J!Map("anyOf" :> J!List(<<MCRef("B"), J!Map(MCType("null"))>>))}
MCToC == J!Map(MCType("array") @@ "items" :> MCRef("C"))
MCDefs(a, b) ==
  LET c == IF b = MCToC THEN J!Map(MCType("integer") @@ "minimum" :> J!Num(4)) ELSE MCRef("A")
  IN "$defs" :> J!Map("A" :> a @@ "B" :> b @@ "C" :> c)
MCOptions == {[dereference |-> d, params |-> p, titles |-> TRUE, additional |-> open] :
               d, open \in BOOLEAN, p \in {<<>>, <<"p">>}}
MCSchemaTasks ==
  {[schema |-> J!Map(root @@ MCDefs(ab[1], ab[2])), opts |-> o] :
     root \in MCRoots, o \in MCOptions,
     ab \in {ab \in MCBodies("B") \X (MCBodies("A") \cup {J!Map(MCType("string")), MCToC}) :
              ~(ab[1] \in MCMeaningless /\ ab[2] \in MCMeaningless)}}
MCSampleValues ==
  LET one == J!Num(2) two == J!Num(4) text == J!Str(<<"x", "y">>)
      small == {J!Null, one, two, J!Num(3), text, J!Str(<<>>)}
  IN small \cup {J!List(<<v>>) : v \in small} \cup {J!Map("p" :> v) : v \in small}
     \cup {J!Map("title" :> v) : v \in small}
     \cup {J!Map("p" :> v @@ "title" :> w) : v \in {two, text, J!List(<<two>>), J!Map("p" :> two)}, w \in {two, text}}
     \cup {J!Map(<<>>)}

-----------------------------------------------------------------------------
\* Two operations of one document, every pair of four paths and methods.
MCString == [kind |-> "string"]
MCInt == [kind |-> "int"]
MCFloat == [kind |-> "float"]
MCBool == [kind |-> "bool"]
MCMap == [kind |-> "map"]
MCAny == [kind |-> "any"]
MCSlice(T) == [kind |-> "slice", elem |-> T]
MCField(name, optional, T) == [name |-> name, optional |-> optional, type |-> T, tag |-> <<>>]
MCInner == [kind |-> "struct", fields |-> <<MCField("n", TRUE, MCInt), MCField("s", FALSE, MCString)>>]
MCOuter == [kind |-> "struct", fields |-> <<MCField("i", TRUE, MCInner), MCField("x", TRUE, MCAny)>>]
MCGoTypes == <<MCString, MCInt, MCFloat, MCBool, MCMap, MCAny, MCSlice(MCString), MCInner, MCSlice(MCInner), MCOuter>>
\* Whole or half numbers, objects with and without what is required, or with
\* what nothing declares, one inside another, and lists of them.
MCValues ==
  LET plain == {J!Null, J!Bool(TRUE), J!Num(2), J!Num(3), J!Str(<<"a">>)}
      inner == {J!Map(<<>>), J!Map("s" :> J!Str(<<"a">>)), J!Map("n" :> J!Num(2)),
                J!Map("s" :> J!Str(<<"a">>) @@ "u" :> J!Num(2)), J!Map("s" :> J!Str(<<"a">>) @@ "n" :> J!Num(3)),
                J!Map("s" :> J!Str(<<"a">>) @@ "n" :> J!Num(2)), J!Map("s" :> J!Str(<<"a">>) @@ "n" :> J!Null)}
  IN plain \cup inner \cup {J!List(<<>>), J!List(<<J!Str(<<"a">>), J!Null>>)}
     \cup {J!List(<<J!Str(<<a>>), J!Str(<<b>>)>>) : a, b \in {"x", "y"}} \cup {J!Str(<<n>>) : n \in {"x", "y", "b", "c", "body"}}
     \cup {J!List(<<v>>) : v \in inner} \cup {J!Map("i" :> v) : v \in inner}
     \cup {J!Map("i" :> v @@ "x" :> w) : v \in inner, w \in plain} \cup {J!Map("x" :> v) : v \in plain}
MCParam(name, in, required) ==
  [ref |-> NoRef, name |-> name, in |-> in, required |-> required, type |-> MCString]
MCTo(name) == [MCParam("", "", FALSE) EXCEPT !.ref = name]
MCParameters ==
  "limit" :> [MCParam("b", "query", FALSE) EXCEPT !.type = MCSlice(MCString)] @@ "alias" :> MCTo("limit")
MCNoBody == [ref |-> NoRef, json |-> "none", props |-> <<>>, required |-> <<>>, type |-> MCAny]
MCFlat(props, required) == [MCNoBody EXCEPT !.json = "object", !.props = props, !.required = required]
MCProp(name, T) == [name |-> name, type |-> T]
MCWhole(T) == [MCNoBody EXCEPT !.json = "value", !.type = T, !.required = <<"body">>]
MCBodyRef == [MCNoBody EXCEPT !.ref = "flat"]
MCComponents == [parameters |-> MCParameters, bodies |-> "flat" :> MCFlat(<<MCProp("b", MCSlice(MCString)), MCProp("c", MCAny)>>, <<"c">>)]

Fixed(name) == [var |-> FALSE, name |-> name]
Placed(name) == [var |-> TRUE, name |-> name]
MCPaths == {<<Fixed("a")>>, <<Fixed("a"), Placed("a")>>, <<Placed("a"), Placed("c")>>}
MCShared(path) ==
  LET names == SelectSeq(path, LAMBDA s : s.var) IN [i \in DOMAIN names |-> MCParam(names[i].name, "path", TRUE)]
MCOperations ==
  {[method |-> m, path |-> path, id |-> id, tags |-> tags, shared |-> MCShared(path), params |-> ps, body |-> b] :
     m \in {"get", "put"}, path \in MCPaths, id \in {<<>>, <<"a", "-", "b">>}, tags \in {{"x"}},
     ps \in {<<>>, <<MCTo("alias"), MCParam("b", "cookie", TRUE), MCParam("c", "header", TRUE)>>},
     b \in {MCNoBody, MCBodyRef, MCWhole(MCAny)}}
MCOther ==
  {[method |-> "get", path |-> <<Fixed("a"), Placed("a")>>, id |-> id, tags |-> {}, shared |-> <<>>,
    params |-> <<MCParam("a", "path", TRUE)>>, body |-> MCNoBody] : id \in {<<>>, <<"a", ".", "b">>}}
MCRule(methods, tags, type) == [methods |-> methods, paths |-> {}, tags |-> tags, type |-> type]
MCRules ==
  {<<>>, <<MCRule({"put"}, {"x"}, "exclude"), MCRule({"get"}, {"x"}, "template")>>,
   <<MCRule({"get"}, {"x"}, "resource"), MCRule({"*", "put"}, {}, "tool"), MCRule({}, {}, "exclude")>>}
MCArguments ==
  LET names == {"a", "b", "c", "body"}
      value(n) == IF n = "b" THEN J!List(<<J!Str(<<"x">>), J!Str(<<"y">>)>>) ELSE J!Str(<<n>>)
  IN {[n \in given |-> value(n)] : given \in SUBSET names}
\* Calls with a value of every type in the body, alone or as a property.
MCTyped(b) == [method |-> "put", path |-> <<Fixed("a")>>, id |-> <<"a">>, tags |-> {}, shared |-> <<>>,
               params |-> <<>>, body |-> b]
MCTypedTasks ==
  {[rules |-> <<>>, ops |-> <<MCTyped(b)>>, components |-> MCComponents, nth |-> 1, args |-> n :> v] :
     b \in {MCWhole(MCGoTypes[i]) : i \in DOMAIN MCGoTypes}
           \cup {MCFlat(<<MCProp("body", MCGoTypes[i])>>, q) : i \in DOMAIN MCGoTypes, q \in {<<>>, <<"body">>}},
     n \in {"body", "c"}, v \in MCValues}
MCOpenApiTasks ==
  {[rules |-> r, ops |-> <<op, other>>, components |-> MCComponents, nth |-> 1, args |-> args] :
     r \in MCRules, op \in MCOperations, other \in MCOther, args \in MCArguments}
  \cup MCTypedTasks

-----------------------------------------------------------------------------
\* Requests with a token that is right but for one part, to a server that asks
\* for more or less of it.
MCText(words) == [kind |-> "text", words |-> words]
MCClaims ==
  {"iss" :> MCText(iss) @@ "aud" :> aud @@ "exp" :> exp @@ "nbf" :> nbf @@ "scope" :> scope :
     iss \in {<<"i">>, <<>>},
     aud \in {MCText(<<"me">>), [kind |-> "list", items |-> <<MCText(<<"you">>), MCText(<<"me">>)>>], MCText(<<"you">>)},
     exp \in {[kind |-> "number", n |-> 5], [kind |-> "number", n |-> 6], MCText(<<"5">>)},
     nbf \in {[kind |-> "number", n |-> 5], [kind |-> "number", n |-> 6], [kind |-> "other"]},
     scope \in {MCText(<<"r", "w">>), MCText(<<"r">>), [kind |-> "list", items |-> <<MCText(<<"r", "w">>)>>],
                [kind |-> "list", items |-> <<MCText(<<"r">>), [kind |-> "other"], MCText(<<"w">>)>>]}}
MCSound == "iss" :> MCText(<<"i">>) @@ "aud" :> MCText(<<"me">>) @@ "scope" :> MCText(<<"r", "w">>)
           @@ "exp" :> [kind |-> "number", n |-> 6] @@ "nbf" :> [kind |-> "number", n |-> 5]
MCHeader(alg, kid) == [alg |-> alg, kid |-> kid]
MCJwt(header, key, claims) ==
  [segments |-> 3, header |-> header, payload |-> [claims |-> claims], sig |-> [alg |-> header.alg, key |-> key]]
MCSoundJwt == MCJwt(MCHeader("HS256", <<>>), "k1", MCSound)
MCJwts ==
  {MCJwt(MCHeader("HS256", <<>>), "k1", c) : c \in MCClaims}
  \cup {MCJwt(MCHeader(alg, kid), key, MCSound) :
          alg \in {"HS256", "RS256", "none"}, kid \in {<<>>, <<"1">>, <<"2">>}, key \in {"k1", "k2"}}
  \cup {[MCSoundJwt EXCEPT !.segments = 2], [MCSoundJwt EXCEPT !.header = [x |-> 0]],
        [MCSoundJwt EXCEPT !.payload = [x |-> 0]], [MCSoundJwt EXCEPT !.sig.alg = "RS256"]}
MCKey(kty, kid, key) == [kty |-> kty, kid |-> kid, key |-> key]
MCKeySets == {<<>>, <<MCKey("oct", <<"1">>, "k1")>>,
              <<MCKey("oct", <<"1">>, "k1"), MCKey("RSA", <<"1">>, "k2"), MCKey("oct", <<"2">>, Unreadable)>>}
MCToken == <<"token">>
MCVerifiers ==
  {[kind |-> "jwt", hmac |-> k.hmac, rsa |-> NoKey, jwks |-> k.jwks, issuer |-> o.issuer, audience |-> o.audience,
    scopes |-> o.scopes, scopeClaim |-> "scope", leeway |-> o.leeway, decodes |-> MCToken :> jwt] :
     k \in {[hmac |-> "k1", jwks |-> <<>>]} \cup {[hmac |-> NoKey, jwks |-> q] : q \in MCKeySets},
     o \in {[issuer |-> <<>>, audience |-> <<>>, scopes |-> {}, leeway |-> 0],
            [issuer |-> <<"i">>, audience |-> <<"me">>, scopes |-> {<<"r">>, <<"w">>}, leeway |-> 1]},
     jwt \in MCJwts}
MCStatic ==
  {[kind |-> "static", table |-> Set(<<>>, MCToken, [raw |-> <<>>, scopes |-> scopes, exp |-> exp, nbf |-> nbf])] :
     scopes \in {{}, {<<"r">>}}, exp \in {NoTime, At(5), At(6)}, nbf \in {NoTime, At(5), At(6)}}
MCBody(kind, messages) == [kind |-> kind, messages |-> messages]
MCMessage(id, method) == [id |-> id, method |-> method]
MCBatch == MCBody("batch", <<MCMessage(2, "ping"), MCMessage(NoId, "ping"), MCMessage(1, "unknown")>>)
MCRequest == [path |-> <<>>, method |-> "POST", body |-> MCBatch, header |-> [scheme |-> "bearer", token |-> MCToken]]
MCRequests ==
  {[MCRequest EXCEPT !.header = h] : h \in {[scheme |-> "none", token |-> <<>>], [scheme |-> "basic", token |-> MCToken],
                                            [scheme |-> "bearer", token |-> <<>>]}}
  \cup {[MCRequest EXCEPT !.method = m, !.path = p] : m \in {"GET", "HEAD", "PUT"}, p \in {<<>>, WellKnownPath}}
  \cup {[MCRequest EXCEPT !.body = b] :
          b \in {MCBody("malformed", <<>>), MCBody("batch", <<>>), MCBody("batch", <<MCMessage(NoId, "ping")>>),
                 MCBody("one", <<MCMessage(NoId, "unknown")>>), MCBody("one", <<MCMessage(1, "ping")>>)}}
MCHttp(verifier, scopes, request) ==
  [settings |-> [resource |-> <<"r">>, jwks |-> <<>>, servers |-> <<>>, issuer |-> <<"i">>],
   opts |-> [realm |-> <<"mcp">>, meta |-> <<>>, scopes |-> scopes], methods |-> {"ping"},
   verifier |-> verifier, now |-> 5, request |-> request]
MCHttpTasks ==
  {MCHttp(v, scopes, MCRequest) : v \in MCVerifiers \cup MCStatic, scopes \in {{}, {<<"r">>}}}
  \cup {MCHttp(v, {<<"r">>}, r) :
          v \in MCStatic \cup {w \in MCVerifiers : w.decodes = (MCToken :> MCSoundJwt)}, r \in MCRequests}

-----------------------------------------------------------------------------
\* A backend that changes after the proxy was built: as it was, with a handler
\* replaced and a tool more, restarted with nothing, and gone.
MCOwn(does) == [kind |-> "own", does |-> does]
MCGives(blocks, text) == [ok |-> TRUE, value |-> [kind |-> "content", blocks |-> blocks, text |-> text]]
MCJson(words) == [ok |-> TRUE, value |-> [kind |-> "json", text |-> words]]
MCFor(out) == MCOwn("no arguments" :> out @@ "an object" :> out)
MCTools(s, words) ==
  LET s1 == Tool(s, <<"t1">>, <<"d">>, TRUE, MCFor(MCJson(words)))
      s2 == Tool(s1, <<"t2">>, <<"d">>, FALSE, MCOwn("no arguments" :> ToolFailed(<<"wrong">>)))
      s3 == Tool(s2, <<"t3">>, <<"d">>, FALSE, MCFor(MCGives(<<NewImageContent(words), NewTextContent(words)>>, <<>>)))
      s4 == Tool(s3, <<"t4">>, <<"d">>, TRUE, MCFor(MCGives(<<>>, words)))
  IN Tool(s4, <<"t5">>, <<"d">>, FALSE, MCFor([ok |-> TRUE, value |-> NilValue]))
MCUri(c) == <<"g", ":", c>>
MCSlash == <<"{", "x", "}", "/", "{", "y", "}">>
MCTwice == <<"{", "x", "}", ":", "{", "x", "}">>
\* Placeholders named "{x" and "x": the text of one holds that of the other.
MCBrace == <<"{", "{", "x", "}", ";", "{", "x", "}">>
MCReads(s, words) ==
  LET text == [ok |-> TRUE, text |-> words]
      s1 == Resource(s, MCUri("x"), "a", FALSE, MCOwn(text))
      s2 == Resource(s1, MCUri("y"), "b", TRUE, MCOwn(text))
      s3 == Resource(s2, MCUri("g"), "c", FALSE, MCOwn([ok |-> FALSE, text |-> <<"lost">>]))
      s4 == ResourceTemplate(s3, MCSlash, "d", FALSE, MCOwn(text))
      s5 == ResourceTemplate(s4, MCTwice, "e", TRUE, MCOwn(text))
  IN CompleteResourceTemplate(ResourceTemplate(s5, MCBrace, "f", FALSE, MCOwn(text)),
                                MCSlash, MCOwn(<<"v1", "v2", "v3">>))
MCPrompts(s, words) ==
  LET s1 == Prompt(s, <<"p1">>, <<"d">>, <<>>, MCOwn("a" :> [ok |-> TRUE, messages |-> words]))
      s2 == Prompt(s1, <<"p2">>, <<"d">>, <<>>, MCOwn("a" :> [ok |-> FALSE, text |-> words]))
  IN CompletePrompt(s2, <<"p1">>, MCOwn(<<"v1", "v2", "v3">>))
MCBackend(words) ==
  MCPrompts(MCReads(MCTools(NewServer("backend", "v1", "help"), words), words), words)
MCChanged ==
  {MCBackend(<<"old">>), Tool(MCBackend(<<"new">>), <<"t6">>, <<"d">>, FALSE, MCFor(MCJson(<<"new">>))),
   NewServer("backend", "v2", "none"), [MCBackend(<<"old">>) EXCEPT !.up = FALSE]}
MCSpec(template) == [key |-> template, about |-> "t"]
MCConfigs ==
  {[name |-> "none", version |-> "none", instructions |-> "mine", initialize |-> init, prefix |-> prefix,
    tools |-> tools, prompts |-> {<<"p1">>, <<"p2">>}, resources |-> {MCUri("x"), MCUri("y"), MCUri("g")} \ out,
    templates |-> templates] :
     init \in BOOLEAN, prefix \in {<<>>, <<"my">>}, out \in {{}, {MCUri("x")}},
     tools \in {{<<"t1">>, <<"t2">>, <<"t3">>, <<"t4">>, <<"t5">>}, {<<"t2">>}},
     templates \in {<<>>, <<MCSpec(MCSlash), MCSpec(MCTwice), MCSpec(MCSlash), MCSpec(MCBrace)>>}}
MCAsk(method, params) == [method |-> method, params |-> params]
MCAsks ==
  {MCAsk("tools/call", [name |-> prefix \o <<tool>>, args |-> args]) :
     prefix \in {<<>>, <<"my">>}, tool \in {"t1", "t2", "t3", "t4", "t5", "t6"},
     args \in {"no arguments", "an object", "not an object"}}
  \cup {MCAsk("resources/read", [uri |-> uri]) :
          uri \in {MCUri("x"), MCUri("y"), MCUri("g"), <<"x", "/", "y">>, <<"x", ":", "y">>, <<"x", ";", "y">>,
                   <<"{", "y", "}", "/", "x">>, <<"%", "2", "/", "g", ":", "x">>}}
  \cup {MCAsk("prompts/get", [name |-> prefix \o <<name>>, args |-> "a"]) :
          prefix \in {<<>>, <<"my">>}, name \in {"p1", "p2"}}
  \cup {MCAsk("completion/complete", [ref |-> ref, argument |-> "x", value |-> ""]) :
          ref \in {[type |-> "ref/prompt", name |-> prefix \o <<name>>] :
                      prefix \in {<<>>, <<"my">>}, name \in {"p1", "p2", "p3"}}
                  \cup {[type |-> "ref/resource", name |-> MCSlash], [type |-> "ref/tool", name |-> <<"t1">>]}}
  \cup {MCAsk(list, <<>>) : list \in {"tools/list", "resources/list", "prompts/list"}}
  \cup {MCAsk("initialize", [protocol |-> ""])}
MCProxyTasks ==
  {[before |-> MCBackend(<<"old">>), after |-> after, cfg |-> cfg, request |-> ask] :
     after \in MCChanged, cfg \in MCConfigs, ask \in MCAsks}
=============================================================================
