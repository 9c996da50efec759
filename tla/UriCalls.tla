------------------------------ MODULE UriCalls ------------------------------
(***************************************************************************)
(* URI templates at work: a template is expanded and the URI is matched     *)
(* against it again, or a query is expanded and parsed.  A task is          *)
(* [dialect, template, vars].                                               *)
(***************************************************************************)
EXTENDS UriTemplate, Tasks

CONSTANT UriTasks

UriInit == answers = <<>> /\ \E given \in UriTasks : task = [kind |-> "uri", of |-> given]

ExpandUri ==
  NextCall("uri", 0, CASE t.dialect = "fastmcp" -> ExpandURITemplate(t.template, t.vars)
                   [] OTHER -> Expand(Parse(t.template), t.vars))
MatchUri ==
  NextCall("uri", 1, CASE t.dialect = "fastmcp" -> MatchURITemplate(answers[1], t.template)
                   [] t.dialect = "rfc" -> MatchTemplate(Parse(t.template), answers[1])
                   [] OTHER -> parseQueryKeepBlank(Tail(answers[1])))

UriNext == ExpandUri \/ MatchUri
UriSpec == UriInit /\ [][UriNext]_taskVars

-----------------------------------------------------------------------------
(* Well-formed tasks.                                                       *)

PlainName == Seq(Unreserved) \ {<<>>}
Value == [kind : {"string", "list"}, items : Seq(Seq(Char))]
         \cup [kind : {"map"}, items : Seq(Seq(Char) \X Seq(Char))]

\* A query is made from "{?x*}" and a list or a map under the name x.
WellFormedQuery(given) ==
  LET name == SubSeq(given.template, 3, Len(given.template) - 2) IN
  /\ name \in PlainName
  /\ given.template = <<"{", "?">> \o name \o <<"*", "}">>
  /\ DOMAIN given.vars = {name}
  /\ given.vars[name].kind # "string" /\ given.vars[name].items # <<>>

WellFormedUri(given) ==
  /\ given.dialect \in {"rfc", "fastmcp", "query"}
  /\ given.template \in Seq(Char)
  /\ given.vars \in [DOMAIN given.vars -> IF given.dialect = "fastmcp" THEN Seq(Char) ELSE Value]
  /\ given.dialect # "fastmcp" =>
       \A n \in DOMAIN given.vars : given.vars[n].kind = "string" => Len(given.vars[n].items) = 1
  /\ given.dialect = "query" => WellFormedQuery(given)

ASSUME UriTasksAssumption == \A given \in UriTasks : WellFormedUri(given)

-----------------------------------------------------------------------------
(* What comes back.                                                         *)

\* Between two captures stands a reserved character, which no encoded value has.
Separated(re) ==
  \A i, j \in DOMAIN re :
    i < j /\ IsCapture(re[i]) /\ IsCapture(re[j]) => \E k \in i .. j : re[k].char \in Reserved

\* uritemplate.go promises that Match recovers the variables Expand was given.
\* It can for simple, matchable templates whose literals need no encoding.
RfcInvertible(parts, given) ==
  /\ WellFormed(parts) /\ Matchable(parts) /\ Separated(Regexp(parts))
  /\ Names(parts) = DOMAIN given
  /\ \A i \in DOMAIN parts : parts[i].op # "+" /\ utEncode(parts[i].lit, "U+R") = parts[i].lit
  /\ \A n \in DOMAIN given : given[n].kind = "string" /\ given[n].items[1] # <<>>

\* fastmcp.go: the same for templates with at most one wildcard; a parameter of
\* the query, of a name that needs no encoding, may be blank or left out.
FastInvertible(template, given) ==
  LET split == splitQueryExpr(template)
      items == Placeholders(split.path)
      inPath == {items[i].name : i \in {j \in DOMAIN items : items[j].kind = "var"}}
      inQuery == {normalizeParamName(split.query[i]) : i \in DOMAIN split.query}
  IN /\ Proper(items) /\ Separated(BuildRegex(items))
     /\ \A i, j \in DOMAIN items : items[i].wild /\ items[j].wild => i = j
     /\ \A i \in DOMAIN items : items[i].text # <<"?">>
     /\ \A i \in DOMAIN split.query : split.query[i] \in PlainName
     /\ inPath \subseteq DOMAIN given /\ DOMAIN given \subseteq inPath \cup inQuery
     /\ \A n \in inPath : given[n] # <<>>

\* A list is found under its name, a map under its keys, in their order.
QueryOf(given) ==
  LET n == CHOOSE n \in DOMAIN given : TRUE
      items == given[n].items
  IN IF given[n].kind = "list" THEN [k \in {n} |-> items]
     ELSE [k \in {items[i][1] : i \in DOMAIN items} |->
            FlattenSeq([i \in DOMAIN items |-> IF items[i][1] = k THEN <<items[i][2]>> ELSE <<>>])]

\* uritemplate.go:215, 543, fastmcp.go:154, 201, 293: what was put into a URI is
\* what is found in it: percent-encoding, separators and the choice among
\* several ways to match lose and mix up nothing.
UriRoundTrip ==
  After("uri", 2) =>
    CASE t.dialect = "rfc" ->
           RfcInvertible(Parse(t.template), t.vars) =>
             answers[2] = [matched |-> TRUE, vars |-> [n \in DOMAIN t.vars |-> t.vars[n].items[1]]]
      [] t.dialect = "fastmcp" ->
           FastInvertible(t.template, t.vars) => answers[2] = [matched |-> TRUE, vars |-> t.vars]
      [] OTHER -> answers[2] = QueryOf(t.vars)
=============================================================================
