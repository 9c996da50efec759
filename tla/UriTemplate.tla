---------------------------- MODULE UriTemplate ----------------------------
(***************************************************************************)
(* The three dialects of URI templates in the library:                      *)
(*   - the one the server's registry uses (resource.go);                    *)
(*   - RFC 6570 templates (uritemplate/uritemplate.go);                     *)
(*   - Python FastMCP's templates (uritemplate/fastmcp.go);                 *)
(* and the substitution by which a proxy asks its backend for a URI it has  *)
(* matched (proxy/proxy.go).  Text is a sequence of characters: percent-    *)
(* encoding is what these functions are about.  A character is a string of  *)
(* length one; "b22", "bF2" and "bFF" stand for bytes no template writes.   *)
(***************************************************************************)
EXTENDS Integers, SequencesExt

Hex == {"0", "2", "3", "5", "6", "7", "A", "B", "C", "D", "F"}
Unreserved == Hex \cup {"g", "x", "y", "-", "_", "."}
Reserved == {":", "/", "?", "#", "&", "+", ",", ";", "=", "*"}

\* The two hexadecimal digits of every other character of the alphabet, and of
\* the reserved ones.
Code == [c \in Reserved \cup {"%", " ", "{", "}", "b22", "bF2", "bFF"} |->
          CASE c = ":" -> <<"3","A">> [] c = "/" -> <<"2","F">> [] c = "?" -> <<"3","F">>
            [] c = "#" -> <<"2","3">> [] c = "&" -> <<"2","6">> [] c = "+" -> <<"2","B">>
            [] c = "," -> <<"2","C">> [] c = ";" -> <<"3","B">> [] c = "=" -> <<"3","D">>
            [] c = "*" -> <<"2","A">> [] c = "%" -> <<"2","5">> [] c = " " -> <<"2","0">>
            [] c = "{" -> <<"7","B">> [] c = "}" -> <<"7","D">>
            [] c = "b22" -> <<"2","2">> [] c = "bF2" -> <<"F","2">> [] OTHER -> <<"F","F">>]

\* The alphabet.
Char == Unreserved \cup DOMAIN Code

Escaped(c) == <<"%">> \o Code[c]
From(s, i) == SubSeq(s, i, Len(s))
IndexOf(s, c) ==
  LET at == {i \in DOMAIN s : s[i] = c} IN IF at = {} THEN 0 ELSE Min(at)

\* A loop over a text of this length: at position i it yields the sequence head[i]
\* and goes on at next[i].
Scan(length, head, next) ==
  LET from[i \in 1 .. (length + 1)] == IF i > length THEN <<>> ELSE head[i] \o from[next[i]]
  IN from[1]

\* Every piece ends at a separator, one put at the end included.
Split(s, c) ==
  LET text == Append(s, c)
      stop(i) == CHOOSE k \in i .. Len(text) : text[k] = c /\ \A j \in i .. (k - 1) : text[j] # c
  IN Scan(Len(text), [i \in DOMAIN text |-> <<SubSeq(text, i, stop(i) - 1)>>],
                     [i \in DOMAIN text |-> stop(i) + 1])

Join(ss, sep) == FlattenSeq([i \in DOMAIN ss |-> IF i = 1 THEN ss[i] ELSE sep \o ss[i]])

Substitute(s, old, new) ==
  LET found(i) == IsPrefix(old, From(s, i))
  IN Scan(Len(s), [i \in DOMAIN s |-> IF found(i) THEN new ELSE <<s[i]>>],
                  [i \in DOMAIN s |-> IF found(i) THEN i + Len(old) ELSE i + 1])

-----------------------------------------------------------------------------
(* Percent-encoding and decoding.                                           *)

IsTriplet(s, i) == s[i] = "%" /\ i + 2 <= Len(s) /\ s[i + 1] \in Hex /\ s[i + 2] \in Hex

utEncode(s, allow) ==
  FlattenSeq([i \in DOMAIN s |->
    IF \/ s[i] \in Unreserved
       \/ allow = "U+R" /\ (s[i] \in Reserved \/ IsTriplet(s, i))
      THEN <<s[i]>> ELSE Escaped(s[i])])

\* (Mutant) "/" is kept in every value, not only in that of a wildcard.
EncodeKeepingSlash(s, wildcard) ==
  FlattenSeq([i \in DOMAIN s |-> IF s[i] \in Unreserved \cup {"/"} THEN <<s[i]>> ELSE Escaped(s[i])])

fmEncode(s, wildcard) ==
  FlattenSeq([i \in DOMAIN s |->
    IF s[i] \in Unreserved \/ (wildcard /\ s[i] = "/") THEN <<s[i]>> ELSE Escaped(s[i])])

\* The character of an escape that begins at i; what follows in it yields none.
Decoded(s) ==
  LET inside(i) == \E k \in 1 .. (i - 1) : k >= i - 2 /\ s[k] = "%"
      value(i) == CHOOSE c \in DOMAIN Code : Code[c] = <<s[i + 1], s[i + 2]>>
  IN FlattenSeq([i \in DOMAIN s |-> IF inside(i) THEN <<>>
                                    ELSE IF s[i] = "%" THEN <<value(i)>> ELSE <<s[i]>>])

\* A value that is not valid percent-encoding is left as it is.
Unescape(s) == IF \A i \in DOMAIN s : s[i] = "%" => IsTriplet(s, i) THEN Decoded(s) ELSE s

-----------------------------------------------------------------------------
(* Anchored regular expressions: literal characters, and captures of one or *)
(* more characters, of one segment unless they may span "/".                *)

Literal(c) == [name |-> <<>>, char |-> c, spans |-> FALSE]
Capture(name, spans) == [name |-> name, char |-> "", spans |-> spans]
Literals(s) == [i \in DOMAIN s |-> Literal(s[i])]
IsCapture(item) == item.char = ""

Captured(re) == {i \in DOMAIN re : IsCapture(re[i])}

\* Where every item begins when the captures end before these positions.
Places(re, ends) ==
  [i \in 1 .. (Len(re) + 1) |->
    LET before == {k \in DOMAIN ends : k < i}
    IN IF before = {} THEN i ELSE ends[Max(before)] + (i - Max(before) - 1)]

\* Every way a text matches: where the items begin, and where the last one ends.
Fits(re, s) ==
  {at \in {Places(re, ends) : ends \in [Captured(re) -> 2 .. (Len(s) + 1)]} :
    /\ at[Len(re) + 1] = Len(s) + 1
    /\ \A i \in DOMAIN re :
         IF IsCapture(re[i])
           THEN at[i] < at[i + 1] /\ (re[i].spans \/ \A k \in at[i] .. (at[i + 1] - 1) : s[k] # "/")
           ELSE at[i] <= Len(s) /\ s[at[i]] = re[i].char}

\* The match the engine reports: earlier captures as long as possible, or, when
\* they are lazy, as short as possible.
Prefers(f, g, lazy) ==
  \/ f = g
  \/ \E i \in DOMAIN f :
       /\ \A j \in 1 .. (i - 1) : f[j] = g[j]
       /\ IF lazy THEN f[i] < g[i] ELSE f[i] > g[i]

Best(re, s, lazy) ==
  LET all == Fits(re, s) IN CHOOSE f \in all : \A g \in all : Prefers(f, g, lazy)

\* The variables of a match; of two captures of one name the later is kept.
NoMatch == [matched |-> FALSE, vars |-> <<>>]
Match(re, s, lazy) ==
  IF Fits(re, s) = {} THEN NoMatch
  ELSE LET at == Best(re, s, lazy)
           last(n) == Max({i \in Captured(re) : re[i].name = n})
       IN [matched |-> TRUE,
           vars |-> [n \in {re[i].name : i \in Captured(re)} |->
                      SubSeq(s, at[last(n)], at[last(n) + 1] - 1)]]
Unescaped(found) == [found EXCEPT !.vars = [n \in DOMAIN @ |-> Unescape(@[n])]]

-----------------------------------------------------------------------------
(* The server's dialect: "{name}" is one segment, taken as it stands.       *)

compileURITemplate(tmpl) ==
  LET close(i) == IndexOf(From(tmpl, i), "}")
      braced(i) == tmpl[i] = "{" /\ close(i) > 2
  IN Scan(Len(tmpl), [i \in DOMAIN tmpl |->
                        IF braced(i) THEN <<Capture(SubSeq(tmpl, i + 1, i + close(i) - 2), FALSE)>>
                        ELSE <<Literal(tmpl[i])>>],
                     [i \in DOMAIN tmpl |-> IF braced(i) THEN i + close(i) ELSE i + 1])

match(tmpl, uri) == Match(compileURITemplate(tmpl), uri, FALSE)

\* What a proxy may ask its backend for: the variables are substituted one
\* after another, in the order a Go map is ranged over, which is any order.
expandTemplate(tmpl, vars) ==
  LET after(order) ==
        LET out[n \in 0 .. Len(order)] ==
              IF n = 0 THEN tmpl
              ELSE Substitute(out[n - 1], <<"{">> \o order[n] \o <<"}">>, vars[order[n]])
        IN out[Len(order)]
  IN {after(order) : order \in SetToSeqs(DOMAIN vars)}

-----------------------------------------------------------------------------
(* RFC 6570.                                                                *)

utOperator(op) ==
  CASE op \in {"+", "#"} -> [first |-> IF op = "#" THEN <<"#">> ELSE <<>>, sep |-> <<",">>,
                             named |-> FALSE, ifEmpty |-> <<>>, allow |-> "U+R"]
    [] op \in {".", "/"} -> [first |-> <<op>>, sep |-> <<op>>,
                             named |-> FALSE, ifEmpty |-> <<>>, allow |-> "U"]
    [] op = ";" -> [first |-> <<";">>, sep |-> <<";">>, named |-> TRUE, ifEmpty |-> <<>>, allow |-> "U"]
    [] op \in {"?", "&"} -> [first |-> <<op>>, sep |-> <<"&">>,
                             named |-> TRUE, ifEmpty |-> <<"=">>, allow |-> "U"]
    [] OTHER -> [first |-> <<>>, sep |-> <<",">>, named |-> FALSE, ifEmpty |-> <<>>, allow |-> "U"]

Numerals == [d \in {"0", "2", "3", "5", "6", "7"} |->
              CASE d = "0" -> 0 [] d = "2" -> 2 [] d = "3" -> 3 [] d = "5" -> 5 [] d = "6" -> 6 [] OTHER -> 7]

\* One variable of an expression: its name, with "*" or with ":" and a length
\* of one digit (-1 when there is none).
ParseVar(raw) ==
  LET colon == IndexOf(raw, ":")
      digits == From(raw, colon + 1) IN
  IF raw # <<>> /\ Last(raw) = "*"
    THEN [ok |-> Len(raw) > 1, name |-> Front(raw), explode |-> TRUE, prefix |-> -1]
  ELSE IF colon = 0 THEN [ok |-> raw # <<>>, name |-> raw, explode |-> FALSE, prefix |-> -1]
  ELSE IF Len(digits) = 1 /\ digits[1] \in DOMAIN Numerals
    THEN [ok |-> colon > 1, name |-> SubSeq(raw, 1, colon - 1), explode |-> FALSE, prefix |-> Numerals[digits[1]]]
  ELSE [ok |-> FALSE, name |-> raw, explode |-> FALSE, prefix |-> -1]

utParseExpr(body) ==
  LET hasOp == body # <<>> /\ body[1] \in {"+", "#", ".", "/", ";", "?", "&"}
      rest  == IF hasOp THEN Tail(body) ELSE body
      vars  == [i \in DOMAIN Split(rest, ",") |-> ParseVar(Split(rest, ",")[i])]
  IN [ok |-> rest # <<>> /\ \A i \in DOMAIN vars : vars[i].ok, lit |-> <<>>,
      op |-> IF hasOp THEN body[1] ELSE "", vars |-> vars]

\* The parts of a template; one that is not ok makes the whole template an error.
Parse(raw) ==
  LET close(i) == IndexOf(From(raw, i), "}")
      braces(i) == {k \in i .. Len(raw) : raw[k] \in {"{", "}"}}
      stop(i) == IF braces(i) = {} THEN Len(raw) + 1 ELSE Min(braces(i))
      lit(s, fine) == [ok |-> fine, lit |-> s, op |-> "", vars |-> <<>>]
      stray(i) == raw[i] = "}" \/ close(i) = 0
  IN Scan(Len(raw), [i \in DOMAIN raw |->
                       <<IF stop(i) > i THEN lit(SubSeq(raw, i, stop(i) - 1), TRUE)
                         ELSE IF stray(i) THEN lit(From(raw, i), FALSE)
                         ELSE utParseExpr(SubSeq(raw, i + 1, i + close(i) - 2))>>],
                    [i \in DOMAIN raw |-> IF stop(i) > i THEN stop(i)
                                          ELSE IF stray(i) THEN Len(raw) + 1 ELSE i + close(i)])

WellFormed(parts) == \A i \in DOMAIN parts : parts[i].ok

\* A value is a text, a list of texts or a map: [kind, items], the items of a
\* map being its pairs in the order of their keys.
ExpandVar(v, cfg, val) ==
  LET text(s) ==
        IF ~cfg.named THEN utEncode(s, cfg.allow)
        ELSE v.name \o (IF s = <<>> THEN cfg.ifEmpty ELSE <<"=">> \o utEncode(s, cfg.allow))
      pair(kv, eq) == utEncode(kv[1], cfg.allow) \o eq \o utEncode(kv[2], cfg.allow)
      cut(s) == IF v.prefix >= 0 /\ v.prefix < Len(s) THEN SubSeq(s, 1, v.prefix) ELSE s
      head == IF cfg.named THEN v.name \o <<"=">> ELSE <<>>
      each(F(_)) == [i \in DOMAIN val.items |-> F(val.items[i])]
  IN CASE val.kind = "string" -> text(cut(val.items[1]))
       [] val.kind = "list" /\ v.explode -> Join(each(text), cfg.sep)
       [] val.kind = "list" /\ ~v.explode ->
            head \o Join(each(LAMBDA s : utEncode(s, cfg.allow)), <<",">>)
       [] val.kind = "map" /\ v.explode -> Join(each(LAMBDA kv : pair(kv, <<"=">>)), cfg.sep)
       [] OTHER -> head \o Join(each(LAMBDA kv : pair(kv, <<",">>)), <<",">>)

\* Variables that are absent, and empty lists and maps, are skipped.
utExpandExpr(e, vars) ==
  LET cfg == utOperator(e.op)
      given(j) == e.vars[j].name \in DOMAIN vars /\ vars[e.vars[j].name].items # <<>>
      before(j) == IF \E k \in 1 .. (j - 1) : given(k) THEN cfg.sep ELSE cfg.first
  IN FlattenSeq([j \in DOMAIN e.vars |->
       IF given(j) THEN before(j) \o ExpandVar(e.vars[j], cfg, vars[e.vars[j].name]) ELSE <<>>])

IsLiteral(part) == part.vars = <<>>
Names(parts) == UNION {{parts[i].vars[j].name : j \in DOMAIN parts[i].vars} : i \in DOMAIN parts}

Expand(parts, vars) ==
  FlattenSeq([i \in DOMAIN parts |->
    IF IsLiteral(parts[i]) THEN utEncode(parts[i].lit, "U+R") ELSE utExpandExpr(parts[i], vars)])

\* Matching is defined for three operators and no modifiers.
Matchable(parts) ==
  \A i \in DOMAIN parts :
    /\ parts[i].op \in {"", "+", "/"}
    /\ \A j \in DOMAIN parts[i].vars : ~parts[i].vars[j].explode /\ parts[i].vars[j].prefix < 0

Regexp(parts) ==
  LET vars(e) == FlattenSeq([j \in DOMAIN e.vars |->
                   (CASE e.op = "/" -> <<Literal("/")>>
                      [] j > 1 /\ e.op # "/" -> <<Literal(",")>>
                      [] OTHER -> <<>>)
                   \o <<Capture(e.vars[j].name, e.op = "+")>>])
  IN FlattenSeq([i \in DOMAIN parts |->
       IF IsLiteral(parts[i]) THEN Literals(parts[i].lit) ELSE vars(parts[i])])

MatchTemplate(parts, uri) ==
  IF Matchable(parts) THEN Unescaped(Match(Regexp(parts), uri, TRUE)) ELSE NoMatch

-----------------------------------------------------------------------------
(* Python FastMCP's dialect.                                                *)

normalizeParamName(name) == [i \in DOMAIN name |-> IF name[i] = "-" THEN "_" ELSE name[i]]
validGroupName(name) ==
  /\ name # <<>> /\ name[1] \notin DOMAIN Numerals
  /\ \A i \in DOMAIN name : name[i] \in Unreserved \ {"-", "."}

\* The path portion, and the names of the first complete "{?...}" or, when
\* there is none, "{&...}" expression.
splitQueryExpr(tmpl) ==
  LET starts(op) == {i \in 1..(Len(tmpl) - 1) : tmpl[i] = "{" /\ tmpl[i + 1] = op}
      first(op) == CHOOSE i \in starts(op) : \A j \in starts(op) : i <= j
      usable(op) == starts(op) # {} /\ Contains(From(tmpl, first(op)), "}")
      cut(op) ==
        LET i   == first(op)
            end == i + IndexOf(From(tmpl, i), "}") - 1
        IN [path |-> SubSeq(tmpl, 1, i - 1) \o From(tmpl, end + 1),
            query |-> LET names == Split(SubSeq(tmpl, i + 2, end - 1), ",")
                      IN FlattenSeq([k \in DOMAIN names |-> IF names[k] = <<>> THEN <<>> ELSE <<names[k]>>])]
  IN CASE usable("?") -> cut("?")
       [] ~usable("?") /\ usable("&") -> cut("&")
       [] OTHER -> [path |-> tmpl, query |-> <<>>]

\* The literals and placeholders of a path.  A placeholder that is not closed
\* or not of the form "{name}" or "{name*}" is "bad", and keeps its text.
Placeholders(path) ==
  LET close(i) == IndexOf(From(path, i), "}")
      body(i) == SubSeq(path, i + 1, i + close(i) - 2)
      wild(i) == body(i) # <<>> /\ Last(body(i)) = "*"
      raw(i)  == IF wild(i) THEN Front(body(i)) ELSE body(i)
      item(kind, text, name, spans) == [kind |-> kind, text |-> text, name |-> name, wild |-> spans]
  IN Scan(Len(path), [i \in DOMAIN path |->
                        <<IF path[i] # "{" THEN item("lit", <<path[i]>>, <<>>, FALSE)
                          ELSE IF close(i) = 0 THEN item("bad", From(path, i), <<>>, FALSE)
                          ELSE IF raw(i) = <<>> \/ Contains(raw(i), "*")
                            THEN item("bad", SubSeq(path, i, i + close(i) - 1), <<>>, FALSE)
                          ELSE item("var", <<>>, normalizeParamName(raw(i)), wild(i))>>],
                     [i \in DOMAIN path |-> IF path[i] # "{" THEN i + 1
                                            ELSE IF close(i) = 0 THEN Len(path) + 1 ELSE i + close(i)])

Proper(items) ==
  /\ \A i \in DOMAIN items :
       /\ items[i].kind # "bad"
       /\ items[i].kind = "var" => validGroupName(items[i].name)
  /\ \A i, j \in DOMAIN items :
       items[i].kind = "var" /\ items[j].kind = "var" /\ items[i].name = items[j].name => i = j

BuildRegex(items) ==
  [i \in DOMAIN items |->
    IF items[i].kind = "var" THEN Capture(items[i].name, items[i].wild) ELSE Literal(items[i].text[1])]

\* The values of every key of a query in their order, blank ones included.
parseQueryKeepBlank(raw) ==
  LET pairs == Split(raw, "&")
      eq(i) == IndexOf(pairs[i], "=")
      key(i) == Unescape(IF eq(i) = 0 THEN pairs[i] ELSE SubSeq(pairs[i], 1, eq(i) - 1))
      val(i) == IF eq(i) = 0 THEN <<>> ELSE Unescape(From(pairs[i], eq(i) + 1))
      full == {i \in DOMAIN pairs : pairs[i] # <<>>}
  IN [k \in {key(i) : i \in full} |->
       FlattenSeq([i \in DOMAIN pairs |-> IF i \in full /\ key(i) = k THEN <<val(i)>> ELSE <<>>])]

MatchURITemplate(uri, tmpl) ==
  LET split == splitQueryExpr(tmpl)
      items == Placeholders(split.path)
      mark  == IndexOf(uri, "?")
      path  == IF mark = 0 THEN uri ELSE SubSeq(uri, 1, mark - 1)
      query == IF mark = 0 THEN <<>> ELSE parseQueryKeepBlank(From(uri, mark + 1))
      found == Unescaped(Match(BuildRegex(items), path, FALSE))
      asked(n) == {i \in DOMAIN split.query :
                     normalizeParamName(split.query[i]) = n /\ split.query[i] \in DOMAIN query}
      names == {normalizeParamName(split.query[i]) : i \in DOMAIN split.query}
      extra == {n \in names : n \notin DOMAIN found.vars /\ asked(n) # {}}
      first(n) == CHOOSE i \in asked(n) : \A j \in asked(n) : i <= j
  IN IF ~Proper(items) \/ ~found.matched THEN NoMatch
     ELSE [matched |-> TRUE,
           vars |-> [n \in DOMAIN found.vars \cup extra |->
                       IF n \in DOMAIN found.vars THEN found.vars[n] ELSE query[split.query[first(n)]][1]]]

ExpandURITemplate(tmpl, params) ==
  LET split == splitQueryExpr(tmpl)
      items == Placeholders(split.path)
      value(n) == IF n \in DOMAIN params THEN params[n] ELSE <<>>
      path  == FlattenSeq([i \in DOMAIN items |->
                 IF items[i].kind = "var" THEN fmEncode(value(items[i].name), items[i].wild)
                 ELSE items[i].text])
      key(i) == normalizeParamName(split.query[i])
      given == {i \in DOMAIN split.query : key(i) \in DOMAIN params}
      before(i) == IF \E k \in given : k < i THEN <<"&">> ELSE <<"?">>
  IN path \o FlattenSeq([i \in DOMAIN split.query |->
       IF i \in given THEN before(i) \o split.query[i] \o <<"=">> \o fmEncode(params[key(i)], FALSE)
       ELSE <<>>])
=============================================================================
