------------------------------ MODULE HttpFront -----------------------------
(***************************************************************************)
(* The way an HTTP request takes to a handler: the route of auth.Protect,   *)
(* the bearer middleware and the two verifiers of the package auth          *)
(* (metadata.go, middleware.go, token.go, jwt.go), and the POST side of the *)
(* Streamable HTTP transport (http.go).                                     *)
(*                                                                          *)
(* A text is a sequence of words.  A signature is the algorithm and the key *)
(* it was made with; what is signed is the token it belongs to.  Scopes and *)
(* audiences, in which the code only looks a text up, are sets of texts.    *)
(***************************************************************************)
EXTENDS Integers, Sequences, TLC

NoTime == [set |-> FALSE, t |-> 0]
At(t)  == [set |-> TRUE, t |-> t]
NoKey  == "no key"
Unreadable == "unreadable"      \* key material that does not decode

Refused(error) == [ok |-> FALSE, error |-> error]
Admitted(token) == [ok |-> TRUE, token |-> token]

-----------------------------------------------------------------------------
(* Access tokens.                                                           *)

HasScope(token, scope) == scope \in token.scopes
\* (Mutant) One of the scopes is enough.
AnyScope(token, scopes) == scopes = {} \/ \E scope \in scopes : HasScope(token, scope)
RequireScopes(token, scopes) == \A scope \in scopes : HasScope(token, scope)

Expired(token, now) ==
  \/ token.exp.set /\ now >= token.exp.t
  \/ token.nbf.set /\ now < token.nbf.t

\* The table of a StaticTokenVerifier; a token without a name takes its key's.
Set(table, raw, token) ==
  (raw :> IF token.raw = <<>> THEN [token EXCEPT !.raw = raw] ELSE token) @@ table

VerifyStatic(table, raw, now) ==
  IF raw = <<>> THEN Refused("no token")
  ELSE IF raw \notin DOMAIN table THEN Refused("invalid")
  ELSE IF Expired(table[raw], now) THEN Refused("expired")
  ELSE Admitted(table[raw])

-----------------------------------------------------------------------------
(* JSON Web Tokens: [segments, header, payload, sig], a part that does not  *)
(* decode being one without its field.                                      *)

\* The key of a set for a key id; without an id, the only key of its type.
keyFor(jwks, kty, kid) ==
  LET fits == {i \in DOMAIN jwks : jwks[i].kty = kty /\ (kid = <<>> \/ jwks[i].kid = kid)}
      first == CHOOSE i \in fits : \A j \in fits : i <= j
      ambiguous == kid = <<>> /\ fits # {first}
  IN IF fits = {} \/ ambiguous \/ jwks[first].key = Unreadable THEN NoKey ELSE jwks[first].key

\* The key an algorithm is checked with: the configured one before the set's.
VerificationKey(v, header) ==
  CASE header.alg = "HS256" -> IF v.hmac # NoKey THEN v.hmac ELSE keyFor(v.jwks, "oct", header.kid)
    [] header.alg = "RS256" -> IF v.rsa # NoKey THEN v.rsa ELSE keyFor(v.jwks, "RSA", header.kid)
    [] OTHER -> NoKey

verifySignature(v, jwt) ==
  LET key == VerificationKey(v, jwt.header)
  IN key # NoKey /\ jwt.sig = [alg |-> jwt.header.alg, key |-> key]

\* A claim is absent, [kind |-> "text", words], [kind |-> "number", n],
\* [kind |-> "list", items] or something else.
claim(claims, name) == IF name \in DOMAIN claims THEN claims[name] ELSE [kind |-> "absent"]
stringClaim(claims, name) ==
  LET c == claim(claims, name) IN IF c.kind = "text" THEN c.words ELSE <<>>
timeClaim(claims, name) ==
  LET c == claim(claims, name) IN IF c.kind = "number" THEN At(c.n) ELSE NoTime
listClaim(c) == {c.items[i].words : i \in {j \in DOMAIN c.items : c.items[j].kind = "text"}}
audienceClaim(c) ==
  CASE c.kind = "text" /\ c.words # <<>> -> {c.words}
    [] c.kind = "list" -> listClaim(c)
    [] OTHER -> {}
scopeValues(c) ==
  CASE c.kind = "text" -> {<<c.words[i]>> : i \in DOMAIN c.words}
    [] c.kind = "list" -> listClaim(c)
    [] OTHER -> {}

buildToken(v, raw, claims) ==
  [raw |-> raw, sub |-> stringClaim(claims, "sub"), iss |-> stringClaim(claims, "iss"),
   client |-> IF stringClaim(claims, "client_id") # <<>> THEN stringClaim(claims, "client_id")
              ELSE stringClaim(claims, "azp"),
   aud |-> audienceClaim(claim(claims, "aud")),
   scopes |-> scopeValues(claim(claims, v.scopeClaim)),
   nbf |-> timeClaim(claims, "nbf"), exp |-> timeClaim(claims, "exp")]

validateClaims(v, token, now) ==
  IF token.exp.set /\ now - v.leeway >= token.exp.t THEN Refused("expired")
  ELSE IF token.nbf.set /\ now + v.leeway < token.nbf.t THEN Refused("expired")
  ELSE IF v.issuer # <<>> /\ token.iss # v.issuer THEN Refused("invalid")
  ELSE IF v.audience # <<>> /\ v.audience \notin token.aud THEN Refused("invalid")
  ELSE IF ~RequireScopes(token, v.scopes) THEN Refused("scope")
  ELSE Admitted(token)

VerifyJWT(v, raw, jwt, now) ==
  IF raw = <<>> THEN Refused("no token")
  ELSE IF \/ jwt.segments # 3
          \/ "alg" \notin DOMAIN jwt.header
          \/ ~verifySignature(v, jwt)
          \/ "claims" \notin DOMAIN jwt.payload THEN Refused("invalid")
  ELSE validateClaims(v, buildToken(v, raw, jwt.payload.claims), now)

-----------------------------------------------------------------------------
(* The bearer middleware.                                                   *)

\* The Authorization header is absent, or [scheme, token].
bearerToken(header) ==
  IF header.scheme = "bearer" /\ header.token # <<>> THEN header.token ELSE <<>>

statusForError(error) == IF error = "scope" THEN 403 ELSE 401
errorCode(error) ==
  CASE error = "scope" -> "insufficient_scope"
    [] error = "no token" -> "invalid_request"
    [] OTHER -> "invalid_token"

Reply(status, body) == [status |-> status, body |-> body, challenge |-> <<>>]
writeChallenge(cfg, status, code) ==
  [status |-> status, body |-> <<code>>, challenge |-> <<cfg.realm, code, cfg.meta>>]

\* answer is what the verifier says of the header's token, served what the wrapped
\* handler replies.
BearerMiddleware(cfg, header, answer, served) ==
  IF bearerToken(header) = <<>> THEN writeChallenge(cfg, 401, "invalid_request")
  ELSE IF ~answer.ok THEN writeChallenge(cfg, statusForError(answer.error), errorCode(answer.error))
  ELSE IF ~RequireScopes(answer.token, cfg.scopes) THEN writeChallenge(cfg, 403, "insufficient_scope")
  ELSE served

-----------------------------------------------------------------------------
(* The handlers behind it.                                                  *)

\* The metadata document of a protected resource, and its address.
WellKnownPath == <<"well-known">>
Metadata(settings) ==
  [resource |-> settings.resource, jwks |-> settings.jwks,
   servers |-> IF settings.servers = <<>> /\ settings.issuer # <<>> THEN <<settings.issuer>>
               ELSE settings.servers]
MetadataURL(settings) == IF settings.resource = <<>> THEN <<>> ELSE settings.resource \o WellKnownPath
MetadataHandler(settings, method) ==
  CASE method = "GET" -> Reply(200, <<Metadata(settings)>>)
    [] method = "HEAD" -> Reply(200, <<>>)
    [] OTHER -> Reply(405, <<>>)

\* A message is [id, method]; NoId makes it a notification, which is handled
\* and not answered.  methods is what the server can route.
NoId == 0
Dispatch(methods, m) ==
  IF m.id = NoId THEN <<>>
  ELSE <<[id |-> m.id, error |-> IF m.method \in methods THEN "none" ELSE "method not found"]>>

ParseError == Reply(200, <<[id |-> NoId, error |-> "parse error"]>>)
\* responses after n turns of the loop over the messages
Collected(methods, messages) ==
  LET responses[n \in 0 .. Len(messages)] ==
        IF n = 0 THEN <<>> ELSE responses[n - 1] \o Dispatch(methods, messages[n])
  IN responses
handleHTTPBatch(methods, body) ==
  LET responses == Collected(methods, body.messages)[Len(body.messages)]
  IN IF responses = <<>> THEN Reply(202, <<>>) ELSE Reply(200, responses)
handleHTTPPost(methods, body) ==
  CASE body.kind = "malformed" -> ParseError
    [] body.kind = "batch" -> handleHTTPBatch(methods, body)
    [] OTHER -> LET response == Dispatch(methods, body.messages[1])
                IN IF response = <<>> THEN Reply(202, <<>>) ELSE Reply(200, response)

\* A GET opens a stream, which Subscriptions models.
HTTPHandler(methods, request) ==
  CASE request.method = "POST" -> handleHTTPPost(methods, request.body)
    [] request.method = "GET" -> Reply(200, <<>>)
    [] OTHER -> Reply(405, <<>>)

\* An option of the application's takes precedence over the derived address.
Protect(settings, opts, methods, request, answer) ==
  IF request.path = WellKnownPath THEN MetadataHandler(settings, request.method)
  ELSE BearerMiddleware([opts EXCEPT !.meta = IF @ # <<>> THEN @ ELSE MetadataURL(settings)],
                        request.header, answer, HTTPHandler(methods, request))
=============================================================================
