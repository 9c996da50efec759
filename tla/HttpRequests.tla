---------------------------- MODULE HttpRequests ----------------------------
(***************************************************************************)
(* A request to a server behind auth.Protect, and what its sender may       *)
(* expect of the reply: HttpFront at work on one task, which is             *)
(* [settings, opts, methods, verifier, now, request].  A verifier is a      *)
(* static table, or one for JWTs with what the presented text decodes to.   *)
(***************************************************************************)
EXTENDS HttpFront, Tasks

CONSTANT HttpTasks

raw == bearerToken(t.request.header)

HttpInit == answers = <<>> /\ \E given \in HttpTasks : task = [kind |-> "http", of |-> given]

\* BearerMiddleware asks its verifier, a static one or one for JWTs.
Verdict ==
  IF t.verifier.kind = "static" THEN VerifyStatic(t.verifier.table, raw, t.now)
  ELSE VerifyJWT(t.verifier, raw, t.verifier.decodes[raw], t.now)

ServeHTTP == NextCall("http", 0, Protect(t.settings, t.opts, t.methods, t.request, Verdict))

HttpSpec == HttpInit /\ [][ServeHTTP]_taskVars

-----------------------------------------------------------------------------
(* Well-formed tasks.                                                       *)

Text == Seq(STRING)
Time == [set : BOOLEAN, t : Int]
StaticToken == [raw : Text, scopes : SUBSET Text, exp : Time, nbf : Time]
TextClaim == [kind : {"text"}, words : Text]
OtherClaim == [kind : {"other"}]
ClaimValue == TextClaim \cup OtherClaim \cup [kind : {"number"}, n : Int]
              \cup [kind : {"list"}, items : Seq(TextClaim \cup OtherClaim)]
Jwk == [kty : {"oct", "RSA"}, kid : Text, key : STRING]
Message == [id : Nat, method : STRING]

WellFormedJwt(jwt) ==
  /\ "alg" \in DOMAIN jwt.header => jwt.header.kid \in Text
  /\ "claims" \in DOMAIN jwt.payload =>
       \A name \in DOMAIN jwt.payload.claims : jwt.payload.claims[name] \in ClaimValue
  /\ jwt.sig \in [alg : STRING, key : STRING \ {NoKey, Unreadable}]

WellFormedRequest(given) ==
  /\ given.now \in Int
  /\ given.opts \in [realm : Text, meta : Text, scopes : SUBSET Text]
  /\ given.request.header.token \in Text
  /\ given.request.body.messages \in Seq(Message)
  /\ given.request.body.kind = "one" => Len(given.request.body.messages) = 1
  /\ given.request.body.kind \in {"malformed", "batch", "one"}
  /\ \/ /\ given.verifier.kind = "static"
        /\ \A key \in DOMAIN given.verifier.table : given.verifier.table[key] \in StaticToken
     \/ /\ given.verifier.kind = "jwt"
        /\ given.verifier.leeway \in Int
        /\ given.verifier.jwks \in Seq(Jwk)
        /\ bearerToken(given.request.header) # <<>> =>
             WellFormedJwt(given.verifier.decodes[bearerToken(given.request.header)])

ASSUME HttpTasksAssumption == \A given \in HttpTasks : WellFormedRequest(given)

-----------------------------------------------------------------------------
(* What a request may expect.                                               *)

Header == t.request.header
Presented == Header.scheme = "bearer" /\ Header.token # <<>>

\* The token as it was issued, and whether it comes from a key that counts.
Jwt == t.verifier.decodes[Header.token]
KeysFor(alg, kid) ==
  LET own == IF alg = "HS256" THEN t.verifier.hmac ELSE t.verifier.rsa
      kty == IF alg = "HS256" THEN "oct" ELSE "RSA"
      set == {i \in DOMAIN t.verifier.jwks : t.verifier.jwks[i].kty = kty}
      fits == {i \in set : kid = <<>> \/ t.verifier.jwks[i].kid = kid}
  IN IF own # NoKey THEN {own}
     ELSE IF kid = <<>> /\ \E i, j \in set : i # j THEN {}
     ELSE {t.verifier.jwks[i].key : i \in {j \in fits : \A k \in fits : j <= k}} \ {Unreadable}
Genuine ==
  IF t.verifier.kind = "static" THEN Header.token \in DOMAIN t.verifier.table
  ELSE /\ Jwt.segments = 3 /\ "alg" \in DOMAIN Jwt.header /\ "claims" \in DOMAIN Jwt.payload
       /\ Jwt.header.alg \in {"HS256", "RS256"} /\ Jwt.sig.alg = Jwt.header.alg
       /\ Jwt.sig.key \in KeysFor(Jwt.header.alg, Jwt.header.kid)

Claim(name) == Jwt.payload.claims[name]
HasClaim(name, kind) == name \in DOMAIN Jwt.payload.claims /\ Claim(name).kind = kind
Says(name, words) == \* the claim is this text, or a list with it
  \/ HasClaim(name, "text") /\ Claim(name).words = words
  \/ HasClaim(name, "list") /\ \E i \in DOMAIN Claim(name).items :
                                  Claim(name).items[i] = [kind |-> "text", words |-> words]
Current ==
  IF t.verifier.kind = "static"
    THEN LET token == t.verifier.table[Header.token]
         IN (token.exp.set => t.now < token.exp.t) /\ (token.nbf.set => t.now >= token.nbf.t)
    ELSE /\ HasClaim("exp", "number") => t.now < Claim("exp").n + t.verifier.leeway
         /\ HasClaim("nbf", "number") => t.now >= Claim("nbf").n - t.verifier.leeway
Intended ==
  t.verifier.kind = "static" \/
    /\ t.verifier.issuer # <<>> => HasClaim("iss", "text") /\ Claim("iss").words = t.verifier.issuer
    /\ t.verifier.audience # <<>> => Says("aud", t.verifier.audience)
Grants(scope) ==
  IF t.verifier.kind = "static" THEN scope \in t.verifier.table[Header.token].scopes
  ELSE LET name == t.verifier.scopeClaim IN
       IF HasClaim(name, "text") THEN \E i \in DOMAIN Claim(name).words : <<Claim(name).words[i]>> = scope
       ELSE Says(name, scope)
Scoped ==
  /\ \A scope \in t.opts.scopes : Grants(scope)
  /\ t.verifier.kind = "jwt" => \A scope \in t.verifier.scopes : Grants(scope)

\* The first n messages owe these answers: one for each with an id, in their order,
\* of answers the k-th that of message from[k].
Owed(body, messages, n) ==
  LET asked == {i \in 1 .. n : messages[i].id # NoId} IN
  \E from \in [DOMAIN body -> 1 .. n] :
    /\ \A j, k \in DOMAIN body : j < k => from[j] < from[k]
    /\ {from[k] : k \in DOMAIN body} = asked
    /\ \A k \in DOMAIN body : body[k].id = messages[from[k]].id

RefusedWith(reply, status, code) ==
  reply.status = status /\ reply.body = <<code>> /\ reply.challenge[2] = code

Handled(reply) ==
  LET messages == t.request.body.messages IN
  /\ reply.challenge = <<>>
  /\ t.request.method = "POST" /\ t.request.body.kind # "malformed" =>
       /\ Owed(reply.body, messages, Len(messages))
       /\ reply.status = IF \E i \in DOMAIN messages : messages[i].id # NoId THEN 200 ELSE 202

\* middleware.go: the handler sees a request exactly when its token is genuine,
\* current, meant for this server and has every scope asked for; otherwise the
\* status and the challenge name the first of these that fails, and the
\* metadata document is open to all.  http.go: who is let in gets one answer
\* for every request of a batch, in their order, and none for a notification.
AnsweredOrRefused ==
  After("http", 1) =>
    LET reply == answers[1] IN
       IF t.request.path = WellKnownPath THEN reply.challenge = <<>> /\ reply.status \in {200, 405}
       ELSE IF ~Presented THEN RefusedWith(reply, 401, "invalid_request")
       ELSE IF ~Genuine THEN RefusedWith(reply, 401, "invalid_token")
       ELSE IF ~Current \/ ~Intended THEN RefusedWith(reply, 401, "invalid_token")
       ELSE IF ~Scoped THEN RefusedWith(reply, 403, "insufficient_scope")
       ELSE Handled(reply)
=============================================================================
