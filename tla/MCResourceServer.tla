--------------------------- MODULE MCResourceServer ---------------------------
(* Instance of ResourceServer: two callers that share a discovery cache over   *)
(* time, on one loop, on two loops or on threads; and one caller that makes    *)
(* every kind of request, with tokens and answers that differ from a genuine   *)
(* one in one point or two.                                                    *)
EXTENDS ResourceServer, TLC

CONSTANTS c1, c2

On(h1, h2) == (c1 :> h1) @@ (c2 :> h2)
Duo == {On("l1", "l1"), On("l1", "l2"), On("sync", "sync")}
Solo == {On("l1", "off"), On("sync", "off")}

Op == Url("https", "op")
Plain == Url("http", "op")
Shop == Url("https", "shop")

\* Policies of library callers.
Lax == [DiscoveryPolicy EXCEPT !.validate_endpoints = FALSE]
Policies == {DiscoveryPolicy, Lax, [DiscoveryPolicy EXCEPT !.allow_loopback_endpoints = TRUE],
             [DiscoveryPolicy EXCEPT !.require_key_set = FALSE],
             [DiscoveryPolicy EXCEPT !.authority = Url("https", "cdn")],
             [DiscoveryPolicy EXCEPT !.additional = <<Url("https", "cdn")>>],
             [DiscoveryPolicy EXCEPT !.require_https = FALSE, !.validate_issuer = FALSE]}

MCWants == [address : {Op, Shop, Plain, Url("http", "127.0.0.1"), Url("ftp", "op")}, policy : Policies]

MCStripeOf == [w \in MCWants |-> IF w.policy = Lax THEN 2 ELSE 1]

Doc == [status |-> 200, ctype |-> "application/json", body |-> "object", missing |-> {},
        issuer |-> Op, subject_types |-> {"public"}, response_types |-> {{"code"}, {"none"}},
        endpoints |-> <<Op, Op>>, aliases |-> <<>>, cache_control |-> NoHeader]

\* A document that moves an endpoint, one that may not be stored, an outage.
Moved == [Doc EXCEPT !.endpoints = <<Op, Url("https", "cdn")>>,
                     !.cache_control = [store |-> TRUE, max_age |-> 9]]
Unstored == [Doc EXCEPT !.cache_control = [store |-> FALSE, max_age |-> -1]]
Down == [Doc EXCEPT !.status = 503]

Deviant ==
    {[Doc EXCEPT !.ctype = "text/html"], [Doc EXCEPT !.body = "text"], [Doc EXCEPT !.body = "number"],
     [Doc EXCEPT !.body = "list"], [Doc EXCEPT !.missing = {"issuer"}],
     [Doc EXCEPT !.issuer = Plain], [Doc EXCEPT !.issuer = Url("http", "127.0.0.1")],
     [Doc EXCEPT !.issuer = [Op EXCEPT !.extra = TRUE]], [Doc EXCEPT !.issuer = Url("https", "other")],
     [Doc EXCEPT !.subject_types = {"odd"}], [Doc EXCEPT !.response_types = {{"code", "odd"}}],
     [Doc EXCEPT !.endpoints[1] = NoUrl], [Doc EXCEPT !.endpoints[1] = Plain],
     [Doc EXCEPT !.endpoints[1] = Url("ftp", "op")],
     [Doc EXCEPT !.aliases = <<Url("https", "mtls")>>], [Doc EXCEPT !.aliases = <<Url("https", "127.1")>>],
     [Doc EXCEPT !.aliases = <<Url("https", "10.0.0.1")>>], [Doc EXCEPT !.aliases = <<Url("http", "mtls")>>]}

MCAnswers == (Op :> {Doc, Moved, Unstored, Down}) @@ (Shop :> {Doc, Moved, Unstored}) @@ (Plain :> {Doc} \cup Deviant)
             @@ (Url("http", "127.0.0.1") :> {Doc} \cup Deviant) @@ (Url("ftp", "op") :> {Doc})

-----------------------------------------------------------------------------
Key(kid, kty, mat) == [kid |-> kid, kty |-> kty, alg |-> None, use |-> None, mat |-> mat,
                       form |-> "dict", complete |-> TRUE, key_ops |-> None]
K1 == Key("k1", "RSA", "m1")
K2 == Key("k2", "EC", "m2")
Raw(key) == [dict |-> TRUE, mistyped |-> FALSE, key |-> key]
Jwks(keys) == [status |-> 200, length |-> [given |-> FALSE, value |-> 0], size |-> 1,
               ctype |-> "application/json", body |-> "object", has_keys |-> TRUE, keys |-> keys]
Both == Jwks(<<Raw(K1), Raw(K2)>>)

Rotated == Jwks(<<Raw([K1 EXCEPT !.mat = "m9"])>>)

AllJwks ==
    {Both, Rotated, [Both EXCEPT !.status = 0], [Both EXCEPT !.status = 500],
     [Both EXCEPT !.length = [given |-> TRUE, value |-> 9]], [Both EXCEPT !.body = "text"],
     [Both EXCEPT !.keys[1].mistyped = TRUE], [Both EXCEPT !.keys[1].key.complete = FALSE],
     Jwks(<<Raw([K1 EXCEPT !.use = "enc"]), Raw([K1 EXCEPT !.kid = "k2", !.alg = "RS256"])>>),
     Jwks(<<>>), Jwks(<<Raw([K1 EXCEPT !.kty = "OKP", !.alg = "odd"])>>),
     Jwks(<<Raw(K1), Raw([K1 EXCEPT !.mat = "m2"])>>)}

-----------------------------------------------------------------------------
Tok == [wf |-> TRUE, kid |-> "k1", alg |-> "RS256", mat |-> "m1", iss |-> "op", aud |-> {"api"},
        exp |-> 20, sub |-> "alice", azp |-> None, nonce |-> None, auth_time |-> Never,
        at_hash |-> None, c_hash |-> None, jti |-> FALSE, events |-> None, sid |-> None,
        scope |-> [kind |-> "string", items |-> {"read"}], scp |-> Absent]

Scopes(tok) == {[tok EXCEPT !.scope = [kind |-> k, items |-> {}], !.scp = [kind |-> "list", items |-> {"read"}]] :
                  k \in {"absent", "null", "string", "list", "other"}}

Tokens ==
    {Tok, [Tok EXCEPT !.wf = FALSE], [Tok EXCEPT !.kid = None], [Tok EXCEPT !.kid = "k2"],
     [Tok EXCEPT !.kid = "k2", !.alg = "ES256", !.mat = "m2"], [Tok EXCEPT !.mat = "m9"],
     [Tok EXCEPT !.alg = "HS256"], [Tok EXCEPT !.alg = "none"], [Tok EXCEPT !.alg = "<number>"],
     [Tok EXCEPT !.iss = "other"], [Tok EXCEPT !.aud = {}], [Tok EXCEPT !.aud = {"api", "b"}],
     [Tok EXCEPT !.aud = {"b"}], [Tok EXCEPT !.exp = 9], [Tok EXCEPT !.exp = Never],
     [Tok EXCEPT !.nonce = "n"], [Tok EXCEPT !.sub = "bob"], [Tok EXCEPT !.scope = Absent]}
    \cup Scopes(Tok)
    \cup {[Tok EXCEPT !.scope.items = {"x"}, !.scp = [kind |-> "list", items |-> {"read"}]]}

IdTok == [Tok EXCEPT !.nonce = "n", !.azp = "api", !.auth_time = 9, !.at_hash = "at", !.c_hash = "code",
                     !.scope = Absent]
LogoutTok == [Tok EXCEPT !.jti = TRUE, !.events = "backchannel-logout", !.sid = "s", !.scope = Absent]
IdTokens ==
    {IdTok, [IdTok EXCEPT !.scope = Tok.scope], [IdTok EXCEPT !.nonce = "x"], [IdTok EXCEPT !.nonce = None], [IdTok EXCEPT !.sub = None],
     [IdTok EXCEPT !.aud = {"api", "b"}, !.azp = None], [IdTok EXCEPT !.azp = "b"],
     [IdTok EXCEPT !.at_hash = "x"], [IdTok EXCEPT !.c_hash = None], [IdTok EXCEPT !.auth_time = 1],
     [IdTok EXCEPT !.at_hash = None, !.c_hash = None, !.jti = TRUE, !.events = "backchannel-logout"],
     LogoutTok, [LogoutTok EXCEPT !.events = "other"], [LogoutTok EXCEPT !.sub = None],
     [LogoutTok EXCEPT !.sub = None, !.sid = None], [LogoutTok EXCEPT !.jti = FALSE]}

-----------------------------------------------------------------------------
Cfg == [perform_disco |-> TRUE, key |-> <<>>, algorithms |-> <<>>, audience |-> "api",
        issuer |-> NoIssuer, options |-> None, leeway |-> 0, subject |-> None,
        allowed |-> NoIssuer, validator |-> "described"]
Manual == [Cfg EXCEPT !.perform_disco = FALSE, !.key = <<K1>>, !.algorithms = <<"RS256">>]
Cfgs == {Cfg, [Cfg EXCEPT !.audience = None], [Cfg EXCEPT !.options = "verify_aud=False"],
         [Cfg EXCEPT !.options = "verify_exp=False"], [Cfg EXCEPT !.leeway = 5], [Cfg EXCEPT !.leeway = -1],
         [Cfg EXCEPT !.allowed = {"op"}], [Cfg EXCEPT !.allowed = {"x"}], [Cfg EXCEPT !.issuer = {}],
         [Cfg EXCEPT !.algorithms = <<"ES256">>], [Cfg EXCEPT !.subject = "bob"],
         [Cfg EXCEPT !.validator = "coroutine"], [Cfg EXCEPT !.validator = "raises"],
         Manual, [Manual EXCEPT !.key = <<>>], [Manual EXCEPT !.issuer = {"op", "x"}],
         [Manual EXCEPT !.key[1].form = "other"]}

Req == [kind |-> "http", method |-> "GET", path |-> <<"api">>, header |-> "bearer", query |-> FALSE,
        tok |-> Tok, needs |-> [kind |-> "scope", value |-> {}], address |-> Op, policy |-> <<>>, cfg |-> Cfg,
        want |-> [nonce |-> "n", max_age |-> 5, access_token |-> "at", code |-> "code"]]
Ws == [Req EXCEPT !.kind = "ws"]
Lib == [Req EXCEPT !.kind = "token"]
IdReq == [Req EXCEPT !.kind = "id_token"]

Shared ==
    {[Lib EXCEPT !.address = Shop], [Lib EXCEPT !.policy = <<Lax>>, !.address = Shop]}

All ==
    {[Req EXCEPT !.tok = t] : t \in Tokens} \cup {[Ws EXCEPT !.tok = t] : t \in Tokens}
    \cup {[Req EXCEPT !.method = "OPTIONS"], [Req EXCEPT !.path = <<"docs">>],
          [Req EXCEPT !.path = <<"docs", "x">>], [Req EXCEPT !.path = <<"static", "x">>],
          [Req EXCEPT !.header = "malformed"], [Req EXCEPT !.header = "absent"],
          [Req EXCEPT !.needs = [kind |-> "claim", value |-> {"bob"}]],
          [Req EXCEPT !.needs = [kind |-> "claim", value |-> {}], !.path = <<"docs">>],
          [Req EXCEPT !.needs.kind = "user"], [Req EXCEPT !.needs.kind = "user", !.path = <<"docs">>],
          [Ws EXCEPT !.header = "malformed", !.query = TRUE], [Ws EXCEPT !.header = "absent", !.query = TRUE],
          [Ws EXCEPT !.header = "absent"]}
    \cup {[Lib EXCEPT !.cfg = g, !.tok = t] : g \in Cfgs, t \in {Tok, [Tok EXCEPT !.aud = {}],
             [Tok EXCEPT !.exp = 9], [Tok EXCEPT !.alg = "HS256"], [Tok EXCEPT !.iss = "x"]}}
    \cup {[IdReq EXCEPT !.tok = t, !.want = w] : t \in IdTokens,
             w \in {IdReq.want, [nonce |-> None, max_age |-> Never, access_token |-> None, code |-> None],
                    [nonce |-> "n", max_age |-> Never, access_token |-> None, code |-> None]}}
    \cup {[IdReq EXCEPT !.kind = "logout_token", !.tok = t] : t \in IdTokens}
    \cup {[Lib EXCEPT !.policy = <<p>>, !.address = a] : p \in Policies,
             a \in {Plain, Url("http", "127.0.0.1"), Url("ftp", "op"), NoUrl}}

\* What a call finds: the same keys throughout, keys whose material or whose kid has
\* changed and what a refresh brings then, and either refresh forbidden.
Found(first, miss, retry) ==
    [first |-> first, miss |-> miss, retry |-> retry, attempt |-> [miss |-> TRUE, retry |-> TRUE]]
Old == Jwks(<<Raw([K1 EXCEPT !.kid = "k0"])>>)

MCJwksAnswers ==
    [h \in Duo |-> {Found(Both, Both, Both)}]
    @@ [h \in Solo |-> {Found(a, Both, a) : a \in AllJwks} \cup {Found(Rotated, Both, a) : a \in AllJwks}
                       \cup {Found(Old, a, Rotated) : a \in AllJwks}
                       \cup {Found(Old, Rotated, Both), Found(Old, Rotated, [Both EXCEPT !.status = 0]),
                             [Found(Old, Both, Both) EXCEPT !.attempt.miss = FALSE],
                             [Found(Rotated, Both, Both) EXCEPT !.attempt.retry = FALSE]}]
MCRequests == [h \in Duo |-> Shared] @@ [h \in Solo |-> All]
MCWork == [h \in Duo |-> [calls |-> (c1 :> IF h[c1] = h[c2] THEN 1 ELSE 2) @@ (c2 :> 1), time |-> 3]]
          @@ [h \in Solo |-> [calls |-> (c1 :> 1) @@ (c2 :> 0), time |-> 0]]

MCServer == [settings |-> [discovery_url |-> TRUE, client_id |-> "api", audience |-> None],
             marker |-> TRUE, marker_claims |-> {"scope", "scp"},
             excluded |-> {[subtree |-> FALSE, segs |-> <<"docs">>], [subtree |-> TRUE, segs |-> <<"static">>],
                           [subtree |-> TRUE, segs |-> <<>>]},
             validator |-> [require |-> "any",
                members |-> <<[kind |-> "require_claim_value", args |-> {"alice", None}],
                              [kind |-> "require_scopes", args |-> {"write"}]>>]]

MCRaw == [kind |-> "number", value |-> 1]
=============================================================================
