--------------------------- MODULE ResourceServer ---------------------------
(***************************************************************************)
(* The users of validate_token in one process: the HTTP middleware         *)
(* (middleware.py), the WebSocket authenticator (ws.py) and the route      *)
(* dependencies (dependencies.py) of the FastAPI package, and the library  *)
(* calls validate_token, validate_id_token and validate_logout_token of    *)
(* both sides.  They share the discovery cache of PyDisco.  PyJwks models  *)
(* the cache of the keys and the cooldown of its refreshes: here a call    *)
(* finds some keys, and some answer of the cooldown, whenever it asks.     *)
(***************************************************************************)
EXTENDS PyDisco

CONSTANTS Requests,     \* bound: placement of the callers -> what they may do
          Server,       \* OIDCSettings and options of the middleware
          JwksAnswers,  \* bound: placement -> what a call may find of the keys: the answers
                        \* first (cached or fetched), miss and retry (the two refreshes),
                        \* and attempt (the cooldown)
          MaxKeys, MaxSize   \* get_max_jwks_keys(), get_max_jwks_size()

VARIABLE conn    \* caller -> its request and what became of it

rsVars == <<now, home, cache, task, stats, seen, log, conn>>

NoConn == [pc |-> "idle", req |-> <<>>, env |-> <<>>, err |-> "none", user |-> FALSE, status |-> 0]

-----------------------------------------------------------------------------
\* Settings.

\* The audience defaults to the client_id; from_env reads the same fields.
OIDCSettings(raw) ==
    [err |-> Check(raw.discovery_url /\ raw.client_id # "", "ValueError"),
     audience |-> IF raw.audience = None THEN raw.client_id ELSE raw.audience]

\* TokenValidationMiddleware.__init__ and build_ws_authenticator have the same guards.
Constructed(server) ==
    FirstErr(<<OIDCSettings(server.settings).err,
               Check(OIDCSettings(server.settings).audience # "", "ValueError"),
               Check(server.marker => server.marker_claims # {}, "ValueError")>>)

ASSUME ServerAssumption == Constructed(Server) = "ok"

-----------------------------------------------------------------------------
\* Claims: a scope claim is [kind, items]; validators are described, not coded.

Absent == [kind |-> "absent", items |-> {}]
Truthy(claim) == claim.kind \notin {"absent", "null"} /\ claim.items # {}
Read(claim) == IF claim.kind \in {"string", "list"} THEN claim.items ELSE {}

\* core/claims_validation.py: an absent or empty scope gives way to scp.
_granted_scopes(tok) ==
    IF tok.scope.kind \in {"absent", "null"} \/ (tok.scope.kind = "string" /\ tok.scope.items = {})
    THEN Read(tok.scp) ELSE Read(tok.scope)

\* What a validator does with a token: "returns", "rejects" or "raises".
Member(v, tok) ==
    CASE v.kind = "require_scopes" -> IF v.args \subseteq _granted_scopes(tok) THEN "returns" ELSE "rejects"
      [] v.kind = "require_claims" -> IF tok.sub # None THEN "returns" ELSE "rejects"
      [] v.kind = "require_claim_value" -> IF tok.sub \in v.args THEN "returns" ELSE "rejects"
      [] OTHER -> v.kind

\* "all": the first one that does not return; "any": the first one that returns
\* or raises something else than ClaimsValidationError.
combine_claims_validators(require, members, tok) ==
    LET does == [i \in DOMAIN members |-> Member(members[i], tok)]
        Stops(d) == IF require = "all" THEN d # "returns" ELSE d # "rejects"
        stop == {i \in DOMAIN does : Stops(does[i])}
    IN  IF stop # {} THEN does[CHOOSE i \in stop : \A j \in stop : i <= j]
        ELSE IF require = "all" THEN "returns" ELSE "rejects"

Validator(v, tok) == IF v.members = <<>> THEN "returns" ELSE combine_claims_validators(v.require, v.members, tok)

\* identity.py: to_principal makes one claim of every value, of a list one each.
Values(claim) == IF claim.kind = "list" THEN {{i} : i \in claim.items} ELSE {claim.items}
to_principal(tok) ==
    {<<"sub", {tok.sub}>> : x \in {tok.sub} \ {None}}
    \cup {<<"scope", v>> : v \in IF tok.scope.kind = "absent" THEN {} ELSE Values(tok.scope)}
has_claim(principal, type, value) ==
    \E c \in principal : c[1] = type /\ (value = {} \/ c[2] = value)

-----------------------------------------------------------------------------
\* middleware.py and ws.py

_is_excluded(path) ==
    \E e \in Server.excluded :
      IF e.subtree
      THEN e.segs # <<>> /\ Len(e.segs) <= Len(path) /\ SubSeq(path, 1, Len(e.segs)) = e.segs
      ELSE path = e.segs

_extract_bearer_token(req) == req.header = "bearer"

\* The header wins; one that is no bearer token is not replaced by the query.
_extract_ws_token(req) == req.header = "bearer" \/ (req.header = "absent" /\ req.query)

\* Mutant: the prefixes match no message any more.
_is_upstream_fetch_failure_never(err) == FALSE

_is_upstream_fetch_failure(err) == err = "FetchNetwork"

\* Mutant: an ID token passes when it carries a marker.
evaluate_token_type_lax(tok) ==
    \/ Server.marker /\ tok.scope.kind # "absent"
    \/ tok.nonce = None /\ tok.at_hash = None /\ tok.c_hash = None

evaluate_token_type(tok) ==
    /\ tok.nonce = None /\ tok.at_hash = None /\ tok.c_hash = None
    /\ Server.marker => \E m \in Server.marker_claims :
                          IF m = "scope" THEN tok.scope.kind # "absent" ELSE tok.scp.kind # "absent"

ServerConfig(tok) ==
    [perform_disco |-> TRUE, key |-> <<>>, algorithms |-> <<>>,
     audience |-> OIDCSettings(Server.settings).audience, issuer |-> NoIssuer, options |-> None,
     leeway |-> 0, subject |-> None, allowed |-> NoIssuer,
     validator |-> Validator(Server.validator, tok)]

\* validate_token as the middleware and the socket call it.
ServerErr(tok, env) == validate_token_aio(tok, ServerConfig(tok), env)

\* What becomes of a token for which validate_token ended with err, in the order of
\* the except clauses; 0 stands for an accepted one.  The code raises no
\* NetworkException, and to_principal fails for no claims of a decoded token, so
\* what it would lead to (500, 1011) has no case.
_authenticate(tok, err) ==
    CASE err = "ok" -> IF evaluate_token_type(tok) THEN 0 ELSE 401
      [] err \in Typed -> IF err = "Network" \/ _is_upstream_fetch_failure(err) THEN 503 ELSE 401
      [] err = "InvalidTokenError" -> 401
      [] OTHER -> 500

authenticate_websocket(tok, err) ==
    CASE err \in Typed -> IF err = "Network" \/ _is_upstream_fetch_failure(err) THEN 1013 ELSE 1008
      [] err = "InvalidTokenError" -> 1008
      [] err \notin Typed \cup {"InvalidTokenError", "ok"} -> 1011
      [] err = "ok" -> IF evaluate_token_type(tok) THEN 0 ELSE 1008

-----------------------------------------------------------------------------
\* dependencies.py: without a user every dependency answers 401.

require_claim(user, tok, type, value) ==
    IF ~user THEN 401 ELSE IF has_claim(to_principal(tok), type, value) THEN 200 ELSE 403

require_scope(user, tok, scope) ==
    LET raw == IF Truthy(tok.scope) THEN tok.scope ELSE tok.scp
    IN  IF ~user THEN 401 ELSE IF scope \in Read(raw) THEN 200 ELSE 403

get_current_user(user) == IF user THEN 200 ELSE 401

\* Mutant: the route does not look whether there is a user.
RouteOpen(req, user) ==
    CASE req.needs.kind = "user"  -> 200
      [] req.needs.kind = "claim" -> require_claim(user, req.tok, "sub", req.needs.value)
      [] req.needs.kind = "scope" -> require_scope(user, req.tok, "read")

RouteStatus(req, user) ==
    CASE req.needs.kind = "user"  -> get_current_user(user)
      [] req.needs.kind = "claim" -> require_claim(user, req.tok, "sub", req.needs.value)
      [] req.needs.kind = "scope" -> require_scope(user, req.tok, "read")

-----------------------------------------------------------------------------
\* What validate_token learns from the provider.

\* Preflight of get_jwks with the same policy, then the answer or its failure.
get_jwks(want, doc, answer) ==
    LET scheme == validate_url_scheme(doc.endpoints[1], want.policy)
    IN  IF scheme # "ok" THEN handle_jwks_error(scheme)
        ELSE IF answer.status = 0 THEN handle_jwks_error("RequestError")
        ELSE parse_jwks_response(answer, MaxSize, MaxKeys)

\* error_handlers.py words a network error in the way that the prefixes match.
DiscoEnv(resp) ==
    [st |-> IF resp.ok THEN "ok" ELSE IF resp.kind = "NETWORK_ERROR" THEN "network" ELSE "other",
     issuer |-> IF resp.ok THEN resp.doc[1].issuer.host ELSE None,
     jwks_uri |-> resp.ok /\ resp.doc[1].endpoints[1] # NoUrl]

EnvOf(want, resp, answer) ==
    LET Got(a) == IF resp.ok THEN get_jwks(want, resp.doc[1], a) ELSE JwksFailed
    IN  [address |-> TRUE, disco |-> DiscoEnv(resp), attempt |-> answer.attempt,
         jwks |-> Got(answer.first), jwks2 |-> Got(answer.miss), jwks3 |-> Got(answer.retry)]

NoEnv(req) ==
    [address |-> req.address # NoUrl, disco |-> DiscoEnv(DiscoFailed("none")),
     attempt |-> [miss |-> FALSE, retry |-> FALSE],
     jwks |-> JwksFailed, jwks2 |-> JwksFailed, jwks3 |-> JwksFailed]

-----------------------------------------------------------------------------
\* How validate_token, or the function around it, ends.  An async validator makes
\* the twins differ, nothing else.

Config(req) == [req.cfg EXCEPT !.validator = IF @ = "described" THEN Validator(Server.validator, req.tok) ELSE @]

Twin(req, env, async) ==
    LET cfg == Config(req)
    IN  CASE req.kind \in {"http", "ws"} -> ServerErr(req.tok, env)
          [] req.kind = "token" ->
               IF async THEN validate_token_aio(req.tok, cfg, env) ELSE validate_token_sync(req.tok, cfg, env)
          [] req.kind = "id_token" ->
               IF async THEN validate_id_token_aio(req.tok, cfg, env, req.want)
               ELSE validate_id_token_sync(req.tok, cfg, env, req.want)
          [] req.kind = "logout_token" ->
               IF async THEN validate_logout_token_aio(req.tok, cfg, env)
               ELSE validate_logout_token_sync(req.tok, cfg, env)

\* The configuration is checked before the provider is asked; NoUrl is None.
AsksProvider(req) ==
    req.cfg.perform_disco /\ req.address # NoUrl /\ validate_token_config(req.cfg) = "ok"

\* The middleware and the socket configure no policy.
Want(req) == [address |-> req.address, policy |-> resolve_discovery_policy(req.policy, TRUE)]

\* The configured key is a sequence of at most one; keys come in the order of a list,
\* each with its members, and a published one as a dict.
IsKey(key) == {"kty", "mat", "form"} \subseteq DOMAIN key

ASSUME RequestsAssumption ==
    \A h \in DOMAIN Work :
      /\ \A req \in Requests[h] :
           /\ req.kind \in {"http", "ws", "token", "id_token", "logout_token"}
           /\ req.kind \in {"http", "ws"} \/ AsksProvider(req) => Want(req) \in Wants
           /\ req.kind = "http" => req.needs.kind \in {"user", "claim", "scope"}
           /\ DOMAIN req.cfg = DOMAIN ServerConfig(req.tok)
           /\ req.cfg.key = <<>> \/ (DOMAIN req.cfg.key = {1} /\ IsKey(req.cfg.key[1]))
      /\ \A answer \in JwksAnswers[h] :
           /\ answer.attempt \in [miss : BOOLEAN, retry : BOOLEAN]
           /\ \A a \in {answer.first, answer.miss, answer.retry} :
                /\ DOMAIN a.keys \subseteq Nat /\ IsFiniteSet(DOMAIN a.keys)
                /\ \A i \in DOMAIN a.keys : IsKey(a.keys[i].key) /\ a.keys[i].key.form = "dict"

-----------------------------------------------------------------------------
Init_RS == Init /\ conn = [c \in Callers |-> NoConn]

Ready(c) == conn[c].pc = "idle" /\ task[c].pc = "idle" /\ task[c].left > 0

Accept(c, req, pc) == conn' = [conn EXCEPT ![c] = [NoConn EXCEPT !.pc = pc, !.req = <<req>>]]

Answered(c, req, status) ==
    conn' = [conn EXCEPT ![c] = [NoConn EXCEPT !.pc = "end", !.req = <<req>>, !.status = status]]

UNCHANGED_Disco == UNCHANGED <<now, home, cache, task, stats, seen, log>>

\* OPTIONS and excluded paths go to the route without a user.
dispatch(c) ==
    \E req \in Requests[home] :
      /\ Ready(c) /\ Async(c) /\ req.kind = "http"
      /\ \/ /\ req.method = "OPTIONS" \/ _is_excluded(req.path)
            /\ Accept(c, req, "route") /\ UNCHANGED_Disco
         \/ /\ req.method # "OPTIONS" /\ ~_is_excluded(req.path) /\ ~_extract_bearer_token(req)
            /\ Answered(c, req, 401) /\ UNCHANGED_Disco
         \/ /\ req.method # "OPTIONS" /\ ~_is_excluded(req.path) /\ _extract_bearer_token(req)
            /\ Accept(c, req, "validating") /\ Begin(c, Want(req))

connect(c) ==
    \E req \in Requests[home] :
      /\ Ready(c) /\ Async(c) /\ req.kind = "ws"
      /\ \/ ~_extract_ws_token(req) /\ Answered(c, req, 1008) /\ UNCHANGED_Disco
         \/ _extract_ws_token(req) /\ Accept(c, req, "validating") /\ Begin(c, Want(req))

\* A library call; without discovery it asks nobody.
Call(c) ==
    \E req \in Requests[home] :
      /\ Ready(c) /\ req.kind \in {"token", "id_token", "logout_token"}
      /\ \/ AsksProvider(req) /\ Accept(c, req, "validating") /\ Begin(c, Want(req))
         \/ /\ ~AsksProvider(req) /\ UNCHANGED_Disco
            /\ conn' = [conn EXCEPT ![c] = [NoConn EXCEPT !.pc = "end", !.req = <<req>>,
                          !.env = <<NoEnv(req)>>, !.err = Twin(req, NoEnv(req), Async(c))]]

\* The rest of validate_token, and of its caller.
Ends(c, env, err) ==
    LET req    == conn[c].req[1]
        status == CASE req.kind = "http" -> _authenticate(req.tok, err)
                    [] req.kind = "ws"   -> authenticate_websocket(req.tok, err)
                    [] OTHER             -> 0
    IN  conn' = [conn EXCEPT ![c] =
          [conn[c] EXCEPT !.env = <<env>>, !.err = err, !.status = status,
                    !.user = req.kind = "http" /\ status = 0,
                    !.pc = IF req.kind = "http" /\ status = 0 THEN "route" ELSE "end"]]

Judged(c, env) == Ends(c, env, Twin(conn[c].req[1], env, Async(c)))

Validated(c) ==
    /\ conn[c].pc = "validating" /\ Return(c)
    /\ \E answer \in JwksAnswers[home] :
         Judged(c, EnvOf(task[c].want, task[c].resp, answer))

Route(c) ==
    /\ conn[c].pc = "route"
    /\ conn' = [conn EXCEPT ![c].pc = "end",
                            ![c].status = RouteStatus(conn[c].req[1], conn[c].user)]
    /\ UNCHANGED_Disco

Finish(c) ==
    /\ conn[c].pc = "end"
    /\ conn' = [conn EXCEPT ![c] = NoConn]
    /\ UNCHANGED_Disco

\* The client goes away, or the task is cancelled.
Disconnect(c) == Cancel(c) /\ conn' = [conn EXCEPT ![c] = NoConn]

Handle(c) == \/ dispatch(c) \/ connect(c) \/ Call(c)
             \/ Step(c) /\ UNCHANGED conn
             \/ Validated(c) \/ Route(c) \/ Finish(c) \/ Disconnect(c)

Next == \/ \E c \in Callers : Handle(c)
        \/ \E side \in {"sync", "aio"} : clear_discovery_cache(side) /\ UNCHANGED conn
        \/ Tick /\ UNCHANGED conn

Spec == Init_RS /\ [][Next]_rsVars

-----------------------------------------------------------------------------
\* Properties.  Decided: a caller's token was validated against env.

Decided(c) == conn[c].pc \in {"route", "end"} /\ conn[c].env # <<>>

\* The responses of the JWKS endpoint that a call may have used.
Obtained(env) ==
    {env.jwks} \cup (IF env.attempt.miss THEN {env.jwks2} ELSE {})
               \cup (IF env.attempt.retry THEN {env.jwks3} ELSE {})

Published(env) == UNION {Members(jwks.keys) : jwks \in Obtained(env)}

\* The token was signed with a key of the provider that fits its algorithm, for
\* this issuer and this audience, and has not expired.
Genuine(tok, cfg, env) ==
    /\ tok.wf /\ ~Expired(tok, cfg.leeway)
    /\ \E k \in IF cfg.perform_disco THEN Published(env) ELSE Members(cfg.key) :
         /\ k.mat = tok.mat /\ k.kty = KtyOf(tok.alg)
         /\ k.alg \in {None, tok.alg} \/ ~cfg.perform_disco
         /\ tok.kid \in {None, k.kid} \/ ~cfg.perform_disco
    /\ cfg.perform_disco => tok.iss = env.disco.issuer
    /\ cfg.issuer # NoIssuer /\ ~cfg.perform_disco => tok.iss \in cfg.issuer
    /\ cfg.allowed # NoIssuer => tok.iss \in cfg.allowed
    /\ cfg.options # "verify_aud=False" =>
         IF cfg.audience = None THEN tok.aud = {} ELSE cfg.audience \in tok.aud

ConfigOf(req) == IF req.kind \in {"http", "ws"} THEN ServerConfig(req.tok) ELSE Config(req)

\* Nobody is let in with a token that the provider did not make for this server:
\* a protected route answers 200, a socket is accepted and a library call returns
\* claims only for a genuine token, however the checks of the pipeline, the key
\* lookup, the refreshes that the cooldown allows and the path exclusions combine
\* (validate_token, dispatch, dependencies).
SoundAccept ==
    \A c \in Callers : conn[c].pc = "end" =>
      LET req == conn[c].req[1]
          accepted == CASE req.kind = "http" -> conn[c].status = 200
                        [] req.kind = "ws"   -> conn[c].status = 0
                        [] OTHER             -> conn[c].err = "ok"
      IN  accepted => Decided(c) /\ Genuine(req.tok, ConfigOf(req), conn[c].env[1])

\* env, had every answer of the JWKS endpoint held these keys.
Publishing(keys, env) == [env EXCEPT !.jwks.keys = keys, !.jwks2.keys = keys, !.jwks3.keys = keys]

\* A token that nobody disputes is accepted: if the keys at hand, or those of the
\* refresh that its unknown kid brings about, have exactly one key under its kid, the
\* claims are in order and the validator returns, the middleware and the socket let it
\* in (the checks reject nothing else).
Complete ==
    \A c \in Callers : Decided(c) /\ conn[c].req[1].kind \in {"http", "ws"} =>
      LET req  == conn[c].req[1]
          cfg  == ServerConfig(req.tok)
          env  == conn[c].env[1]
          used  == Looked(req.tok, env)
          named == {i \in DOMAIN used.keys : used.keys[i].kid = req.tok.kid}
          keys  == [i \in named |-> used.keys[i]]
      IN  (/\ env.disco.st = "ok" /\ env.jwks.st = "ok" /\ DOMAIN env.jwks.keys # {} /\ used.st = "ok"
           /\ req.tok.kid # None /\ Cardinality(named) = 1
           /\ Genuine(req.tok, cfg, Publishing(keys, env))
           /\ cfg.validator = "returns" /\ evaluate_token_type(req.tok))
          => conn[c].err = "ok" /\ conn[c].status \in {0, 200, 403}

\* The provider's keys as they would be if they held the one that signed the token.
Vouching(tok) ==
    [st |-> "ok", keys |-> <<[kid |-> tok.kid, kty |-> KtyOf(tok.alg), alg |-> None, use |-> None,
                              mat |-> tok.mat, form |-> "dict"]>>]

\* env, had every fetch of keys that failed in the network brought that key.
Healed(tok, env) ==
    LET Heal(jwks) == IF jwks.st = "network" THEN Vouching(tok) ELSE jwks
    IN  [env EXCEPT !.jwks = Heal(@), !.jwks2 = Heal(@), !.jwks3 = Heal(@)]

\* An outage of the network is told as one and never blamed on the token: a client of
\* the middleware or of the socket that is not told to come back (503, 1013) has a
\* verdict that no failed fetch had a part in, the same as with the key that signed the
\* token in every answer that did not arrive, be it the document, the cached keys'
\* fetch, the refresh for an unknown kid or the one after a bad signature; and it is
\* told to come back only if one of these did fail.  Network failures only: a provider
\* that answers 5xx or garbage is reported as a bad token (401, 1008), for
\* _is_upstream_fetch_failure knows the messages of network errors alone, although
\* middleware.py and the change log speak of every discovery and JWKS fault.
OutageTold ==
    \A c \in Callers : Decided(c) /\ conn[c].req[1].kind \in {"http", "ws"} =>
      LET tok == conn[c].req[1].tok
          env == conn[c].env[1]
      IN  IF conn[c].status \in {503, 1013}
          THEN "network" \in {env.disco.st} \cup {jwks.st : jwks \in Obtained(env)}
          ELSE env.disco.st # "network" /\ conn[c].err = ServerErr(tok, Healed(tok, env))

\* A token serves one purpose: an ID token that answers a login (its nonce is
\* checked) is neither a logout token nor an access token, whatever else is in it
\* (validate_logout_token_claims, evaluate_token_type).
NotInterchangeable ==
    \A c \in Callers : Decided(c) /\ conn[c].req[1].kind = "id_token" /\ conn[c].err = "ok" =>
      LET req == conn[c].req[1]
          env == conn[c].env[1]
      IN  req.want.nonce # None =>
            /\ validate_logout_token_aio(req.tok, Config(req), env) # "ok"
            /\ _authenticate(req.tok, ServerErr(req.tok, env)) # 0
            /\ authenticate_websocket(req.tok, ServerErr(req.tok, env)) # 0
=============================================================================
