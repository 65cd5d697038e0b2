----------------------------- MODULE AuthzLogic -----------------------------
(***************************************************************************)
(* The decisions of the Python library around an authorization request:    *)
(* building it (core/authorize_url.py, core/pkce.py, core/jar.py), reading *)
(* the answer (core/authorize_response.py, core/state_validation.py,       *)
(* core/jarm.py with its sync and aio drivers) and logging out             *)
(* (core/logout_logic.py).                                                 *)
(*                                                                         *)
(* A callback URI is [blank, scheme, fragment, query]; fragment and query  *)
(* map a parameter to the sequence of its values, as parse_qs does.  A     *)
(* value of 'response' is a sequence with the token in it, or empty.       *)
(***************************************************************************)
EXTENDS JwtLogic, Functions

Endpoint == INSTANCE EndpointLogic

\* The subclasses of TokenValidationException.
TokenValidationErrors ==
    {"TokenValidation", "FetchNetwork", "FetchOther", "SignatureVerification", "TokenExpired",
     "InvalidAudience", "InvalidIssuer", "IdToken", "LogoutToken", "CertificateBinding",
     "ClaimsValidation"}

\* Issuers are names; Unparsable is a URL that has no host, or is not http(s).
Unparsable == "unparsable"
parse_discovery_url(url) == Check(url \notin {"", Unparsable}, "Configuration")

-----------------------------------------------------------------------------
\* The authorization request.  Lengths stand for verifiers; a challenge names
\* the verifier it was derived from.

generate_code_verifier(length) == Check(length \in 43..128, "ValueError")

generate_code_challenge(length, method) ==
    FirstErr(<<Check(length \in 43..128, "ValueError"),
               Check(method \in {"S256", "plain"}, "ValueError")>>)

generate_pkce_pair(method, length) ==
    FirstErr(<<generate_code_verifier(length), generate_code_challenge(length, method)>>)

\* Both or neither.
Paired(req) == (req.challenge = None) = (req.method = None)

\* What reaches the provider is the request itself.
build_authorization_url(endpoint, req) ==
    FirstErr(<<Check(endpoint # "", "ValueError"), Check(Paired(req), "ValueError"),
               Check(req.method \in {None, "S256", "plain"}, "ValueError")>>)

_validate_request_params(algorithm, lifetime, req) ==
    FirstErr(<<Check(req.client_id # "" /\ req.audience # "", "ValueError"),
               Check(Endpoint!validate_signing_algorithm(algorithm), "ValueError"),
               Check(lifetime > 0, "ValueError"),
               Check(Paired(req), "ValueError"),
               Check("" \notin {req.challenge, req.method}, "ValueError")>>)

\* The signed request object carries the parameters as claims.
create_request_object(algorithm, lifetime, req) ==
    [err |-> _validate_request_params(algorithm, lifetime, req),
     iss |-> req.client_id, aud |-> req.audience, exp |-> Now + lifetime, claims |-> req]

\* An alias of the document, or else the endpoint of that name.
resolve_mtls_endpoint(disco, endpoint) ==
    IF endpoint \in disco.aliases THEN "mtls" ELSE
    IF endpoint \in disco.endpoints THEN "plain" ELSE None

-----------------------------------------------------------------------------
\* The authorization response.

Recognised == {"code", "access_token", "id_token", "token_type", "expires_in", "scope",
               "refresh_token", "state", "session_state", "iss", "error", "error_description"}

\* A number that does not parse is left out.
_map_params_to_fields(values) ==
    Restrict(values, {p \in DOMAIN values \cap Recognised :
                        p # "expires_in" \/ values[p] # "not a number"})

NoResponse == [err |-> "AuthorizeCallback", ok |-> FALSE, fields |-> <<>>]

FieldOf(resp, param) == IF param \in DOMAIN resp.fields THEN resp.fields[param] ELSE None

\* The fragment wins over the query; the first value of a parameter counts.
parse_authorize_callback_response(uri) ==
    LET params == IF DOMAIN uri.fragment # {} THEN uri.fragment ELSE uri.query
        fields == _map_params_to_fields(
                     [p \in DOMAIN params \cap Recognised |-> params[p][1]])
    IN  IF \/ uri.blank
           \/ uri.scheme \notin {"", "http", "https"}
           \/ DOMAIN fields = {}
        THEN NoResponse
        ELSE [err |-> "ok", ok |-> "error" \notin DOMAIN fields, fields |-> fields]

validate_authorize_callback_state(resp, expected_state) ==
    FirstErr(<<Check(resp.ok, "error_response"),
               Check(expected_state \notin {None, ""}, "missing_state"),
               Check(FieldOf(resp, "state") \notin {None, ""}, "missing_state"),
               Check(FieldOf(resp, "state") = expected_state, "state_mismatch")>>)

\* RFC 9207: an iss that is present always counts; enforce demands one.
validate_authorize_callback_issuer(resp, expected_issuer, enforce) ==
    LET iss == FieldOf(resp, "iss")
    IN  FirstErr(<<Check(resp.ok, "error_response"),
                   Check(iss = None \/ (expected_issuer \notin {None, ""} /\ iss = expected_issuer),
                         "issuer_mismatch"),
                   Check(iss # None \/ ~enforce, "missing_issuer")>>)

-----------------------------------------------------------------------------
\* JARM: the response parameters are the claims of a signed token.

\* The token, <<>> when there is none or it is empty, "Jarm" when it is repeated.
_extract_response_param(params) ==
    IF "response" \notin DOMAIN params THEN [err |-> "ok", jwt |-> <<>>]
    ELSE [err |-> Check(Len(params.response) = 1, "Jarm"), jwt |-> params.response[1]]

\* A repeated parameter counts as JARM, so that it is rejected as such.
is_jarm_response(uri) ==
    /\ ~uri.blank
    /\ \E params \in {uri.fragment, uri.query} :
         LET r == _extract_response_param(params) IN r.err # "ok" \/ r.jwt # <<>>

extract_jarm_response_jwt(uri) ==
    LET inF == _extract_response_param(uri.fragment)
        inQ == _extract_response_param(uri.query)
        got == IF inF.err # "ok" \/ inF.jwt # <<>> THEN inF ELSE inQ
    IN  IF uri.blank \/ got.jwt = <<>> THEN [err |-> "Jarm", jwt |-> <<>>] ELSE got

select_jarm_algorithm(alg, allowed) ==
    Check(alg \notin {None, "<number>", "none", "HS256"} /\ alg \in allowed, "Jarm")

extract_jarm_header(tok) == Check(extract_jwt_header_fields(tok) = "ok", "Jarm")

decode_jarm_claims(tok, key, algorithms, issuer, audience, leeway) ==
    FirstErr(<<decode_and_validate_jwt(tok, key, algorithms, audience, {issuer}, None, leeway, None),
               Check(tok.iss # None /\ tok.aud # {} /\ tok.exp # Never, "Jarm")>>)

\* A claim that is null is a field that is absent.
build_authorize_response_from_claims(claims) ==
    LET fields == _map_params_to_fields(claims)
    IN  IF DOMAIN fields = {} THEN [NoResponse EXCEPT !.err = "Jarm"]
        ELSE [err |-> "ok", fields |-> fields,
              ok |-> "error" \notin DOMAIN fields \/ fields["error"] = None]

\* ctx holds what the caller passes, each a sequence of at most one.  With
\* issuer, keys and algorithms all given nothing is fetched.
_resolve_jarm_context(ctx, env) ==
    LET offline == ctx.issuer # <<>> /\ ctx.jwks # <<>> /\ ctx.algorithms # <<>>
        algs    == IF ctx.algorithms # <<>> THEN ctx.algorithms[1] ELSE {}
        disco   == env.disco
        issuer  == IF ctx.issuer # <<>> THEN ctx.issuer[1] ELSE disco.issuer
    IN  IF offline
        THEN [err |-> validate_jwks_response(ctx.jwks[1]), issuer |-> issuer,
              algs |-> algs, keys |-> ctx.jwks[1].keys]
        ELSE [err |-> FirstErr(<<Check(ctx.address, "Configuration"),
                                 validate_disco_response(disco),
                                 Check(issuer \notin {None, ""}, "Configuration"),
                                 validate_jwks_uri(disco),
                                 validate_jwks_response(env.jwks)>>),
              issuer |-> issuer, algs |-> IF algs # {} THEN algs ELSE disco.signing_algs,
              keys |-> env.jwks.keys]

process_jarm_response(uri, client_id, ctx, env, leeway) ==
    LET got   == extract_jarm_response_jwt(uri)
        tok   == got.jwt[1]
        r     == _resolve_jarm_context(ctx, env)
        found == find_key_by_kid(tok.kid, r.keys, tok.alg)
        pre   == IF got.err # "ok" THEN got.err
                 ELSE IF r.err # "ok" THEN r.err
                 ELSE IF extract_jarm_header(tok) # "ok" THEN "Jarm"
                 ELSE IF select_jarm_algorithm(tok.alg, r.algs) # "ok" THEN "Jarm"
                 ELSE IF found.err # "ok" THEN found.err
                 ELSE decode_jarm_claims(tok, found.key, <<tok.alg>>, r.issuer, client_id, leeway)
    IN  IF pre # "ok" THEN [NoResponse EXCEPT !.err = pre]
        ELSE build_authorize_response_from_claims(tok.claims)

-----------------------------------------------------------------------------
\* RP-initiated logout.

build_end_session_url(endpoint, id_token_hint, client_id, state) ==
    [err |-> Check(endpoint # "", "ValueError"),
     params |-> Restrict([id_token_hint |-> id_token_hint, client_id |-> client_id, state |-> state],
                         {p \in {"id_token_hint", "client_id", "state"} :
                            CASE p = "state" -> state # None
                              [] p = "client_id" -> client_id # None
                              [] OTHER -> id_token_hint # None})]

validate_post_logout_state(expected_state, returned_state) ==
    FirstErr(<<Check(expected_state \notin {None, ""}, "LogoutState"),
               Check(returned_state \notin {None, ""}, "LogoutState"),
               Check(returned_state = expected_state, "LogoutState")>>)
=============================================================================
