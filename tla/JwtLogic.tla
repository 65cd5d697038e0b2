------------------------------ MODULE JwtLogic ------------------------------
(***************************************************************************)
(* The decisions of the Python library about a signed token: key lookup    *)
(* (core/parsers.py), decoding (core/jwt_helpers.py), the validation       *)
(* pipeline (core/token_validation_logic.py and its sync and aio drivers), *)
(* and the profiles built on it: ID tokens and logout tokens.              *)
(*                                                                         *)
(* A function that raises is an operator whose value is "ok" or the name   *)
(* of the exception class.  A token is a record of what its checks look    *)
(* at; a signature is the name of the key material that made it.           *)
(***************************************************************************)
EXTENDS Naturals, Sequences, FiniteSets

\* Python's None, and an absent member.
None == "None"

Check(cond, err) == IF cond THEN "ok" ELSE err

\* The first check of a list that fails; "ok" when none does.
FirstErr(checks) ==
    LET bad == {i \in DOMAIN checks : checks[i] # "ok"}
    IN  IF bad = {} THEN "ok" ELSE checks[CHOOSE i \in bad : \A j \in bad : i <= j]

Members(s) == {s[i] : i \in DOMAIN s}

\* PyIdentityModelException and its subclasses.  FetchNetwork and FetchOther
\* are TokenValidationExceptions that carry the error of a failed discovery or
\* JWKS response: the first one's message begins with "Network error during".
Typed == {"TokenValidation", "Network", "FetchNetwork", "FetchOther", "Configuration",
          "SignatureVerification", "TokenExpired", "InvalidAudience",
          "InvalidIssuer", "IdToken", "LogoutToken", "Jarm", "AuthorizeCallback",
          "CertificateBinding", "ClaimsValidation"}

-----------------------------------------------------------------------------
\* Key lookup.  A key is [kid, kty, alg, use, mat, form].

_ALG_TO_KTY == [RS256 |-> "RSA", ES256 |-> "EC", EdDSA |-> "OKP", HS256 |-> "oct"]

KtyOf(alg) == IF alg \in DOMAIN _ALG_TO_KTY THEN _ALG_TO_KTY[alg] ELSE None

_reject_non_string_alg(jwt_alg) == Check(jwt_alg # "<number>", "TokenValidation")

\* Mutant: a key that declares no algorithm fits none.
_validate_key_alg_strict(key, jwt_alg) == Check(key.alg = jwt_alg, "TokenValidation")

_validate_key_alg_consistency(key, jwt_alg) ==
    IF jwt_alg = None THEN "ok"
    ELSE FirstErr(<<_reject_non_string_alg(jwt_alg),
                    Check(jwt_alg # "none", "TokenValidation"),
                    Check(KtyOf(jwt_alg) \in {None, key.kty}, "TokenValidation"),
                    Check(key.alg \in {None, jwt_alg}, "TokenValidation")>>)

\* Lookups narrow the positions of the keys.  A filter of the code is dropped
\* when it would leave nothing.
Narrow(pos, fitting) == IF pos \cap fitting = {} THEN pos ELSE pos \cap fitting

NarrowByType(keys, pos, jwt_alg) ==
    IF KtyOf(jwt_alg) = None THEN pos
    ELSE Narrow(pos, {i \in DOMAIN keys : keys[i].kty = KtyOf(jwt_alg)})

NarrowByAlg(keys, pos, jwt_alg) ==
    IF Cardinality(pos) <= 1 \/ jwt_alg = None THEN pos
    ELSE NarrowByType(keys, Narrow(pos, {i \in DOMAIN keys : keys[i].alg \in {None, jwt_alg}}), jwt_alg)

_no_kid_candidates(keys, jwt_alg) ==
    NarrowByAlg(keys, Narrow(DOMAIN keys, {i \in DOMAIN keys : keys[i].use \in {None, "sig"}}), jwt_alg)

NoKey == [err |-> "TokenValidation", key |-> None, alg |-> None]

\* The positions that a lookup leaves; without a kid there must be exactly one.
Pool(kid, keys, jwt_alg) ==
    IF kid = None THEN _no_kid_candidates(keys, jwt_alg)
    ELSE {i \in DOMAIN keys : keys[i].kid = kid}

First(keys, pool) == keys[CHOOSE i \in pool : \A j \in pool : i <= j]

Picked(keys, pool, kid, jwt_alg, default) ==
    LET key == First(keys, pool)
    IN  IF \/ pool = {}
           \/ kid = None /\ (Cardinality(pool) # 1 \/ jwt_alg \in {"none", "<number>"})
        THEN NoKey
        ELSE IF _validate_key_alg_consistency(key, jwt_alg) # "ok" THEN NoKey
        ELSE [err |-> "ok", key |-> key, alg |-> IF key.alg # None THEN key.alg ELSE default]

find_key_by_kid(kid, keys, jwt_alg) ==
    Picked(keys, Pool(kid, keys, jwt_alg), kid, jwt_alg, IF jwt_alg # None THEN jwt_alg ELSE "RS256")

\* The deprecated lookup: the header's algorithm is filled in when the key
\* declares none.
get_public_key_from_jwk(tok, keys) ==
    Picked(keys, Pool(tok.kid, keys, tok.alg), tok.kid, tok.alg, tok.alg)

\* jwt.get_unverified_header rejects what is not three base64 parts.
extract_jwt_header_fields(tok) == Check(tok.wf, "InvalidTokenError")

-----------------------------------------------------------------------------
\* Decoding.  PyJWT is outside the repository: PyJWK and decode say what the
\* code relies on.

PyJWK(key, alg) ==
    Check(KtyOf(alg) = key.kty /\ key.form = "dict", "Untyped")

\* A configured issuer is the set of the issuers it names, NoIssuer when there
\* is none.  Times are small numbers; a token without exp has exp = Never.
NoIssuer == {None}
Never == 99
Now == 10

Expired(tok, leeway) == tok.exp # Never /\ tok.exp + leeway <= Now

pyjwt_decode(tok, key, algorithms, audience, issuer, options, leeway) ==
    FirstErr(<<PyJWK(key, algorithms[1]),
               Check(tok.wf /\ tok.alg \in Members(algorithms), "InvalidTokenError"),
               Check(tok.mat = key.mat /\ tok.alg = algorithms[1], "InvalidSignatureError"),
               Check(~Expired(tok, leeway), "ExpiredSignatureError"),
               Check(issuer = NoIssuer \/ tok.iss # None, "InvalidTokenError"),
               Check(issuer = NoIssuer \/ tok.iss \in issuer, "InvalidIssuerError"),
               Check(options = "verify_aud=False" \/ audience # None \/ tok.aud = {},
                     "InvalidAudienceError"),
               Check(options = "verify_aud=False" \/ audience = None \/ tok.aud # {},
                     "InvalidTokenError"),
               Check(options = "verify_aud=False" \/ audience \in {None} \cup tok.aud,
                     "InvalidAudienceError")>>)

\* verify_signature, verify_exp, verify_nbf and verify_iat cannot be disabled.
_sanitize_options(options) == Check(options # "verify_exp=False", "Configuration")

_normalize_verification_key(key) ==
    IF key.form = "other" THEN key ELSE [key EXCEPT !.form = "dict"]

\* The class that decode_and_validate_jwt raises for one of PyJWT's.
Wrapped(err) ==
    CASE err = "ExpiredSignatureError" -> "TokenExpired"
      [] err = "InvalidAudienceError"  -> "InvalidAudience"
      [] err = "InvalidIssuerError"    -> "InvalidIssuer"
      [] err = "InvalidSignatureError" -> "SignatureVerification"
      [] err = "InvalidTokenError"     -> "TokenValidation"
      [] OTHER                         -> err

decode_and_validate_jwt(tok, key, algorithms, audience, issuer, options, leeway, subject) ==
    LET pre == FirstErr(<<Check(algorithms # <<>>, "Configuration"),
                          Check(issuer # {}, "Configuration"),
                          _sanitize_options(options),
                          Check(key.form # "other", "Configuration")>>)
    IN  IF pre # "ok" THEN pre
        ELSE FirstErr(<<Wrapped(pyjwt_decode(tok, _normalize_verification_key(key),
                                  algorithms, audience, issuer, options, leeway)),
                        Check(subject \in {None, tok.sub}, "TokenValidation")>>)

-----------------------------------------------------------------------------
\* The validation pipeline.  A configuration (TokenValidationConfig) is a
\* record; env is what a call learns: the discovery response, the keys of the
\* cache or of a first fetch (jwks), those that a refresh for an unknown kid
\* brings (jwks2) and those of a refresh after a bad signature (jwks3).
\* env.attempt is what the cooldown says of either refresh when the call comes
\* to it (should_attempt_kid_miss_refresh; PyJwks models how it is stamped).  A
\* call with an injected HTTP client has attempt = [miss |-> FALSE, retry |-> TRUE].

validate_disco_response(disco) ==
    Check(disco.st = "ok", IF disco.st = "network" THEN "FetchNetwork" ELSE "FetchOther")

validate_jwks_uri(disco) == Check(disco.jwks_uri, "Configuration")

validate_jwks_response(jwks) ==
    FirstErr(<<Check(jwks.st = "ok", IF jwks.st = "network" THEN "FetchNetwork" ELSE "FetchOther"),
               Check(DOMAIN jwks.keys # {}, "TokenValidation")>>)

\* core/validators.py: an empty or blank issuer list, a leeway that is not a
\* non-negative finite number, no key and no algorithms without discovery.
validate_token_config(cfg) ==
    FirstErr(<<Check(cfg.issuer # {} /\ "" \notin cfg.issuer, "Configuration"),
               Check(cfg.leeway >= 0, "Configuration"),
               Check(cfg.perform_disco \/ cfg.key # <<>> \/ cfg.algorithms # <<>>, "Configuration")>>)

validate_config_for_manual_validation(cfg) ==
    Check(cfg.key # <<>> /\ cfg.algorithms # <<>>, "Configuration")

_enforce_allowed_issuers(effective, allowed) ==
    Check(effective \notin {{}, NoIssuer} /\ effective \subseteq allowed, "InvalidIssuer")

\* The issuer of the discovery document overrides the configured one.
decode_with_config(tok, cfg, issuer) ==
    LET effective == IF issuer # NoIssuer THEN issuer ELSE cfg.issuer
    IN  FirstErr(<<Check(cfg.key # <<>> /\ cfg.algorithms # <<>>, "Configuration"),
                   IF cfg.allowed = NoIssuer THEN "ok"
                   ELSE _enforce_allowed_issuers(effective, cfg.allowed),
                   IF cfg.key = <<>> THEN "Configuration"
                   ELSE decode_and_validate_jwt(tok, cfg.key[1], cfg.algorithms,
                          cfg.audience, effective, cfg.options, cfg.leeway, cfg.subject)>>)

\* The resolved key and its algorithm replace the configured ones; the rest of
\* the configuration is carried over.
build_resolved_config(cfg, found) ==
    [err |-> Check(cfg.algorithms = <<>> \/ found.alg \in Members(cfg.algorithms),
                   "TokenValidation"),
     cfg |-> [cfg EXCEPT !.key = <<found.key>>, !.algorithms = <<found.alg>>]]

DecodeResolved(tok, resolved, disco) ==
    IF resolved.err # "ok" THEN resolved.err
    ELSE decode_with_config(tok, resolved.cfg, {disco.issuer})

DecodeFound(tok, cfg, disco, found) ==
    IF found.err # "ok" THEN found.err
    ELSE DecodeResolved(tok, build_resolved_config(cfg, found), disco)

\* Key lookup, resolved configuration and decode against one JWKS response.
ResolveAndDecode(tok, cfg, disco, jwks) ==
    LET pre == FirstErr(<<validate_jwks_response(jwks), extract_jwt_header_fields(tok)>>)
    IN  IF pre # "ok" THEN pre
        ELSE DecodeFound(tok, cfg, disco, find_key_by_kid(tok.kid, jwks.keys, tok.alg))

\* No key of the set has the kid of the token.
KidMiss(tok, jwks) == tok.kid # None /\ \A i \in DOMAIN jwks.keys : jwks.keys[i].kid # tok.kid

\* The response that the key is looked up in: the OP may have rotated.
Looked(tok, env) ==
    IF KidMiss(tok, env.jwks) /\ env.attempt.miss THEN env.jwks2 ELSE env.jwks

_discover_and_resolve_key(tok, cfg, env) ==
    LET pre == FirstErr(<<validate_jwks_response(env.jwks), extract_jwt_header_fields(tok)>>)
    IN  IF pre # "ok" THEN pre ELSE ResolveAndDecode(tok, cfg, env.disco, Looked(tok, env))

\* A bad signature sends the call back for fresh keys once, unless the cooldown
\* forbids it.
_retry_with_refreshed_jwks(tok, cfg, env) ==
    IF env.attempt.retry THEN ResolveAndDecode(tok, cfg, env.disco, env.jwks3)
    ELSE "SignatureVerification"

Retried(first, second) == IF first = "SignatureVerification" THEN second ELSE first

\* validate_token with discovery: the document, the keys, the retry.
DiscoAndDecode(tok, cfg, env) ==
    LET pre == FirstErr(<<Check(env.address, "Configuration"),
                          validate_disco_response(env.disco),
                          validate_jwks_uri(env.disco)>>)
    IN  IF pre # "ok" THEN pre
        ELSE Retried(_discover_and_resolve_key(tok, cfg, env),
                     _retry_with_refreshed_jwks(tok, cfg, env))

Decoded(tok, cfg, env) ==
    FirstErr(<<validate_token_config(cfg),
               IF cfg.perform_disco THEN DiscoAndDecode(tok, cfg, env)
               ELSE FirstErr(<<validate_config_for_manual_validation(cfg),
                               decode_with_config(tok, cfg, NoIssuer)>>)>>)

\* A claims validator is what it does when it is called: return, raise a
\* TokenValidationException, raise anything else, or hand back a coroutine that
\* rejects once it is awaited ("coroutine": an async function, "callable": an
\* object whose __call__ is async, which iscoroutinefunction does not see).
validate_claims(validator) ==
    Check(validator \notin {"rejects", "raises"}, "TokenValidation")

validate_async_claims(validator) ==
    Check(validator \notin {"rejects", "raises", "coroutine"}, "TokenValidation")

validate_token_sync(tok, cfg, env) ==
    FirstErr(<<Decoded(tok, cfg, env), validate_claims(cfg.validator)>>)

validate_token_aio(tok, cfg, env) ==
    FirstErr(<<Decoded(tok, cfg, env), validate_async_claims(cfg.validator)>>)

-----------------------------------------------------------------------------
\* ID tokens.  at_hash and c_hash name the value they were computed from; want
\* is what the relying party passes.

\* The digest of at_hash is fixed by the header algorithm's suffix.
_hash_for_alg(alg) == Check(alg \in DOMAIN _ALG_TO_KTY, "IdToken")

_left_half_hash(value, alg) == FirstErr(<<_hash_for_alg(alg), Check(value # "non-ascii", "IdToken")>>)

\* A non-ASCII operand raises the same exception as a mismatch.
_hashes_equal(actual, expected) == actual = expected /\ actual \notin {None, "non-ascii"}

Bound(want, claim, alg) ==
    IF want = None THEN "ok"
    ELSE FirstErr(<<_left_half_hash(want, alg), Check(_hashes_equal(claim, want), "IdToken")>>)

validate_id_token_claims(tok, client_id, want, leeway) ==
    FirstErr(<<Check(tok.sub # None, "IdToken"),
               Check(Cardinality(tok.aud) <= 1 \/ tok.azp # None, "IdToken"),
               Check(tok.azp = None \/ client_id \in {None, tok.azp}, "IdToken"),
               Check(want.nonce = None \/ _hashes_equal(tok.nonce, want.nonce), "IdToken"),
               Check(want.max_age = Never
                       \/ (tok.auth_time # Never /\ Now <= tok.auth_time + want.max_age + leeway),
                     "IdToken"),
               Bound(want.access_token, tok.at_hash, tok.alg),
               Bound(want.code, tok.c_hash, tok.alg)>>)

validate_id_token_sync(tok, cfg, env, want) ==
    FirstErr(<<validate_token_sync(tok, cfg, env),
               validate_id_token_claims(tok, cfg.audience, want, cfg.leeway)>>)

validate_id_token_aio(tok, cfg, env, want) ==
    FirstErr(<<validate_token_aio(tok, cfg, env),
               validate_id_token_claims(tok, cfg.audience, want, cfg.leeway)>>)

-----------------------------------------------------------------------------
\* Back-channel logout tokens.

validate_logout_token_claims(tok) ==
    FirstErr(<<Check(tok.iss # None /\ tok.aud # {} /\ tok.jti /\ tok.events # None, "LogoutToken"),
               Check(tok.nonce = None, "LogoutToken"),
               Check(tok.sub # None \/ tok.sid # None, "LogoutToken"),
               Check(tok.events = "backchannel-logout", "LogoutToken")>>)

validate_logout_token_sync(tok, cfg, env) ==
    FirstErr(<<validate_token_sync(tok, cfg, env), validate_logout_token_claims(tok)>>)

validate_logout_token_aio(tok, cfg, env) ==
    FirstErr(<<validate_token_aio(tok, cfg, env), validate_logout_token_claims(tok)>>)
=============================================================================
