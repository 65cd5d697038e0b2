--------------------------- MODULE EndpointLogic ---------------------------
(***************************************************************************)
(* The decisions of the Python library around one request to an OAuth      *)
(* endpoint: what goes into it (the prepare functions, client              *)
(* authentication, DPoP proofs), whether its answer is retried, and what   *)
(* becomes of the answer (the process and handle functions).               *)
(*                                                                         *)
(* A request is [auth, dpop, params, sub, fields, extra, now]: how the     *)
(* client authenticates, its DPoP key, whether the endpoint's own          *)
(* parameters are acceptable, the subject that UserInfo must name, client  *)
(* metadata, the time.  An answer is [status, body, nonce, after]: the     *)
(* body by its shape, the DPoP-Nonce challenge by where it is said, after  *)
(* the Retry-After header.                                                 *)
(***************************************************************************)
EXTENDS Naturals, FiniteSets, TLC

None == "None"
Failure == "failure"
Success == "success"

-----------------------------------------------------------------------------
\* Signed parts of a request.  A configuration of private_key_jwt is
\* [complete, algorithm, kid, lifetime].

SUPPORTED_SIGNING_ALGORITHMS == {"ES256", "RS256", "PS256", "EdDSA"}

validate_signing_algorithm(algorithm) == algorithm \in SUPPORTED_SIGNING_ALGORITHMS

\* The assertion is dated back by the leeway, so its lifetime must exceed it.
_CLOCK_SKEW_LEEWAY_SECONDS == 10

build_client_assertion(config, now) ==
    [err |-> ~ /\ config.complete
               /\ validate_signing_algorithm(config.algorithm)
               /\ config.lifetime > _CLOCK_SKEW_LEEWAY_SECONDS
               /\ config.kid # "",
     iat |-> now - _CLOCK_SKEW_LEEWAY_SECONDS,
     exp |-> now - _CLOCK_SKEW_LEEWAY_SECONDS + config.lifetime]

\* The ways in which a prepared request names its client, as a set of
\* "client_id" (a parameter), "assertion", "certificate" and "basic".
apply_private_key_jwt == {"client_id", "assertion"}
apply_mtls_client_auth == {"client_id", "certificate"}
basic_auth_credentials == {"basic"}

\* private_key_jwt before mtls before the secret; secret says which configured
\* secrets count, otherwise names a client without one.
ClientAuth(auth, secret, otherwise) ==
    CASE auth.kind = "private_key_jwt" -> apply_private_key_jwt
      [] auth.kind = "mtls"            -> apply_mtls_client_auth
      [] auth.kind \in secret          -> basic_auth_credentials
      [] OTHER                         -> otherwise

BadAssertion(auth, now) ==
    auth.kind = "private_key_jwt" /\ build_client_assertion(auth.config, now).err

\* A client_secret that is not None, that is not empty, that is not blank.
Given    == {"secret", "blank", "empty"}
NonEmpty == {"secret", "blank"}
NonBlank == {"secret"}

_SUPPORTED_ALGORITHMS == {"ES256", "ES384", "ES512", "RS256"}

generate_dpop_key(algorithm) == algorithm \in _SUPPORTED_ALGORITHMS

compute_ath(token) == token \notin {"empty", "blank", "non-ascii"}

\* Method, absolute URI and, when a token is bound, its hash; an empty token has none.
create_dpop_proof(req, bound) ==
    /\ generate_dpop_key(req.dpop.algorithm)
    /\ req.dpop.absolute
    /\ bound /\ req.dpop.token # "empty" => compute_ath(req.dpop.token)

BadProof(req, bound) == req.dpop.key /\ ~create_dpop_proof(req, bound)

-----------------------------------------------------------------------------
\* Preparation: [err, ident, proof].

Prepared(err, ident, proof) == [err |-> err, ident |-> ident, proof |-> proof]

prepare_token_request_data(req) ==
    Prepared(BadAssertion(req.auth, req.now),
             ClientAuth(req.auth, Given, {"client_id"}), FALSE)

prepare_auth_code_token_request_data(req) ==
    Prepared(BadProof(req, FALSE) \/ BadAssertion(req.auth, req.now),
             ClientAuth(req.auth, Given, {"client_id"}), req.dpop.key)

prepare_refresh_token_request_data(req) ==
    Prepared(BadAssertion(req.auth, req.now),
             ClientAuth(req.auth, Given, {"client_id"}), FALSE)

prepare_introspection_request_data(req) ==
    Prepared(BadAssertion(req.auth, req.now),
             ClientAuth(req.auth, Given, {"client_id"}), FALSE)

\* A blank secret is no secret here, unlike in the three grants above.
prepare_revocation_request_data(req) ==
    Prepared(BadAssertion(req.auth, req.now),
             ClientAuth(req.auth, NonBlank, {"client_id"}), FALSE)

\* client_id is always a parameter of the device and of the pushed request.
prepare_device_auth_request_data(req) ==
    Prepared(BadAssertion(req.auth, req.now),
             {"client_id"} \cup ClientAuth(req.auth, NonEmpty, {}), FALSE)

prepare_device_token_request_data(req) ==
    Prepared(BadAssertion(req.auth, req.now),
             {"client_id"} \cup ClientAuth(req.auth, NonEmpty, {}), FALSE)

\* code_challenge and its method come together.
prepare_par_request_data(req) ==
    Prepared(~req.params \/ BadProof(req, FALSE) \/ BadAssertion(req.auth, req.now),
             {"client_id"} \cup ClientAuth(req.auth, NonEmpty, {}), req.dpop.key)

\* RFC 8693: client, subject token and its type; actor token and its type
\* together or not at all.
_validate_request_params(req) == req.params

prepare_token_exchange_request_data(req) ==
    Prepared(~_validate_request_params(req) \/ BadAssertion(req.auth, req.now),
             ClientAuth(req.auth, NonEmpty, {"client_id"}), FALSE)

\* Bearer, or DPoP with a proof bound to the access token.
prepare_userinfo_headers(req) == Prepared(BadProof(req, TRUE), {}, req.dpop.key)

\* The metadata fields that are set; extra_metadata overrides them.
_build_client_metadata(req) == req.extra @@ req.fields

prepare_management_headers(req) == {"registration_access_token"}

prepare_registration_request(req) ==
    Prepared(FALSE, {_build_client_metadata(req)[f] : f \in DOMAIN req.fields}, FALSE)

prepare_update_request(req) ==
    Prepared(FALSE, {_build_client_metadata(req)[f] : f \in DOMAIN req.fields}
                      \cup prepare_management_headers(req), FALSE)

-----------------------------------------------------------------------------
\* Retry decisions.

HTTP_TOO_MANY_REQUESTS == 429
HTTP_INTERNAL_SERVER_ERROR == 500
MAX_RETRY_DELAY_SECONDS == 120

\* Mutant: every answer is retried while attempts are left.
should_retry_any(ans, attempt, retries) == attempt < retries

should_retry_response(ans, attempt, retries) ==
    /\ ans.status = HTTP_TOO_MANY_REQUESTS \/ ans.status >= HTTP_INTERNAL_SERVER_ERROR
    /\ attempt < retries

calculate_delay(base_delay, attempt) == base_delay * 2^attempt

\* Retry-After as [kind, at]: the delay that it asks for, at most one.
parse_retry_after(after, now) ==
    CASE after.kind = "seconds" -> {after.at}
      [] after.kind = "date"    -> {IF after.at > now THEN after.at - now ELSE 0}
      [] OTHER                  -> {}

resolve_retry_delay(ans, base_delay, attempt, now) ==
    LET backoff == calculate_delay(base_delay, attempt)
        asked   == parse_retry_after(ans.after, now)
        longest == CHOOSE d \in asked \cup {backoff} : \A e \in asked \cup {backoff} : d >= e
    IN  IF asked = {} THEN backoff
        ELSE IF longest > MAX_RETRY_DELAY_SECONDS THEN MAX_RETRY_DELAY_SECONDS ELSE longest

check_no_redirect(ans) == ans.status \notin 300..399

is_success(ans) == ans.status \in 200..299

\* A nonce that is offered counts only with 400 or 401 and use_dpop_nonce in the
\* JSON body or in WWW-Authenticate.
extract_dpop_nonce(ans) ==
    /\ ans.nonce # "absent"
    /\ ans.status \in {400, 401}
    /\ ans.nonce \in {"body", "www-authenticate"}

-----------------------------------------------------------------------------
\* Errors.  Whatever is raised after the preparation ends in the handle function
\* of the endpoint, which tells network errors from the rest.

Network == "network"
Unexpected == "unexpected"

Classified(e) == IF e = "RequestError" THEN Network ELSE Unexpected

handle_token_error(e) == Classified(e)
handle_auth_code_token_error(e) == Classified(e)
handle_refresh_token_error(e) == Classified(e)
handle_introspection_error(e) == Classified(e)
handle_revocation_error(e) == Classified(e)
handle_par_error(e) == Classified(e)
handle_device_auth_error(e) == Classified(e)
handle_device_token_error(e) == Classified(e)
handle_registration_error(e) == Classified(e)
handle_client_delete_error(e) == Classified(e)
handle_userinfo_error(e) == Classified(e)
handle_token_exchange_error(e) == IF e = "ValueError" THEN "validation" ELSE Classified(e)

-----------------------------------------------------------------------------
\* Answers.  A body is an "object" with every member the endpoint must return,
\* a "partial" one, the error object of a device poll ("polling"), a "list", an
\* empty list ("[]"), a "jwt" of media type application/jwt, or other "text".

Json(ans) == ans.body \notin {"text", "jwt"}
IsDict(ans) == ans.body \in {"object", "partial", "polling"}

Outcome(cond) == IF cond THEN Success ELSE Failure

\* response.json() raises, and so does a method of dict on another value.
OnJson(ans, res) == IF Json(ans) THEN res ELSE Unexpected
OnDict(ans, res) == IF IsDict(ans) THEN res ELSE Unexpected
OnSuccess(ans, res) == IF is_success(ans) THEN res ELSE Failure

parse_token_response(ans) == OnSuccess(ans, OnJson(ans, Success))

\* The log line reads members of a token that is not empty: a list raises, an
\* empty list does not.
log_token_success(ans, res) ==
    IF res = Success /\ ans.body # "[]" THEN OnDict(ans, res) ELSE res

process_token_response(ans) == log_token_success(ans, parse_token_response(ans))

parse_auth_code_token_response(ans) == OnSuccess(ans, OnJson(ans, Success))
process_auth_code_token_response(ans) == parse_auth_code_token_response(ans)

parse_refresh_token_response(ans) == OnSuccess(ans, OnJson(ans, Success))
process_refresh_token_response(ans) == parse_refresh_token_response(ans)

parse_introspection_response(ans) == OnSuccess(ans, OnJson(ans, Outcome(IsDict(ans))))
process_introspection_response(ans) == parse_introspection_response(ans)

\* Mutant: the status is not looked at.
process_revocation_response_blind(ans) == Success

process_revocation_response(ans) == Outcome(is_success(ans))

process_par_response(ans) ==
    OnSuccess(ans, IF Json(ans) THEN OnDict(ans, Outcome(ans.body = "object")) ELSE Failure)

process_token_exchange_response(ans) == Outcome(is_success(ans) /\ ans.body = "object")

process_device_auth_response(ans) == Outcome(is_success(ans) /\ ans.body = "object")

_parse_success_response(ans) == Outcome(IsDict(ans))

\* "poll": a failure whose error_code is one of _POLLING_ERROR_CODES and tells
\* the application to go on or to stop.
_parse_error_response(ans) == IF ans.body = "polling" THEN "poll" ELSE Failure

process_device_token_response(ans) ==
    IF is_success(ans) THEN _parse_success_response(ans) ELSE _parse_error_response(ans)

parse_userinfo_response(ans) ==
    OnSuccess(ans, IF ans.body = "jwt" THEN Success ELSE OnJson(ans, Success))

process_userinfo_response(ans) == parse_userinfo_response(ans)

\* A signed answer is handed on unchecked.  An "object" names the subject sub.
validate_userinfo_sub(res, ans, expected_sub) ==
    IF expected_sub = None \/ res # Success \/ ans.body = "jwt" THEN res
    ELSE OnDict(ans, Outcome(ans.body = "object" /\ expected_sub = "sub"))

_parse_registration_success(ans) ==
    IF Json(ans) THEN OnDict(ans, Outcome(ans.body = "object")) ELSE Failure

_registration_error(ans) == Failure

process_registration_response(ans) ==
    IF is_success(ans) THEN _parse_registration_success(ans) ELSE _registration_error(ans)

process_read_response(ans) ==
    IF is_success(ans) THEN _parse_registration_success(ans) ELSE _registration_error(ans)

process_update_response(ans) ==
    IF is_success(ans) THEN _parse_registration_success(ans) ELSE _registration_error(ans)

process_delete_response(ans) == Outcome(is_success(ans))
============================================================================
