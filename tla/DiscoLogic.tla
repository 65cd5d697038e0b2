----------------------------- MODULE DiscoLogic -----------------------------
(***************************************************************************)
(* What the Python library decides about a discovery document and a JWKS   *)
(* document: the discovery policy (core/discovery_policy.py), the          *)
(* validators (core/validators.py), the parsers                            *)
(* (core/response_processors.py), the error classes                        *)
(* (core/error_handlers.py), and the environment and lifetime rules of the *)
(* caches (core/jwks_cache.py).                                            *)
(*                                                                         *)
(* A URL is [scheme, host, extra]: extra says that it has a query or a     *)
(* fragment.  NoUrl is an absent or empty one.  An endpoint of a document  *)
(* is a URL; the first endpoint is the jwks_uri.                           *)
(***************************************************************************)
EXTENDS JwtLogic, Integers

Url(scheme, host) == [scheme |-> scheme, host |-> host, extra |-> FALSE]
NoUrl == Url("", "")

_get_url_authority(url) == <<url.scheme, url.host>>

\* The class of an IP literal, "name" for any other host.  inet_aton also reads
\* the short and numeric forms ("127.1"), which is_loopback does not.
_parse_ip_literal(host) ==
    CASE host \in {"127.0.0.1", "127.1", "::1"} -> "loopback"
      [] host \in {"10.0.0.1", "169.254.169.254"} -> "internal"
      [] host = "192.0.2.1" -> "public"
      [] OTHER -> "name"

is_loopback(host) == host \in {"localhost", "127.0.0.1", "::1"}

-----------------------------------------------------------------------------
\* core/discovery_policy.py

\* The fields of DiscoveryPolicy; authority and the additional base addresses
\* are URLs.
DiscoveryPolicy ==
    [require_https |-> TRUE, allow_http_on_loopback |-> TRUE, validate_issuer |-> TRUE,
     validate_endpoints |-> TRUE, require_key_set |-> TRUE, additional |-> <<>>,
     authority |-> NoUrl, allow_loopback_endpoints |-> FALSE]

\* Mutant: the key before the other fields became injectable.
cache_key_https_only(policy) == <<policy.require_https>>

cache_key(policy) ==
    <<policy.require_https, policy.allow_http_on_loopback, policy.validate_issuer,
      policy.validate_endpoints, policy.require_key_set, policy.additional,
      policy.authority, policy.allow_loopback_endpoints>>

\* policy is a sequence of at most one.
resolve_discovery_policy(policy, require_https) ==
    IF policy # <<>> THEN policy[1] ELSE [DiscoveryPolicy EXCEPT !.require_https = require_https]

PlainHttpAllowed(url, policy) ==
    \/ ~policy.require_https
    \/ url.scheme = "https"
    \/ url.scheme = "http" /\ policy.allow_http_on_loopback /\ is_loopback(url.host)

validate_url_scheme(url, policy) ==
    FirstErr(<<Check(url # NoUrl /\ url.scheme \in {"http", "https"}, "Configuration"),
               Check(PlainHttpAllowed(url, policy), "HTTPSRequired")>>)

-----------------------------------------------------------------------------
\* core/validators.py

validate_issuer(issuer, require_https) ==
    FirstErr(<<Check(issuer # NoUrl, "Configuration"),
               IF require_https THEN Check(issuer.scheme = "https", "HTTPSRequired")
               ELSE Check(issuer.scheme \in {"http", "https"}, "Configuration"),
               Check(~issuer.extra /\ issuer.host # "", "Configuration")>>)

validate_issuer_with_policy(issuer, policy) ==
    IF policy.validate_issuer
    THEN validate_issuer(issuer, /\ policy.require_https
                                 /\ ~(/\ policy.allow_http_on_loopback
                                      /\ issuer.scheme = "http" /\ is_loopback(issuer.host)))
    ELSE Check(issuer # NoUrl, "Configuration")

validate_https_url_with_policy(url, policy) ==
    IF ~policy.validate_endpoints \/ url = NoUrl THEN "ok"
    ELSE FirstErr(<<Check(url.host # "" /\ url.scheme \in {"http", "https"}, "Configuration"),
                    Check(PlainHttpAllowed(url, policy), "HTTPSRequired")>>)

\* A JSON array or string has no parameter at all; "in" raises for a number.
validate_required_parameters(doc) ==
    FirstErr(<<Check(doc.body # "number", "TypeError"),
               Check(doc.body = "object" /\ doc.missing = {}, "MissingFields")>>)

_validate_subject_types(subject_types) ==
    Check(subject_types \subseteq {"public", "pairwise"}, "Discovery")

\* A response type is the set of its components; "none" stands alone.
_validate_response_type(response_type) ==
    Check(response_type = {"none"} \/ response_type \subseteq {"code", "id_token", "token"},
          "Discovery")

validate_parameter_values(doc) ==
    FirstErr(<<_validate_subject_types(doc.subject_types),
               Check(\A t \in doc.response_types : _validate_response_type(t) = "ok", "Discovery")>>)

-----------------------------------------------------------------------------
\* core/response_processors.py: discovery.

_reject_internal_ip_host(url, policy) ==
    LET kind == _parse_ip_literal(url.host)
    IN  Check(\/ kind \in {"name", "public"}
              \/ kind = "loopback" /\ policy.allow_loopback_endpoints, "Discovery")

\* The authority of the policy or else of the issuer, that of the address the
\* document came from, and the additional ones.
_validate_endpoint_authority(url, issuer, policy, discovery_url) ==
    LET main    == IF policy.authority # NoUrl THEN policy.authority ELSE issuer
        allowed == {_get_url_authority(u) : u \in {main, discovery_url} \cup Members(policy.additional)}
                     \ {_get_url_authority(NoUrl)}
    IN  Check(_get_url_authority(url) \in allowed, "Discovery")

EndpointOk(url, doc, policy, discovery_url) ==
    FirstErr(<<validate_https_url_with_policy(url, policy),
               IF url # NoUrl /\ policy.validate_endpoints
               THEN _validate_endpoint_authority(url, doc.issuer, policy, discovery_url)
               ELSE "ok">>)

AliasOk(url, policy) ==
    FirstErr(<<validate_https_url_with_policy(url, policy),
               IF url = NoUrl THEN "ok" ELSE _reject_internal_ip_host(url, policy)>>)

validate_and_parse_discovery_response(doc, policy, discovery_url) ==
    FirstErr(<<Check(doc.ctype = "application/json", "Discovery"),
               Check(doc.body # "text", "Parse"),
               validate_required_parameters(doc),
               validate_issuer_with_policy(doc.issuer, policy),
               validate_parameter_values(doc),
               Check(policy.require_key_set => doc.endpoints[1] # NoUrl, "MissingFields")>>
             \o [i \in DOMAIN doc.endpoints |-> EndpointOk(doc.endpoints[i], doc, policy, discovery_url)]
             \o [i \in DOMAIN doc.aliases |-> AliasOk(doc.aliases[i], policy)])

-----------------------------------------------------------------------------
\* DiscoveryDocumentResponse: the document, if there is one, and otherwise the
\* DiscoveryErrorKind.

NoHeader == [store |-> TRUE, max_age |-> -1]

DiscoFailed(kind) == [ok |-> FALSE, doc |-> <<>>, cache_control |-> NoHeader, kind |-> kind]

\* Exception classes to kinds: HTTPSRequired is a Configuration error, Parse and
\* MissingFields are Discovery errors.
handle_discovery_error(e) ==
    DiscoFailed(CASE e = "HTTPSRequired" -> "HTTPS_REQUIRED"
                  [] e = "Configuration" -> "INVALID_CONFIGURATION"
                  [] e = "MissingFields" -> "MISSING_FIELDS"
                  [] e = "Parse"         -> "INVALID_JSON"
                  [] e = "Discovery"     -> "INVALID_DOCUMENT"
                  [] e = "RequestError"  -> "NETWORK_ERROR"
                  [] OTHER               -> "UNEXPECTED_ERROR")

handle_unsuccessful_response == DiscoFailed("UNEXPECTED_STATUS")

build_discovery_response(doc) ==
    [ok |-> TRUE, doc |-> <<doc>>, cache_control |-> doc.cache_control, kind |-> None]

process_discovery_response(doc, policy, discovery_url) ==
    LET err == validate_and_parse_discovery_response(doc, policy, discovery_url)
    IN  IF doc.status # 200 THEN handle_unsuccessful_response
        ELSE IF err = "ok" THEN build_discovery_response(doc)
        ELSE handle_discovery_error(err)

-----------------------------------------------------------------------------
\* core/response_processors.py: JWKS.  A raw key is [dict, mistyped, key]:
\* whether it is a JSON object and has a member of the wrong type.

\* JsonWebKey.__post_init__; complete says that a key has the parameters of its
\* key type.
JsonWebKey(raw) ==
    Check(/\ raw.kty # None
          /\ raw.kty \in {"EC", "RSA", "oct"} => raw.complete
          /\ raw.use \in {None, "sig", "enc", "https://use"}
          /\ raw.use = None \/ raw.key_ops = None
          /\ raw.key_ops # "unknown", "Configuration")

_extract_jwks_keys(doc, max_keys) ==
    Check(/\ doc.body = "object" /\ doc.has_keys /\ Len(doc.keys) <= max_keys
          /\ \A i \in DOMAIN doc.keys : doc.keys[i].dict, "unusable")

\* The usable keys, each at its position in the document.
_build_jwks_keys(keys) ==
    [i \in {j \in DOMAIN keys : ~keys[j].mistyped /\ JsonWebKey(keys[j].key) = "ok"} |-> keys[i].key]

handle_jwks_error(e) ==
    [st |-> IF e = "RequestError" THEN "network" ELSE "other", keys |-> <<>>]

JwksFailed == [st |-> "other", keys |-> <<>>]

\* A malformed Content-Length counts as absent; the body is measured as well.
parse_jwks_response(doc, max_size, max_keys) ==
    LET usable == _build_jwks_keys(doc.keys)
    IN  IF \/ doc.status # 200
           \/ doc.length.given /\ doc.length.value > max_size
           \/ doc.size > max_size
           \/ doc.ctype \notin {"application/json", "application/jwk-set+json"}
        THEN JwksFailed
        ELSE IF doc.body = "text" THEN handle_jwks_error("JSONDecodeError")
        ELSE IF _extract_jwks_keys(doc, max_keys) # "ok" \/ (doc.keys # <<>> /\ DOMAIN usable = {})
        THEN JwksFailed
        ELSE [st |-> "ok", keys |-> usable]

-----------------------------------------------------------------------------
\* core/jwks_cache.py: environment and lifetimes.  A raw environment value is
\* [kind, value]: unset, not a number, not finite, or a number.

Clamped(value, min_value, max_value) ==
    IF value < min_value THEN min_value ELSE IF value > max_value THEN max_value ELSE value

_safe_env_float(raw, default, min_value, max_value) ==
    IF raw.kind # "number" THEN default ELSE Clamped(raw.value, min_value, max_value)

get_max_cache_entries(raw, default) ==
    IF raw.kind # "number" \/ raw.value < 1 THEN default ELSE raw.value

\* Cache-Control: [store, max_age]; store is FALSE for no-store and no-cache, and
\* a max_age of -1 stands for none.
is_uncacheable(cache_control) == ~cache_control.store

parse_max_age(cache_control) == cache_control.max_age

resolve_disco_ttl(cache_control, env_ttl, min_ttl, max_ttl) ==
    IF parse_max_age(cache_control) >= 0
    THEN Clamped(parse_max_age(cache_control), min_ttl, max_ttl) ELSE env_ttl
=============================================================================
