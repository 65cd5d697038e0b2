---------------------------- MODULE Conformance ----------------------------
(***************************************************************************)
(* The two relying parties of the conformance harness: conformance/app.py, *)
(* whose handlers run in a thread pool and share module globals, and       *)
(* conformance/app_fastapi.py, whose handlers are coroutines that drive    *)
(* the library's router through one HTTP client per flow.  The runner      *)
(* gives a request up after 30 seconds and starts the next test while the  *)
(* handler still works, so requests of several flows overlap.              *)
(*                                                                         *)
(* A flow is named by its state value, which is also its nonce, its PKCE   *)
(* verifier and its code.  plan says what the runner asks for in each flow *)
(* and the one point, if any, in which the provider misbehaves there.      *)
(***************************************************************************)
EXTENDS AuthzLogic

CONSTANTS
    Flows,      \* the flows that the runner starts
    Slots,      \* requests that are served at one time
    Plans,      \* the plans to check
    Deliveries, \* times that one callback URL is opened
    Logouts     \* fresh states of /logout, a sequence

\* A flow is asked for with an issuer and a client id, either of /authorize or of
\* /discover; app_fastapi.py knows no FAPI profile.  States are not empty, and the
\* fresh ones of /logout are nobody else's.
ASSUME PlansAssumption ==
    /\ {"", None} \cap Flows = {}
    /\ Members(Logouts) \cap ({"", None} \cup Flows) = {}
    /\ \A p \in Plans : \A f \in Flows :
         /\ p.flows[f].op \in {"authorize", "discover"}
         /\ p.harness # "app" => p.flows[f].mode = "plain"
         /\ None \notin {p.flows[f].issuer, p.flows[f].client_id}
         /\ p.flows[f].fault = [at |-> p.flows[f].fault.at, what |-> p.flows[f].fault.what]

VARIABLES
    plan,
    sessions,        \* keys of the dict sessions (app) or flows (app_fastapi)
    session,         \* the AuthSession or FlowSession of a flow
    lastFlow,        \* _last_flow_context, as the flow it describes
    lastLogout,      \* _last_logout_context
    expected,        \* _expected_logout_state
    registered,      \* _registered_client
    request_objects,
    test_results,
    req,             \* the requests being served
    begun,           \* runner: flows it has registered or started
    provider,        \* flows it was asked for, codes it has redeemed
    history,         \* callbacks opened, codes sent, what was turned away or thrown away
    clients          \* app_fastapi: open HTTP clients

rp == <<sessions, session, lastFlow, lastLogout, expected, registered, request_objects,
        test_results, clients>>
harnessVars == <<plan, rp, req, begun, provider, history>>

spec == plan.flows
App == plan.harness = "app"

NoReq == [op |-> "idle", flow |-> "", at |-> "", secret |-> FALSE, left |-> {}]
Vacant(r) == req[r] = NoReq
At(r, op, at) == req[r].op = op /\ req[r].at = at
Go(r, at) == req' = [req EXCEPT ![r].at = at]
Done(r) == req' = [req EXCEPT ![r] = NoReq]

NoSession == [status |-> "none", secret |-> FALSE, code |-> "", ends |-> FALSE]

HarnessInit ==
    /\ plan \in Plans
    /\ sessions = {} /\ session = [f \in Flows |-> NoSession]
    /\ lastFlow = "" /\ lastLogout = "" /\ expected = None /\ registered = ""
    /\ request_objects = {} /\ test_results = <<>>
    /\ req = [r \in Slots |-> NoReq]
    /\ begun = [registered |-> {}, started |-> {}, logouts |-> 0, told |-> 0]
    /\ provider = [asked |-> {}, redeemed |-> {}]
    /\ history = [opened |-> [f \in Flows |-> 0], sent |-> [f \in Flows |-> 0], turned |-> {}, cleared |-> {}]
    /\ clients = {}

-----------------------------------------------------------------------------
(* The provider.  A fault is [at, what]; what it answers differs from the  *)
(* genuine answer in that point only.                                      *)

Faulty(f, at, what) == spec[f].fault = [at |-> at, what |-> what]

Fapi(f) == spec[f].mode \in {"fapi2", "jarm", "mtls"}

AllEndpoints == {"authorization_endpoint", "token_endpoint", "userinfo_endpoint",
                 "registration_endpoint", "end_session_endpoint",
                 "pushed_authorization_request_endpoint"}

Disco(f, at) ==
    [st |-> CASE Faulty(f, at, "down") -> "network"
              [] Faulty(f, at, "no issuer") \/ Faulty(f, at, "number body") -> "other"
              [] OTHER -> "ok",
     issuer |-> CASE Faulty(f, at, "no issuer") -> None
                  [] Faulty(f, at, "issuer")    -> "other"
                  [] OTHER                      -> spec[f].issuer,
     jwks_uri |-> TRUE,
     endpoints |-> {e \in AllEndpoints : ~Faulty(f, at, e)},
     aliases |-> IF spec[f].mode = "mtls" THEN {"token_endpoint", "userinfo_endpoint"} ELSE {},
     signing_algs |-> {"ES256"}]

JwkOf(iss, kid, kty) == [kid |-> kid, kty |-> kty, alg |-> None, use |-> None,
                         mat |-> <<iss, kty>>, form |-> "dict"]
Keys(iss) == [st |-> "ok", keys |-> <<JwkOf(iss, "k1", "RSA"), JwkOf(iss, "k2", "EC")>>]

\* The keys do not change, so that a refresh, made or forbidden, changes nothing.
Env(f) == [address |-> TRUE, disco |-> Disco(f, "callback"),
           jwks |-> Keys(spec[f].issuer), jwks2 |-> Keys(spec[f].issuer), jwks3 |-> Keys(spec[f].issuer),
           attempt |-> [miss |-> TRUE, retry |-> TRUE]]

\* A token for flow f that the provider signs with the key for alg.
Signed(f, alg) ==
    [wf |-> TRUE, alg |-> alg, kid |-> IF alg = "ES256" THEN "k2" ELSE "k1",
     mat |-> <<spec[f].issuer, KtyOf(alg)>>, iss |-> spec[f].issuer, aud |-> {spec[f].client_id},
     exp |-> 20, sub |-> "user", nonce |-> None, azp |-> None, sid |-> None, jti |-> FALSE,
     events |-> None, claims |-> <<>>]

Spoilt(tok, what) ==
    CASE what = "malformed"    -> [tok EXCEPT !.wf = FALSE]
      [] what = "signature"    -> [tok EXCEPT !.mat = <<"other", "RSA">>]
      [] what = "iss"          -> [tok EXCEPT !.iss = "other"]
      [] what = "aud"          -> [tok EXCEPT !.aud = {"other"}]
      [] what = "two auds"     -> [tok EXCEPT !.aud = @ \cup {"other"}]
      [] what = "expired"      -> [tok EXCEPT !.exp = 5]
      [] what = "no exp"       -> [tok EXCEPT !.exp = Never]
      [] what = "no sub"       -> [tok EXCEPT !.sub = None]
      [] what = "wrong nonce"  -> [tok EXCEPT !.nonce = "zz"]
      [] what = "alg"          -> [tok EXCEPT !.alg = "RS256", !.kid = "k1", !.mat = <<@[1], "RSA">>]
      [] what = "alg none"     -> [tok EXCEPT !.alg = "none"]
      [] OTHER                 -> tok

WhatAt(f, at) == IF spec[f].fault.at = at THEN spec[f].fault.what ELSE "nothing"

IdToken(f) ==
    Spoilt([Signed(f, IF Fapi(f) THEN "ES256" ELSE "RS256") EXCEPT !.nonce = f], WhatAt(f, "token"))

LogoutToken(f) ==
    Spoilt([Signed(f, "RS256") EXCEPT !.jti = TRUE, !.events = "backchannel-logout"],
           WhatAt(f, "logout"))

\* The answer of the authorization endpoint, and the state that it carries.
StateOf(f) ==
    CASE Faulty(f, "response", "unknown state") -> "zz"
      [] Faulty(f, "response", "other state")   -> CHOOSE g \in Flows : g # f
      [] OTHER                                  -> f

Params(f) ==
    LET drop == CASE Faulty(f, "response", "no state") -> {"state"}
                  [] Faulty(f, "response", "no code")  -> {"code"}
                  [] Faulty(f, "response", "no iss")   -> {"iss"}
                  [] OTHER                             -> {}
        all  == [state |-> StateOf(f), code |-> f, error |-> "access_denied",
                 iss |-> IF Faulty(f, "response", "issuer") THEN "other" ELSE spec[f].issuer]
    IN  Restrict(all, IF Faulty(f, "response", "error") THEN {"state", "error", "iss"}
                      ELSE {"state", "code", "iss"} \ drop)

JarmToken(f) ==
    Spoilt([Signed(f, "ES256") EXCEPT
              !.claims = IF Faulty(f, "response", "empty") THEN <<>> ELSE Params(f)],
           WhatAt(f, "response"))

CallbackUri(f) ==
    LET jwt == IF Faulty(f, "response", "blank") THEN <<>> ELSE <<JarmToken(f)>>
    IN  [blank |-> FALSE, scheme |-> "https", fragment |-> <<>>,
         query |-> IF spec[f].mode # "jarm" THEN [p \in DOMAIN Params(f) |-> <<Params(f)[p]>>]
                   ELSE [response |-> IF Faulty(f, "response", "repeated") THEN <<jwt, jwt>>
                                      ELSE <<jwt>>]]

\* The token endpoint redeems code c once, for the client and the verifier that
\* the flow began with.
Redeems(c, s, verifier) ==
    /\ c \notin provider.redeemed
    /\ spec[c].client_id = spec[s].client_id
    /\ verifier => c = s
    /\ spec[s].dyn => session[s].secret
    /\ ~Faulty(c, "token", "refused")

-----------------------------------------------------------------------------
(* Results                                                                 *)

\* Mutant: the session's result is set and the table is not.
ForgetTestResult(f, status) ==
    /\ session' = [session EXCEPT ![f].status = status]
    /\ UNCHANGED test_results

\* The table of results once flow f is entered under its test.
Entered(f) ==
    IF spec[f].test = "" THEN test_results
    ELSE [t \in DOMAIN test_results \cup {spec[f].test} |->
            IF t = spec[f].test THEN f ELSE test_results[t]]

\* The status goes to the session, which the table holds under its test.
_store_test_result(f, status) ==
    /\ session' = [session EXCEPT ![f].status = status]
    /\ test_results' = Entered(f)

\* An error response of a handler that works for flow f.
_record_error(r, f) == _store_test_result(f, "error") /\ Done(r)

Refuse(r, f) ==
    /\ _record_error(r, f)
    /\ UNCHANGED <<plan, sessions, lastFlow, lastLogout, expected, registered, request_objects,
                   clients, begun, provider, history>>

\* A response, or an exception that nobody catches, with nothing recorded.
Drop(r) == Done(r) /\ UNCHANGED <<plan, rp, begun, provider, history>>

Advance(r, at) == Go(r, at) /\ UNCHANGED <<plan, rp, begun, provider, history>>

-----------------------------------------------------------------------------
(* app.py: /discover, /register and /authorize                             *)

Serve(r, op, f, at) ==
    req' = [req EXCEPT ![r] = [NoReq EXCEPT !.op = op, !.flow = f, !.at = at,
                                            !.secret = registered = spec[f].client_id]]

Starts(r, f) ==
    /\ Vacant(r) /\ f \notin begun.started
    /\ spec[f].dyn => f \in begun.registered
    /\ begun' = [begun EXCEPT !.started = @ \cup {f}]

\* The handler up to the discovery request.  The secret of a dynamic client is
\* read before it.
StartAuthorize(r, f) ==
    /\ App /\ Starts(r, f)
    /\ IF parse_discovery_url(spec[f].issuer) # "ok"
       THEN _store_test_result(f, "error") /\ UNCHANGED req
       ELSE Serve(r, spec[f].op, f, "discovery") /\ UNCHANGED <<session, test_results>>
    /\ UNCHANGED <<plan, sessions, lastFlow, lastLogout, expected, registered, request_objects,
                   provider, history, clients>>

BadDisco(f, at) ==
    LET d == Disco(f, at)
    IN  FirstErr(<<validate_disco_response(d), Check(d.issuer # None, "missing_issuer"),
                   Check(d.issuer = spec[f].issuer, "issuer_mismatch")>>) # "ok"

\* get_discovery_document itself raises on a document that is not an object.
Raises(f, at) == Faulty(f, at, "number body")

\* /discover compares the issuer with nothing; a document without one is a failure
\* of get_discovery_document (validate_required_parameters).
discover(r) ==
    /\ At(r, "discover", "discovery")
    /\ LET f == req[r].flow
       IN  IF Raises(f, "authorize") THEN Drop(r)
           ELSE IF Disco(f, "authorize").st # "ok" THEN Refuse(r, f)
           ELSE /\ _store_test_result(f, "success")
                /\ Done(r)
                /\ UNCHANGED <<plan, sessions, lastFlow, lastLogout, expected, registered,
                               request_objects, clients, begun, provider, history>>

Registers(f) ==
    /\ parse_discovery_url(spec[f].issuer) = "ok"
    /\ Disco(f, "register").st = "ok"
    /\ "registration_endpoint" \in Disco(f, "register").endpoints
    /\ ~Faulty(f, "register", "refused")

\* /register: the client it is given replaces the one before.  A refusal, or an
\* exception, leaves that one in place, and the runner without a client for the flow.
register(r, f) ==
    /\ App /\ Vacant(r) /\ spec[f].dyn /\ f \notin begun.registered
    /\ IF Registers(f)
       THEN /\ begun' = [begun EXCEPT !.registered = @ \cup {f}]
            /\ registered' = spec[f].client_id
            /\ UNCHANGED history
       ELSE /\ history' = [history EXCEPT !.turned = @ \cup {<<f, "", "register">>}]
            /\ UNCHANGED <<begun, registered>>
    /\ UNCHANGED <<plan, sessions, session, lastFlow, lastLogout, expected, request_objects,
                   test_results, clients, req, provider>>

\* The request that reaches the provider; a challenge names its verifier.
AuthRequest(f) ==
    [client_id |-> spec[f].client_id, audience |-> spec[f].issuer,
     challenge |-> IF spec[f].pkce THEN f ELSE None, method |-> IF spec[f].pkce THEN "S256" ELSE None]

\* The session is stored and the flow becomes the last one; the response sends
\* the browser to the provider, which takes a request object from the RP first.
StoreSession(r, f) ==
    /\ sessions' = sessions \cup {f}
    /\ session' = [session EXCEPT ![f] = [NoSession EXCEPT !.secret = req[r].secret]]
    /\ lastFlow' = f
    /\ request_objects' = IF spec[f].uri THEN request_objects \cup {f} ELSE request_objects
    /\ provider' = IF spec[f].uri THEN provider ELSE [provider EXCEPT !.asked = @ \cup {f}]
    /\ Done(r)
    /\ UNCHANGED <<plan, lastLogout, expected, registered, test_results, begun, history, clients>>

authorize(r) ==
    /\ At(r, "authorize", "discovery")
    /\ LET f   == req[r].flow
           d   == Disco(f, "authorize")
           par == IF spec[f].mode = "mtls"
                  THEN resolve_mtls_endpoint(d, "pushed_authorization_request_endpoint") # None
                  ELSE "pushed_authorization_request_endpoint" \in d.endpoints
           url == IF spec[f].uri THEN create_request_object("RS256", 300, AuthRequest(f)).err
                  ELSE build_authorization_url("endpoint", AuthRequest(f))
       IN  IF Raises(f, "authorize") THEN Drop(r)
           ELSE IF BadDisco(f, "authorize") THEN Refuse(r, f)
           ELSE IF Fapi(f) /\ ~par THEN Refuse(r, f)
           ELSE IF "authorization_endpoint" \notin d.endpoints THEN Drop(r)
           ELSE IF Fapi(f) THEN Advance(r, "par")
           ELSE IF generate_pkce_pair("S256", 128) # "ok" \/ url # "ok" THEN Drop(r)
           ELSE StoreSession(r, f)

\* The pushed authorization request.
_authorize_fapi2(r) ==
    /\ At(r, "authorize", "par")
    /\ LET f == req[r].flow
       IN  IF Faulty(f, "authorize", "par refused") THEN Refuse(r, f) ELSE StoreSession(r, f)

\* The provider fetches the request object that the redirect names.
request_object(f) ==
    /\ f \in request_objects \ provider.asked
    /\ create_request_object("RS256", 300, AuthRequest(f)).aud = spec[f].issuer
    /\ provider' = [provider EXCEPT !.asked = @ \cup {f}]
    /\ UNCHANGED <<plan, rp, req, begun, history>>

-----------------------------------------------------------------------------
(* app.py: /callback                                                       *)

\* What _parse_callback makes of the callback of flow f.  A JARM response is
\* read with the issuer and client of the flow that was started last.
_parse_callback(f) ==
    LET uri == CallbackUri(f)
        ctx == [address |-> lastFlow # "", issuer |-> <<>>, jwks |-> <<>>, algorithms |-> <<>>]
    IN  IF ~is_jarm_response(uri) THEN parse_authorize_callback_response(uri)
        ELSE IF lastFlow = "" THEN NoResponse
        ELSE process_jarm_response(uri, spec[lastFlow].client_id, ctx, Env(lastFlow), 0)

\* The fields of a callback that parsed: they do not depend on who read it.
Answer(f) == [err |-> "ok", ok |-> "error" \notin DOMAIN Params(f), fields |-> Params(f)]

\* The browser opens the callback URL of flow f, possibly again.
Opens(r, f) ==
    /\ Vacant(r)
    /\ f \in provider.asked
    /\ history.opened[f] < Deliveries

StartCallback(r, f) ==
    /\ App /\ Opens(r, f)
    /\ LET parsed == _parse_callback(f).err = "ok"
       IN  /\ history' = [history EXCEPT !.opened[f] = @ + 1,
                                         !.turned = IF parsed THEN @ ELSE @ \cup {<<f, lastFlow>>}]
           /\ IF parsed THEN Serve(r, "callback", f, "lookup") ELSE UNCHANGED req
    /\ UNCHANGED <<plan, rp, begun, provider>>

\* state in sessions
FindSession(r) ==
    /\ At(r, "callback", "lookup")
    /\ IF FieldOf(Answer(req[r].flow), "state") \in sessions THEN Advance(r, "pop") ELSE Drop(r)

\* The flow whose session the handler of r took.
Taken(r) == FieldOf(Answer(req[r].flow), "state")

\* Mutant: sessions[state] in place of sessions.pop(state).
TakeKeep(s) == sessions

Take(s) == sessions \ {s}

\* sessions.pop, which raises KeyError if another thread was faster; then the
\* state and the provider's own error.
PopSession(r) ==
    /\ At(r, "callback", "pop")
    /\ IF Taken(r) \notin sessions THEN Drop(r)
       ELSE /\ sessions' = Take(Taken(r))
            /\ IF validate_authorize_callback_state(Answer(req[r].flow), Taken(r)) = "ok"
               THEN Go(r, "discovery") /\ UNCHANGED <<session, test_results>>
               ELSE _record_error(r, Taken(r))
            /\ UNCHANGED <<plan, lastFlow, lastLogout, expected, registered, request_objects,
                           clients, begun, provider, history>>

\* _fetch_and_validate_discovery, then the iss of the response, which the FAPI
\* flows demand, and the two values that the exchange needs.
_validate_fapi2_callback_issuer(f, s) ==
    Fapi(s) => validate_authorize_callback_issuer(Answer(f), Disco(s, "callback").issuer, TRUE) = "ok"

_fetch_and_validate_discovery(r) ==
    /\ At(r, "callback", "discovery")
    /\ LET s == Taken(r)
           f == req[r].flow
       IN  IF Raises(s, "callback") THEN Drop(r)
           ELSE IF \/ BadDisco(s, "callback")
                   \/ ~_validate_fapi2_callback_issuer(f, s)
                   \/ "token_endpoint" \notin Disco(s, "callback").endpoints
                   \/ FieldOf(Answer(f), "code") = None
           THEN Refuse(r, s) ELSE Advance(r, "exchange")

\* The credentials of the token request; the provider knows the client by them.
_build_auth_code_token_request(s) ==
    [auth |-> CASE spec[s].mode = "mtls" -> "certificate"
                [] Fapi(s)               -> "private_key_jwt"
                [] session[s].secret     -> "secret"
                [] OTHER                 -> None,
     endpoint |-> IF spec[s].mode = "mtls" THEN resolve_mtls_endpoint(Disco(s, "callback"), "token_endpoint")
                  ELSE "plain",
     verifier |-> Fapi(s) \/ spec[s].pkce]

\* request_authorization_code_token, answered.  token_data.get raises if the token
\* answer is JSON but not an object.
Exchange(r) ==
    /\ At(r, "callback", "exchange")
    /\ LET s == Taken(r)
           c == req[r].flow
           t == _build_auth_code_token_request(s)
       IN  /\ history' = [history EXCEPT !.sent[s] = @ + 1]
           /\ IF Redeems(c, s, t.verifier) /\ t.endpoint # None
              THEN /\ provider' = [provider EXCEPT !.redeemed = @ \cup {c}]
                   /\ IF Faulty(c, "token", "no data") THEN _record_error(r, s)
                      ELSE /\ IF Faulty(c, "token", "no object") THEN Done(r) ELSE Go(r, "validate")
                           /\ UNCHANGED <<session, test_results>>
              ELSE _record_error(r, s) /\ UNCHANGED provider
           /\ UNCHANGED <<plan, sessions, lastFlow, lastLogout, expected, registered,
                          request_objects, clients, begun>>

\* Mutant: the profile of FAPI for every flow.
IdTokenParamsFapi(s) == [require |-> {"sub", "exp", "aud"}, algorithms |-> <<"PS256", "ES256", "EdDSA">>]

_id_token_validation_params(s) ==
    [require |-> IF Fapi(s) THEN {"sub", "exp", "aud"} ELSE {"sub"},
     algorithms |-> IF Fapi(s) THEN <<"PS256", "ES256", "EdDSA">> ELSE <<>>]

Required(tok, require) ==
    Check(/\ "sub" \in require => tok.sub # None
          /\ "exp" \in require => tok.exp # Never
          /\ "aud" \in require => tok.aud # {}, "TokenValidation")

ValidationConfig(client_id, issuer, algorithms) ==
    [perform_disco |-> TRUE, audience |-> client_id, issuer |-> {issuer}, algorithms |-> algorithms,
     options |-> None, leeway |-> 0, validator |-> None, subject |-> None, key |-> <<>>,
     allowed |-> NoIssuer]

IdTokenErr(c, s) ==
    LET p == _id_token_validation_params(s)
    IN  FirstErr(<<validate_token_sync(IdToken(c),
                      ValidationConfig(spec[s].client_id, spec[s].issuer, p.algorithms), Env(s)),
                   Required(IdToken(c), p.require)>>)

\* Mutant: the nonce is not compared.
NonceAny(tok, s) == TRUE

NonceMatches(tok, s) == tok.nonce = s

_validate_fapi2_audience(tok, s) == Fapi(s) => tok.aud = {spec[s].client_id}

\* The ID token is validated if there is one.  Only a TokenValidationException
\* is turned into a result.
ValidateIdToken(r) ==
    /\ At(r, "callback", "validate")
    /\ LET s   == Taken(r)
           c   == req[r].flow
           err == IdTokenErr(c, s)
           no  == Faulty(c, "token", "no id_token")
       IN  IF no \/ (err = "ok" /\ NonceMatches(IdToken(c), s) /\ _validate_fapi2_audience(IdToken(c), s))
           THEN Advance(r, "userinfo")
           ELSE IF err \in {"ok"} \cup TokenValidationErrors THEN Refuse(r, s)
           ELSE Drop(r)

\* Fetched unless the flow skips it.  An exception of the library is a note in
\* the result, a failure or another subject an error.  What is not an object fails
\* like another subject: where the ID token's is compared with it.
_fetch_userinfo(c, s) ==
    \/ spec[s].skip
    \/ "userinfo_endpoint" \notin Disco(s, "callback").endpoints
    \/ ~(\/ Faulty(c, "userinfo", "down") \/ Faulty(c, "token", "access_token")
         \/ /\ Faulty(c, "userinfo", "sub") \/ Faulty(c, "userinfo", "no object")
            /\ ~Faulty(c, "token", "no id_token"))

\* A DPoP proof needs the hash of the access token, which compute_ath refuses to make
\* of one that is not ASCII; for the endpoint or for _fetch_fapi2_resource.
Unhashable(c, s) == Fapi(s) /\ spec[s].mode # "mtls" /\ Faulty(c, "token", "access_token")

\* The end of _handle_callback; _fetch_fapi2_resource leaves nothing behind.
FinishCallback(r) ==
    /\ At(r, "callback", "userinfo")
    /\ LET s == Taken(r)
           c == req[r].flow
       IN  IF Unhashable(c, s) THEN Drop(r)
           ELSE IF ~_fetch_userinfo(c, s) THEN Refuse(r, s)
           ELSE /\ session' = [session EXCEPT ![s].status = "success",
                     ![s].code = IF Faulty(c, "token", "no id_token") THEN "" ELSE c,
                     ![s].ends = "end_session_endpoint" \in Disco(s, "callback").endpoints]
                /\ test_results' = Entered(s)
                /\ lastLogout' = s
                /\ Done(r)
                /\ UNCHANGED <<plan, sessions, lastFlow, expected, registered, request_objects,
                               clients, begun, provider, history>>

-----------------------------------------------------------------------------
(* app.py: logout                                                          *)

\* The logout token of flow f is checked against the flow that was started last.
_receive_backchannel_logout(f) ==
    /\ App /\ f \in provider.asked /\ begun.told < plan.tell /\ lastFlow # ""
    /\ begun' = [begun EXCEPT !.told = @ + 1]
    /\ LET c   == lastFlow
           err == validate_logout_token_sync(LogoutToken(f),
                     ValidationConfig(spec[c].client_id, spec[c].issuer, <<>>), Env(c))
       IN  history' = IF err = "ok" THEN history
                      ELSE [history EXCEPT !.turned = @ \cup {<<f, c, "logout">>}]
    /\ UNCHANGED <<plan, rp, req, provider>>

\* The state is fresh, or None when the test sends none.
logout(send) ==
    /\ App /\ plan.tell > 0 /\ begun.logouts < Len(Logouts)
    /\ lastLogout # "" /\ session[lastLogout].ends
    /\ LET state == IF send THEN Logouts[begun.logouts + 1] ELSE None
       IN  /\ build_end_session_url("endpoint", session[lastLogout].code, spec[lastLogout].client_id,
                                    state).err = "ok"
           /\ expected' = state
    /\ begun' = [begun EXCEPT !.logouts = @ + 1]
    /\ UNCHANGED <<plan, sessions, session, lastFlow, lastLogout, registered, request_objects,
                   test_results, clients, req, provider, history>>

\* The browser comes back with some state of an earlier /logout, or none.
post_logout_callback(state) ==
    /\ App /\ begun.logouts > 0
    /\ state \in {None} \cup {Logouts[i] : i \in 1..begun.logouts}
    /\ history' = IF validate_post_logout_state(expected, state) = "ok" THEN history
                  ELSE [history EXCEPT !.turned = @ \cup {<<state, expected>>}]
    /\ UNCHANGED <<plan, rp, req, begun, provider>>

-----------------------------------------------------------------------------
(* app_fastapi.py.  The router itself is the subject of RpLogin.           *)

\* A client for the flow's own application is made; /login is awaited.
StartLogin(r, f) ==
    /\ ~App /\ Starts(r, f)
    /\ IF parse_discovery_url(spec[f].issuer) # "ok"
       THEN _store_test_result(f, "error") /\ UNCHANGED <<req, clients>>
       ELSE /\ Serve(r, spec[f].op, f, "login")
            /\ clients' = clients \cup {f}
            /\ UNCHANGED <<session, test_results>>
    /\ UNCHANGED <<plan, sessions, lastFlow, lastLogout, expected, registered, request_objects,
                   provider, history>>

LoginRefused(f) ==
    BadDisco(f, "authorize") \/ "authorization_endpoint" \notin Disco(f, "authorize").endpoints

\* A handler records how it ended and closes the flow's client.
Close(r, f, status) ==
    /\ _store_test_result(f, status)
    /\ Go(r, "close")
    /\ UNCHANGED <<plan, sessions, lastFlow, lastLogout, expected, registered, request_objects,
                   clients, begun, provider, history>>

\* Mutant: the error response leaves without aclose().
LoginLeft(r, f) == Refuse(r, f)

LoginFailed(r, f) == Close(r, f, "error")

\* /login answered; an exception of the router comes through the client, and
\* only /discover closes the client in a finally.
Login(r) ==
    /\ req[r].op \in {"authorize", "discover"} /\ req[r].at = "login"
    /\ LET f == req[r].flow
       IN  IF Raises(f, "authorize")
           THEN IF req[r].op = "discover" THEN Advance(r, "close") ELSE Drop(r)
           ELSE IF LoginRefused(f) THEN LoginFailed(r, f)
           ELSE IF req[r].op = "discover" THEN Close(r, f, "success")
           ELSE /\ sessions' = sessions \cup {f}
                /\ provider' = [provider EXCEPT !.asked = @ \cup {f}]
                /\ Done(r)
                /\ UNCHANGED <<plan, session, lastFlow, lastLogout, expected, registered,
                               request_objects, test_results, clients, begun, history>>

\* The callback up to the first await: flows.pop(state, None).
_pop_flow(r, f) ==
    /\ ~App /\ Opens(r, f)
    /\ LET s == FieldOf(Answer(f), "state")
       IN  IF s \in sessions
           THEN sessions' = Take(s) /\ Serve(r, "callback", f, "router")
           ELSE UNCHANGED <<sessions, req>>
    /\ history' = [history EXCEPT !.opened[f] = @ + 1]
    /\ UNCHANGED <<plan, session, lastFlow, lastLogout, expected, registered, request_objects,
                   test_results, clients, begun, provider>>

\* The router's verdict on the answer of flow c in the session of flow s.
RouterErr(c, s) ==
    FirstErr(<<validate_authorize_callback_state(Answer(c), s),
               Check(FieldOf(Answer(c), "code") # None, "HTTPException"),
               Check(~BadDisco(s, "callback"), "HTTPException"),
               Check("token_endpoint" \in Disco(s, "callback").endpoints, "HTTPException")>>)

RouterIdTokenErr(c, s) ==
    FirstErr(<<Check(~Faulty(c, "token", "no id_token"), "IdToken"),
               validate_token_aio(IdToken(c),
                  ValidationConfig(spec[s].client_id, spec[s].issuer, <<>>), Env(s)),
               Required(IdToken(c), {"sub", "exp"}),
               Check(NonceMatches(IdToken(c), s), "IdToken"),
               Check(spec[s].skip \/ ~Faulty(c, "userinfo", "no object"), "AttributeError"),
               Check(spec[s].skip \/ ~Faulty(c, "userinfo", "sub"), "IdToken")>>)

\* client.get("/callback"): the code goes out if the response is acceptable.
\* What the router raises passes to the finally clause.
Callback(r) ==
    /\ At(r, "callback", "router")
    /\ LET s    == Taken(r)
           c    == req[r].flow
           sent == RouterErr(c, s) = "ok"
           got  == sent /\ Redeems(c, s, TRUE)
           err  == IF ~got \/ Faulty(c, "token", "no data") THEN "HTTPException"
                   ELSE IF Faulty(c, "token", "no object") THEN "AttributeError"
                   ELSE RouterIdTokenErr(c, s)
       IN  IF Raises(s, "callback") THEN Advance(r, "close")
           ELSE /\ history' = IF sent THEN [history EXCEPT !.sent[s] = @ + 1] ELSE history
                /\ provider' = IF got THEN [provider EXCEPT !.redeemed = @ \cup {c}] ELSE provider
                /\ IF err = "ok" THEN Go(r, "session") /\ UNCHANGED <<session, test_results>>
                   ELSE IF err \in {"HTTPException"} \cup Typed
                   THEN _store_test_result(s, "error") /\ Go(r, "close")
                   ELSE Go(r, "close") /\ UNCHANGED <<session, test_results>>
                /\ UNCHANGED <<plan, sessions, lastFlow, lastLogout, expected, registered,
                               request_objects, clients, begun>>

\* client.get("/session")
_finish_callback(r) ==
    /\ At(r, "callback", "session")
    /\ LET s == Taken(r)
       IN  /\ session' = [session EXCEPT ![s].status = "success", ![s].code = req[r].flow]
           /\ test_results' = Entered(s)
    /\ Go(r, "close")
    /\ UNCHANGED <<plan, sessions, lastFlow, lastLogout, expected, registered, request_objects,
                   clients, begun, provider, history>>

\* await client.aclose()
CloseClient(r) ==
    /\ req[r].at = "close"
    /\ clients' = clients \ {IF req[r].op = "callback" THEN Taken(r) ELSE req[r].flow}
    /\ Done(r)
    /\ UNCHANGED <<plan, sessions, session, lastFlow, lastLogout, expected, registered,
                   request_objects, test_results, begun, provider, history>>

\* /clear-cache: the flows that it saw at first are popped one after the other,
\* each client closed; a flow that a callback popped meanwhile is a KeyError.
StartClear(r) ==
    /\ ~App /\ Vacant(r) /\ sessions # {}
    /\ \A q \in Slots : req[q].op # "clear"
    /\ req' = [req EXCEPT ![r] = [NoReq EXCEPT !.op = "clear", !.left = sessions]]
    /\ UNCHANGED <<plan, rp, begun, provider, history>>

clear_cache(r) ==
    /\ req[r].op = "clear"
    /\ IF req[r].left = {} THEN Drop(r)
       ELSE \E s \in req[r].left :
              IF s \notin sessions THEN Drop(r)
              ELSE /\ sessions' = sessions \ {s}
                   /\ clients' = clients \ {s}
                   /\ req' = [req EXCEPT ![r].left = @ \ {s}]
                   /\ history' = [history EXCEPT !.cleared = @ \cup {s}]
                   /\ UNCHANGED <<plan, session, lastFlow, lastLogout, expected, registered,
                                  request_objects, test_results, begun, provider>>

-----------------------------------------------------------------------------
HarnessNext ==
    \/ \E r \in Slots, f \in Flows :
         \/ StartAuthorize(r, f) \/ register(r, f) \/ StartCallback(r, f)
         \/ StartLogin(r, f) \/ _pop_flow(r, f)
    \/ \E r \in Slots :
         \/ discover(r) \/ authorize(r) \/ _authorize_fapi2(r)
         \/ FindSession(r) \/ PopSession(r) \/ _fetch_and_validate_discovery(r) \/ Exchange(r)
         \/ ValidateIdToken(r) \/ FinishCallback(r)
         \/ Login(r) \/ Callback(r) \/ _finish_callback(r) \/ CloseClient(r)
         \/ StartClear(r) \/ clear_cache(r)
    \/ \E f \in Flows : request_object(f) \/ _receive_backchannel_logout(f)
    \/ \E send \in BOOLEAN : logout(send)
    \/ \E state \in {None} \cup Members(Logouts) : post_logout_callback(state)

HarnessSpec == HarnessInit /\ [][HarnessNext]_harnessVars

-----------------------------------------------------------------------------
(* Properties                                                              *)

\* The handler of a request holds the session of flow s.
Holds(r, s) ==
    /\ req[r].op = "callback" /\ req[r].at \notin {"lookup", "pop"}
    /\ Taken(r) = s

Ended(s) ==
    /\ s \in begun.started \ sessions
    /\ s \in provider.asked
    /\ \A r \in Slots : ~Holds(r, s) /\ (req[r].op = "authorize" => req[r].flow # s)

\* However often, and however concurrently, the callbacks of a flow arrive, its
\* session sends at most one authorization code to the token endpoint: the thread
\* that loses the race for sessions.pop fails before it gets that far.
FlowOnce == \A s \in Flows : history.sent[s] <= 1

\* A login that succeeds with an ID token succeeds with the token of its own
\* flow: signed by the flow's issuer for its client and carrying its nonce; and in
\* a FAPI flow for that client alone, after a response that names the issuer.
OwnLogin ==
    \A s \in Flows : session[s].status = "success" /\ session[s].code # "" =>
        LET c   == session[s].code
            tok == IdToken(c)
        IN  /\ tok.mat[1] = spec[s].issuer /\ tok.iss = spec[s].issuer /\ tok.nonce = s
            /\ spec[s].client_id \in tok.aud
            /\ Fapi(s) => tok.aud = {spec[s].client_id} /\ FieldOf(Answer(c), "iss") = spec[s].issuer

\* The exceptions that a callback handler lets through: get_discovery_document raises
\* on a document that is not an object, PyJWT on an ID token that is none,
\* token_data.get on a token answer that is not an object, claims.get of the router on
\* such a UserInfo answer, and compute_ath on an access token that is not ASCII.
Uncaught(s) ==
    \/ Raises(s, "callback")
    \/ \E c \in Flows : /\ StateOf(c) = s
                        /\ \/ Faulty(c, "token", "malformed") \/ Faulty(c, "token", "no object")
                           \/ ~App /\ Faulty(c, "userinfo", "no object")
                           \/ Unhashable(c, s)

\* The runner is never left without a verdict, except by these exceptions and by
\* /clear-cache: once a flow that it gave a test id has been popped and its handler is
\* done, the test has a result, of this or of a later flow of the same test.  A flow
\* that ends in one of the exceptions has no result: its session was popped before
\* (_handle_callback, _pop_flow).  The keys of the provider are well formed here.
Reported ==
    \A s \in Flows \ history.cleared : Ended(s) /\ spec[s].test # "" /\ ~Uncaught(s) =>
        /\ spec[s].test \in DOMAIN test_results
        /\ session[test_results[spec[s].test]].status \in {"success", "error"}
        /\ spec[test_results[spec[s].test]].test = spec[s].test

\* A provider that behaves is accepted.  A genuine callback ends in success; it is
\* not turned away by the parser, except that JARM is read in the context of the
\* flow started last; nor is a genuine logout token of that flow (of an earlier one it
\* is), nor the state of the last /logout, unless that sent none: the round trip
\* without a state is always turned away, although the docstring of logout says
\* that the check then expects none.  A dynamic client must still be the one
\* registered last when its flow starts.
Honest(s) ==
    /\ spec[s].fault.at = "none"
    /\ \A c \in Flows \ {s} : StateOf(c) # s
    /\ spec[s].dyn /\ App => session[s].secret

SameContext(f, g) == spec[f].issuer = spec[g].issuer /\ spec[f].client_id = spec[g].client_id

GenuineAccepted ==
    /\ \A s \in Flows \ history.cleared : Ended(s) /\ Honest(s) => session[s].status = "success"
    /\ \A f, g \in Flows : SameContext(f, g) /\ spec[f].fault.at = "none" /\ spec[g].fault.at = "none" =>
         <<f, g>> \notin history.turned /\ <<f, g, "logout">> \notin history.turned
    /\ \A state \in {None} \cup Members(Logouts) : <<state, state>> \in history.turned => state = None

\* app_fastapi closes what it opens: an open client belongs to a flow that waits
\* for its callback, to a request being served, or to a /login that raised.
ClientsAccounted ==
    /\ \A f \in clients : \/ f \in sessions
                          \/ \E r \in Slots : req[r].flow = f \/ Holds(r, f)
                          \/ Raises(f, "authorize")
    /\ ~App => sessions \subseteq clients
=============================================================================
