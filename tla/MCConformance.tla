--------------------------- MODULE MCConformance ---------------------------
(* Instance of Conformance: two flows whose requests overlap.  The second flow *)
(* is well served; in the first the provider may be at fault in one point.     *)
EXTENDS Conformance

NoFault == [at |-> "none", what |-> ""]

Plain == [op |-> "authorize", mode |-> "plain", issuer |-> "op1", client_id |-> "c1", test |-> "t1",
          pkce |-> FALSE, uri |-> FALSE, skip |-> FALSE, dyn |-> FALSE, fault |-> NoFault]
Pkce == [Plain EXCEPT !.pkce = TRUE]
Jar == [Pkce EXCEPT !.uri = TRUE, !.skip = TRUE]
Of(mode) == [Pkce EXCEPT !.mode = mode]
Dyn(id) == [Plain EXCEPT !.dyn = TRUE, !.client_id = id]

At_(at, whats) == {[at |-> at, what |-> w] : w \in whats}
DiscoFaults(at) == At_(at, {"down", "no issuer", "issuer", "number body"})
TokenFaults == At_("token", {"refused", "no data", "no id_token", "malformed", "signature", "iss", "aud",
                             "two auds", "expired", "no exp", "no sub", "wrong nonce", "alg",
                             "no object", "access_token"})
UserFaults == At_("userinfo", {"down", "sub", "no object"})
ResponseFaults == At_("response", {"unknown state", "other state", "no state", "no code", "no iss",
                                   "error", "issuer"})
JarmFaults == At_("response", {"empty", "blank", "repeated", "malformed", "signature", "iss", "aud",
                               "expired", "no exp", "alg", "alg none", "error", "other state"})
Begin == DiscoFaults("authorize") \cup
         At_("authorize", {"authorization_endpoint", "pushed_authorization_request_endpoint", "par refused"})
Common == {NoFault} \cup Begin \cup DiscoFaults("callback") \cup At_("callback", {"token_endpoint"})
          \cup TokenFaults \cup UserFaults

With(s, faults) == {[s EXCEPT !.fault = x] : x \in faults}

Second == [Plain EXCEPT !.test = "t2"]

Plan(harness, s1, s2, tell) == [harness |-> harness, flows |-> [f1 |-> s1, f2 |-> s2], tell |-> tell]

AppPlans ==
    LET firsts == With(Plain, Common \cup ResponseFaults) \cup With(Of("fapi2"), Common \cup ResponseFaults)
                  \cup With(Of("jarm"), Common \cup JarmFaults)
                  \cup With(Of("mtls"), {NoFault} \cup Begin) \cup With(Jar, {NoFault} \cup UserFaults)
    IN  {Plan("app", s, Second, 0) : s \in firsts}

\* Two flows of one test, of two providers, of dynamic clients, with logouts.
Pairs ==
    {Plan("app", Plain, [Plain EXCEPT !.pkce = TRUE], 1),
     Plan("app", Of("jarm"), [Of("jarm") EXCEPT !.issuer = "op2", !.test = "t2"], 0),
     Plan("app", Of("jarm"), [Of("jarm") EXCEPT !.test = "t2"], 0),
     Plan("app", Dyn("d1"), [Dyn("d2") EXCEPT !.test = "t2"], 0),
     Plan("app", Plain, [Plain EXCEPT !.op = "discover"], 1),
     Plan("app", Plain, [Second EXCEPT !.issuer = Unparsable], 1)}
    \cup {Plan("app", s, [Dyn("d2") EXCEPT !.test = "t2"], 0) : s \in With(Dyn("d1"),
             DiscoFaults("register") \cup At_("register", {"registration_endpoint", "refused"}))}
    \cup {Plan("app", Second, s, 0) : s \in With([Plain EXCEPT !.op = "discover"], {NoFault} \cup DiscoFaults("authorize"))}
    \cup {Plan("app", s, [Second EXCEPT !.op = "discover"], 1) : s \in With(Plain, At_("logout", {"malformed", "aud", "expired"}))}

FastapiPlans ==
    {Plan("fastapi", s, [Second EXCEPT !.pkce = TRUE], 0) : s \in With(Pkce, Common \cup ResponseFaults)}
    \cup {Plan("fastapi", [s EXCEPT !.op = "discover"], Second, 0) : s \in With(Pkce, {NoFault} \cup Begin)}

MCPlans == AppPlans \cup Pairs \cup FastapiPlans

MCLogouts == <<"l1", "l2">>
=============================================================================
