------------------------------ MODULE MCPyClient ------------------------------
(* Instance of PyClient: one caller that makes every kind of call, one that    *)
(* shares the async client with it, and a task that closes that client.        *)
EXTENDS PyClient

CONSTANTS c1, c2, k1

NoKey == [complete |-> TRUE, algorithm |-> "PS256", kid |-> "kid", lifetime |-> 300]
Auth(kind, config) == [kind |-> kind, config |-> config]
NoProof == [key |-> FALSE, algorithm |-> "ES256", absolute |-> TRUE, token |-> "token"]

Plain == [auth |-> Auth("secret", NoKey), dpop |-> NoProof, params |-> TRUE, sub |-> None,
          fields |-> [client_id |-> "mine", redirect_uris |-> "mine"],
          extra |-> [redirect_uris |-> "extra"], managed |-> FALSE, now |-> 100]

\* One deviation each, where it matters.
Deviations(op) ==
    (IF op \in {"par", "exchange"} THEN {[Plain EXCEPT !.params = FALSE]} ELSE {})
    \cup (IF op = "userinfo" THEN {[Plain EXCEPT !.sub = "sub"], [Plain EXCEPT !.sub = "other"],
             [Plain EXCEPT !.dpop.key = TRUE, !.dpop.token = "non-ascii"]} ELSE {})
    \cup (IF op \in {"auth_code", "par", "userinfo"} THEN {[Plain EXCEPT !.dpop.key = TRUE]} ELSE {})
    \cup (IF op \in {"exchange", "delete"} THEN {[Plain EXCEPT !.managed = TRUE]} ELSE {})
    \cup (IF op = "revoke"
          THEN {[Plain EXCEPT !.auth.kind = "mtls"],
                [Plain EXCEPT !.auth.kind = "mtls", !.managed = TRUE],
                [Plain EXCEPT !.auth = Auth("private_key_jwt", NoKey)],
                [Plain EXCEPT !.auth = Auth("private_key_jwt", [NoKey EXCEPT !.lifetime = 10])]}
          ELSE {})

NoAfter == [kind |-> "absent", at |-> 0]
Ans(status, body) == [status |-> status, body |-> body, nonce |-> "absent", after |-> NoAfter]

\* Every kind of body where the answer of one caller is concerned; the 5xx answers
\* where they meet Retry-After, a nonce round, an owned or a managed client.
Bodies(op) == CASE op = "refresh" -> {"object"} [] op \in {"revoke", "delete"} -> {"text"}
                [] op = "userinfo" -> {"object", "[]", "jwt", "text"}
                [] OTHER -> {"object", "partial", "[]", "list", "text"}

MCAnswers ==
    [op \in Operations |->
       {Ans(200, b) : b \in Bodies(op)}
       \cup (IF op \in {"client_credentials", "auth_code", "revoke", "delete"}
             THEN {Ans(503, "text")} ELSE {})
       \cup (IF op = "device_token" THEN {Ans(400, "polling"), Ans(400, "text")} ELSE {})
       \cup (IF op = "introspect" THEN {Ans(302, "text")} ELSE {})
       \cup (IF op \in {"auth_code", "par", "userinfo"}
             THEN {[Ans(401, "object") EXCEPT !.nonce = "body"],
                   [Ans(401, "text") EXCEPT !.nonce = "offered"]} ELSE {})
       \cup (IF op = "client_credentials"
             THEN {[Ans(429, "text") EXCEPT !.after = [kind |-> "seconds", at |-> 999]],
                   [Ans(429, "text") EXCEPT !.after = [kind |-> "date", at |-> 90]]} ELSE {})]

MCRequests == [op \in Operations |-> {Plain} \cup Deviations(op)]

\* Every call of one thread; or two threads that share the async client.
MCWorkloads ==
    {(c1 :> [left |-> 1, ops |-> Operations]) @@ (c2 :> [left |-> 0, ops |-> {}]),
     (c1 :> [left |-> 1, ops |-> {"delete"}]) @@ (c2 :> [left |-> 1, ops |-> {"refresh"}])}
=============================================================================
