------------------------------ MODULE RpLogin ------------------------------
(***************************************************************************)
(* The login router of fastapi_identity_model (rp.py): /login, /callback   *)
(* and /logout over the cookie session of Starlette's SessionMiddleware,   *)
(* the browsers that send those requests and the provider between them.    *)
(*                                                                         *)
(* The session lives in the cookie: a request works on the copy it was     *)
(* sent with, and its response replaces the cookie by that copy.  So two   *)
(* requests of one browser see each other's changes only if the response   *)
(* of the one arrives before the other is sent.                            *)
(*                                                                         *)
(* A flow is the state, the nonce and the verifier of one _login, all of   *)
(* them fresh; they are one number here.                                   *)
(***************************************************************************)
EXTENDS Integers, FiniteSets

CONSTANTS
    Browsers,      \* user agents
    Requests,      \* requests in progress
    MaxFlows,      \* bound on the number of logins
    Subjects,      \* users of the provider
    Hasty,         \* browsers that send a request before the last one is answered,
                   \* or lose responses; the others wait for every response
    Faulty,        \* flows in which the provider fails, or answers with wrong tokens
    fetch_userinfo,\* option of build_oidc_router
    NoBrowser,     \* the browser of no request
    NoSub          \* nobody

ASSUME RpAssumption ==
    /\ MaxFlows \in Nat
    /\ Hasty \subseteq Browsers /\ Faulty \subseteq 1..MaxFlows
    /\ fetch_userinfo \in BOOLEAN
    /\ NoSub \notin Subjects /\ NoBrowser \notin Browsers

VARIABLES
    cookie,   \* the session in each browser's cookie
    begun,    \* number of flows begun
    owner,    \* the browser that began a flow
    atOp,     \* flows whose user is at the provider
    subject,  \* provider: who authenticated in a flow
    code,     \* provider: state of the code of a flow
    urls,     \* callback URLs that browsers were redirected to
    pc, req,  \* per request
    checked,  \* history: callbacks that passed the checks with a flow, 2 for more
    died,     \* history: flows of which a callback ended in an unhandled exception
    cutoff    \* history: begun when the browser last got a logout response

provider == <<atOp, subject, code>>
history == <<checked, died, cutoff>>
vars == <<cookie, begun, owner, provider, urls, pc, req, history>>

-----------------------------------------------------------------------------
(* Values                                                                  *)

Flows == 1..MaxFlows
NoFlow == 0

\* session[session_key.flow], and of session[session_key] the sub, the sub of the
\* userinfo, and a history of the flow that established it.
Sessions == [flow : Flows \cup {NoFlow}, who : Subjects \cup {NoSub},
             info : Subjects \cup {NoSub}, from : Flows \cup {NoFlow}]
Empty == [flow |-> NoFlow, who |-> NoSub, info |-> NoSub, from |-> NoFlow]

\* An authorization response: state and code of a flow, or an error.
Urls == [flow : Flows, ok : BOOLEAN]
NoUrl == [flow |-> NoFlow, ok |-> FALSE]

\* The ID token of a token response: the flow whose nonce it carries, and whether
\* its signature and claims are good; NoToken is a response without one.
Tokens == [nonce : Flows, valid : BOOLEAN]
NoToken == [nonce |-> NoFlow, valid |-> FALSE]

Kinds == {"none", "login", "callback", "logout"}
Labels == {"idle", "login", "logout", "check", "discover", "exchange", "validate",
           "userinfo", "respond"}

\* sent: the session the request came with; session: the one it works on; goes: the
\* flow of the redirect to the provider.
Reqs == [browser : Browsers \cup {NoBrowser}, kind : Kinds, sent : Sessions, session : Sessions,
         url : Urls \cup {NoUrl}, flow : Flows \cup {NoFlow},
         token : Tokens \cup {NoToken}, goes : Flows \cup {NoFlow}]

NoReq == [browser |-> NoBrowser, kind |-> "none", sent |-> Empty,
          session |-> Empty, url |-> NoUrl, flow |-> NoFlow, token |-> NoToken,
          goes |-> NoFlow]

GoTo(r, l) == pc' = [pc EXCEPT ![r] = l]

Works(r, s) == req' = [req EXCEPT ![r] = [@ EXCEPT !.session = s]]

\* An HTTPException: the response still carries the session as it is now.  Any other
\* exception is an action of its own, Raise.
Fail(r) == GoTo(r, "respond")

-----------------------------------------------------------------------------
(* The browser                                                             *)

MaySend(b) == b \in Hasty \/ \A r \in Requests : pc[r] = "idle" \/ req[r].browser # b

Send(r, b, kind, url, l) ==
    /\ pc[r] = "idle"
    /\ MaySend(b)
    /\ req' = [req EXCEPT ![r] = [NoReq EXCEPT !.browser = b, !.kind = kind, !.url = url,
            !.sent = cookie[b], !.session = cookie[b]]]
    /\ GoTo(r, l)
    /\ UNCHANGED <<cookie, begun, owner, provider, urls, history>>

SendLogin(r, b) == begun < MaxFlows /\ Send(r, b, "login", NoUrl, "login")

SendLogout(r, b) == Send(r, b, "logout", NoUrl, "logout")

\* Following the redirect, reloading, going back, or opening the link elsewhere.
SendCallback(r, b, url) == url \in urls /\ Send(r, b, "callback", url, "check")

\* SessionMiddleware: the cookie is replaced, or removed if the session was emptied.
Arrive(r) ==
    LET b == req[r].browser
    IN  /\ pc[r] = "respond"
        /\ cookie' = IF req[r].session = Empty /\ req[r].sent = Empty THEN cookie
                     ELSE [cookie EXCEPT ![b] = req[r].session]
        /\ atOp' = IF req[r].goes = NoFlow THEN atOp ELSE atOp \cup {req[r].goes}
        /\ cutoff' = IF req[r].kind = "logout" THEN [cutoff EXCEPT ![b] = begun] ELSE cutoff
        /\ GoTo(r, "idle")
        /\ req' = [req EXCEPT ![r] = NoReq]
        /\ UNCHANGED <<begun, owner, subject, code, urls, checked, died>>

Lose(r) ==
    /\ pc[r] = "respond"
    /\ req[r].browser \in Hasty
    /\ GoTo(r, "idle")
    /\ req' = [req EXCEPT ![r] = NoReq]
    /\ UNCHANGED <<cookie, begun, owner, provider, urls, history>>

-----------------------------------------------------------------------------
(* /login and /logout                                                      *)

\* _login: a fresh flow replaces the one in the session.
_login(r) ==
    /\ pc[r] = "login"
    /\ begun < MaxFlows
    /\ begun' = begun + 1
    /\ owner' = [owner EXCEPT ![begun + 1] = req[r].browser]
    /\ req' = [req EXCEPT ![r] = [@ EXCEPT !.goes = begun + 1,
            !.session = [req[r].session EXCEPT !.flow = begun + 1]]]
    /\ GoTo(r, "respond")
    /\ UNCHANGED <<cookie, provider, urls, history>>

\* _discover raises 502; so does a login beyond the bound of the model.
LoginFails(r) ==
    /\ pc[r] = "login"
    /\ begun = MaxFlows \/ begun + 1 \in Faulty
    /\ Fail(r)
    /\ UNCHANGED <<cookie, begun, owner, provider, urls, req, history>>

\* Mutant: the flow survives the logout.
logoutKeepsFlow(r) ==
    /\ pc[r] = "logout"
    /\ Works(r, [Empty EXCEPT !.flow = req[r].session.flow])
    /\ GoTo(r, "respond")
    /\ UNCHANGED <<cookie, begun, owner, provider, urls, history>>

\* logout: both entries are popped.
logout(r) ==
    /\ pc[r] = "logout"
    /\ Works(r, Empty)
    /\ GoTo(r, "respond")
    /\ UNCHANGED <<cookie, begun, owner, provider, urls, history>>

-----------------------------------------------------------------------------
(* /callback                                                               *)

\* The provider is at fault in the flow that r completes.
Fault(r) == req[r].flow \in Faulty

\* Mutant: the flow is read and not popped.
PopNot(s) == s

Pop(s) == [s EXCEPT !.flow = NoFlow]

\* validate_authorize_callback_state
StateMatches(r) == req[r].url.flow = req[r].session.flow

\* _callback up to the first await: pop the flow, then parse the response, look for
\* an error of the provider, compare the state.
Check(r) ==
    LET f == req[r].session.flow
        passes == f # NoFlow /\ req[r].url.ok /\ StateMatches(r)
    IN  /\ pc[r] = "check"
        /\ req' = [req EXCEPT ![r] = [@ EXCEPT !.session = Pop(req[r].session),
                    !.flow = IF passes THEN f ELSE NoFlow]]
        /\ checked' = IF passes THEN [checked EXCEPT ![f] = IF @ < 2 THEN @ + 1 ELSE @] ELSE checked
        /\ GoTo(r, IF passes THEN "discover" ELSE "respond")
        /\ UNCHANGED <<cookie, begun, owner, provider, urls, died, cutoff>>

\* _discover
Discover(r) ==
    /\ pc[r] = "discover"
    /\ GoTo(r, "exchange") \/ (Fault(r) /\ Fail(r))
    /\ UNCHANGED <<cookie, begun, owner, provider, urls, req, history>>

Got(r, t) ==
    /\ req' = [req EXCEPT ![r] = [@ EXCEPT !.token = t]]
    /\ GoTo(r, "validate")

\* The token endpoint: the code works once, with the verifier of its flow.
Accepts(r) == code[req[r].url.flow] = "fresh" /\ req[r].url.flow = req[r].flow

\* ID tokens that a faulty provider may answer with: of any user it authenticated.
WrongTokens == {t \in Tokens : subject[t.nonce] # NoSub}

\* _exchange_code: a token response; from a faulty provider, one that is lost after the code
\* was spent, has no ID token, or has one that is invalid or of another flow.
_exchange_code(r) ==
    /\ pc[r] = "exchange"
    /\ \/ /\ Accepts(r)
          /\ code' = [code EXCEPT ![req[r].url.flow] = "used"]
          /\ \/ Got(r, [nonce |-> req[r].url.flow, valid |-> TRUE])
             \/ Fault(r) /\ \E t \in WrongTokens \cup {NoToken} : Got(r, t)
             \/ Fault(r) /\ Fail(r) /\ UNCHANGED req
       \/ /\ ~Accepts(r) \/ Fault(r)
          /\ Fail(r)
          /\ UNCHANGED <<code, req>>
    /\ UNCHANGED <<cookie, begun, owner, atOp, subject, urls, history>>

\* Mutant: the nonce is not compared.
NonceIgnored(r) == TRUE

\* Mutant: the process honours only the login it began last.
NonceLatest(r) == req[r].token.nonce = req[r].flow /\ req[r].flow = begun

\* The nonce is bound to the flow of the session.
NonceMatches(r) == req[r].token.nonce = req[r].flow

\* An ID token, its validation, the nonce.
_validate_id_token(r) ==
    /\ pc[r] = "validate"
    /\ GoTo(r, IF req[r].token.valid /\ NonceMatches(r) THEN "userinfo" ELSE "respond")
    /\ UNCHANGED <<cookie, begun, owner, provider, urls, req, history>>

\* What is stored of the userinfo: its subject, or nothing.
Infos(r) ==
    (IF fetch_userinfo THEN {subject[req[r].token.nonce]} ELSE {NoSub})
        \cup (IF Fault(r) THEN {NoSub} ELSE {})

\* _fetch_userinfo: the answer, nothing if it is switched off or unavailable; the
\* subject of another user fails the login.  Then the identity is stored.
_fetch_userinfo(r) ==
    LET sub == subject[req[r].token.nonce]
    IN  /\ pc[r] = "userinfo"
        /\ \/ \E info \in Infos(r) :
                Works(r, [req[r].session EXCEPT !.who = sub, !.info = info,
                                                !.from = req[r].flow])
           \/ fetch_userinfo /\ Fault(r) /\ UNCHANGED req
        /\ GoTo(r, "respond")
        /\ UNCHANGED <<cookie, begun, owner, provider, urls, history>>

\* An exception that _callback does not turn into an HTTPException: the token
\* response or the userinfo is JSON but no object, or the ID token is no JWT (the
\* DecodeError is no PyIdentityModelException).  The answer is a 500 from outside
\* SessionMiddleware, so it sets no cookie and the popped flow stays in the browser.
Raise(r) ==
    /\ pc[r] \in {"validate", "userinfo"} /\ Fault(r)
    /\ pc[r] = "userinfo" => fetch_userinfo
    /\ died' = died \cup {req[r].flow}
    /\ GoTo(r, "idle")
    /\ req' = [req EXCEPT ![r] = NoReq]
    /\ UNCHANGED <<cookie, begun, owner, provider, urls, checked, cutoff>>

-----------------------------------------------------------------------------
(* The provider                                                            *)

\* The user authenticates, or the provider redirects with an error.
Authenticate(f, s) ==
    /\ f \in atOp
    /\ atOp' = atOp \ {f}
    /\ \/ /\ subject' = [subject EXCEPT ![f] = s]
          /\ code' = [code EXCEPT ![f] = "fresh"]
          /\ urls' = urls \cup {[flow |-> f, ok |-> TRUE]}
       \/ /\ urls' = urls \cup {[flow |-> f, ok |-> FALSE]}
          /\ UNCHANGED <<subject, code>>
    /\ UNCHANGED <<cookie, begun, owner, pc, req, history>>

-----------------------------------------------------------------------------

Init ==
    /\ cookie = [b \in Browsers |-> Empty]
    /\ begun = 0
    /\ owner = [f \in Flows |-> NoBrowser]
    /\ atOp = {}
    /\ subject = [f \in Flows |-> NoSub]
    /\ code = [f \in Flows |-> "none"]
    /\ urls = {}
    /\ pc = [r \in Requests |-> "idle"]
    /\ req = [r \in Requests |-> NoReq]
    /\ checked = [f \in Flows |-> 0]
    /\ died = {}
    /\ cutoff = [b \in Browsers |-> 0]

Handle(r) ==
    \/ _login(r) \/ LoginFails(r) \/ logout(r)
    \/ Check(r) \/ Discover(r) \/ _exchange_code(r) \/ _validate_id_token(r)
    \/ _fetch_userinfo(r)

Next ==
    \/ \E r \in Requests, b \in Browsers :
        \/ SendLogin(r, b) \/ SendLogout(r, b)
        \/ \E url \in urls : SendCallback(r, b, url)
    \/ \E r \in Requests : Handle(r) \/ Raise(r) \/ Arrive(r) \/ Lose(r)
    \/ \E f \in Flows, s \in Subjects : Authenticate(f, s)

Spec == Init /\ [][Next]_vars

-----------------------------------------------------------------------------
(* Properties                                                              *)

\* Types of the cookies, the provider and the requests; past the checks, a request
\* holds the verifier of the flow that its code was issued for.
TypeOK ==
    /\ cookie \in [Browsers -> Sessions]
    /\ begun \in 0..MaxFlows
    /\ owner \in [Flows -> Browsers \cup {NoBrowser}]
    /\ atOp \subseteq Flows
    /\ subject \in [Flows -> Subjects \cup {NoSub}]
    /\ code \in [Flows -> {"none", "fresh", "used"}]
    /\ urls \subseteq Urls
    /\ pc \in [Requests -> Labels]
    /\ req \in [Requests -> Reqs]
    /\ \A r \in Requests : pc[r] \in {"discover", "exchange", "validate", "userinfo"} =>
            req[r].flow # NoFlow /\ req[r].flow = req[r].url.flow

\* The identity in a cookie is that of the user who authenticated at the provider in
\* a flow that this very browser began, although links are opened in other browsers,
\* callbacks are repeated, tabs overlap and the provider answers with wrong tokens;
\* and the userinfo stored with it is of the same user.
OwnLogin ==
    \A b \in Browsers : cookie[b].from # NoFlow =>
        /\ owner[cookie[b].from] = b
        /\ cookie[b].who = subject[cookie[b].from] /\ cookie[b].who # NoSub
        /\ cookie[b].info \in {cookie[b].who, NoSub}

\* The comment of _callback: the flow is single-use, a failed or replayed callback
\* cannot reuse it.  This is what holds: a browser that waits for every response
\* passes the checks at most once with a flow, unless a callback of that flow ended in
\* an exception that rp.py does not catch, whose answer leaves the flow in the cookie.
FlowSpent ==
    \A f \in Flows : owner[f] \in Browsers \ Hasty => checked[f] <= 1 \/ f \in died

\* In such a browser the response to a logout ends every login that was under way:
\* a later identity is of a flow begun after it.
LogoutFinal ==
    \A b \in Browsers \ Hasty : cookie[b].from # NoFlow => cookie[b].from > cutoff[b]

\* In such a browser, and in a flow that the provider answers, the callback that
\* carries the state of the session's flow is accepted: no earlier request of this
\* or another browser has spent its code.
GenuineAccepted ==
    \A r \in Requests :
        (/\ pc[r] = "respond" /\ req[r].kind = "callback"
         /\ req[r].browser \notin Hasty
         /\ req[r].url.ok /\ req[r].url.flow = req[r].sent.flow
         /\ req[r].url.flow \notin Faulty)
        => /\ req[r].session.from = req[r].url.flow
           /\ req[r].session.who = subject[req[r].url.flow]
=============================================================================
