---------------------------- MODULE RpLogin_proofs ----------------------------
(***************************************************************************)
(* Proofs about RpLogin, for any number of browsers, concurrent requests,  *)
(* logins and users: whose identity a cookie holds, and what a browser     *)
(* that waits for its responses may rely on.                               *)
(***************************************************************************)
EXTENDS RpLogin, TLAPS

-----------------------------------------------------------------------------
(* The inductive invariant                                                 *)

Live(r) == pc[r] # "idle"
Past == {"discover", "exchange", "validate", "userinfo"}

HistoryOK ==
    /\ checked \in [Flows -> 0..2]
    /\ died \subseteq Faulty
    /\ cutoff \in [Browsers -> 0..MaxFlows]

\* A session of browser b: its flow is one that b began, and its identity is that of
\* the user who authenticated in a flow that b began.
SessionInv(s, b) ==
    /\ s.flow # NoFlow => owner[s.flow] = b
    /\ s.from # NoFlow => /\ owner[s.from] = b
                          /\ s.who = subject[s.from] /\ s.who # NoSub
                          /\ s.info \in {s.who, NoSub}

\* Flows not begun have left no trace; the provider authenticates nobody twice in one
\* flow; a code was issued only to an authenticated user, and spent only by a callback
\* that passed the checks.
FlowInv(f) ==
    /\ f > begun => /\ owner[f] = NoBrowser /\ checked[f] = 0
                    /\ subject[f] = NoSub /\ f \notin atOp
    /\ f \in atOp => subject[f] = NoSub
    /\ [flow |-> f, ok |-> TRUE] \in urls => subject[f] # NoSub /\ code[f] # "none"
    /\ code[f] = "used" => checked[f] >= 1

\* What a request knows: it works on a session of its browser, the redirect it carries
\* is the only one to the provider, and past the checks it completes a flow that its
\* browser began and somebody authenticated in.
RequestInv(r) ==
    LET q == req[r] IN
    /\ ~Live(r) => q.goes = NoFlow
    /\ Live(r) => q.browser \in Browsers /\ SessionInv(q.session, q.browser)
    /\ q.goes # NoFlow => /\ q.goes <= begun /\ q.goes \notin atOp /\ subject[q.goes] = NoSub
                          /\ \A o \in Requests \ {r} : req[o].goes # q.goes
    /\ pc[r] = "login" => q.kind = "login"
    /\ pc[r] = "logout" => q.kind = "logout"
    /\ pc[r] \in Past \cup {"check"} => q.kind = "callback" /\ q.url \in urls
    /\ pc[r] \in Past => /\ q.flow \in Flows /\ q.url = [flow |-> q.flow, ok |-> TRUE]
                         /\ owner[q.flow] = q.browser /\ checked[q.flow] >= 1
    /\ pc[r] = "userinfo" => q.token.nonce = q.flow

OwnInv ==
    /\ \A b \in Browsers : SessionInv(cookie[b], b)
    /\ \A f \in Flows : FlowInv(f)
    /\ \A r \in Requests : RequestInv(r)

\* A session of a browser that waits: nobody has passed the checks with its flow, or a
\* callback of it died, and both its flow and its identity are younger than the last
\* logout.
Unspent(s, b) ==
    /\ s.flow # NoFlow => (checked[s.flow] = 0 \/ s.flow \in died) /\ s.flow > cutoff[b]
    /\ s.from # NoFlow => s.from > cutoff[b]

Genuine(r) ==
    /\ req[r].kind = "callback"
    /\ req[r].url.ok /\ req[r].url.flow = req[r].sent.flow
    /\ req[r].url.flow \notin Faulty

\* A request of a browser that waits is its only one, so the cookie is still the one it
\* was sent with.
WaitingInv(r) ==
    LET q == req[r] IN
    /\ \A o \in Requests \ {r} : Live(o) => req[o].browser # q.browser
    /\ q.sent = cookie[q.browser]
    /\ Unspent(q.session, q.browser)
    /\ q.kind = "logout" => pc[r] = "logout" \/ (pc[r] = "respond" /\ q.session = Empty)
    /\ pc[r] = "check" => q.session = q.sent
    /\ pc[r] \in Past => q.flow > cutoff[q.browser] /\ q.flow = q.sent.flow
    /\ pc[r] \in {"discover", "exchange"} /\ q.flow \notin Faulty => code[q.flow] = "fresh"
    /\ Genuine(r) => /\ pc[r] = "validate" => q.token = [nonce |-> q.flow, valid |-> TRUE]
                     /\ pc[r] = "respond" => /\ q.session.from = q.url.flow
                                             /\ q.session.who = subject[q.url.flow]

IdleInv(b) ==
    /\ cutoff[b] <= begun
    /\ cookie[b].from # NoFlow => cookie[b].from > cutoff[b]
    /\ (\A r \in Requests : Live(r) => req[r].browser # b) => Unspent(cookie[b], b)

WaitInv ==
    /\ \A r \in Requests : Live(r) /\ req[r].browser \notin Hasty => WaitingInv(r)
    /\ \A b \in Browsers \ Hasty : IdleInv(b)
    /\ FlowSpent

-----------------------------------------------------------------------------
(* What the operators of the model do                                      *)

\* What the constants and the empty records are.
LEMMA Values ==
    /\ MaxFlows \in Nat /\ NoFlow \notin Flows /\ NoFlow = 0
    /\ \A f \in Flows : f \in Nat /\ f > 0 /\ f <= MaxFlows
    /\ Empty \in Sessions /\ Empty.flow = NoFlow /\ Empty.from = NoFlow
    /\ NoReq \in Reqs /\ NoReq.goes = NoFlow /\ NoReq.flow = NoFlow
  <1>1. MaxFlows \in Nat /\ NoFlow \notin Flows /\ NoFlow = 0
        /\ \A f \in Flows : f \in Nat /\ f > 0 /\ f <= MaxFlows
    BY RpAssumption DEF NoFlow, Flows
  <1>2. Empty \in Sessions /\ Empty.flow = NoFlow /\ Empty.from = NoFlow
    BY DEF Empty, Sessions
  <1>3. NoReq.goes = NoFlow /\ NoReq.flow = NoFlow /\ NoReq \in Reqs
    BY <1>2 DEF NoReq, Reqs, Kinds
  <1> QED BY <1>1, <1>2, <1>3

\* Moving one request moves no other.
LEMMA GoToFields ==
    ASSUME TypeOK, NEW r \in Requests, NEW l, GoTo(r, l)
    PROVE  pc'[r] = l /\ \A o \in Requests \ {r} : pc'[o] = pc[o]
  BY DEF GoTo, TypeOK

\* An assignment to one request leaves the others alone.
LEMMA ReqFields ==
    ASSUME TypeOK, NEW r \in Requests, NEW q, req' = [req EXCEPT ![r] = q]
    PROVE  req'[r] = q /\ \A o \in Requests \ {r} : req'[o] = req[o]
  BY DEF TypeOK

\* The fields that an assignment leaves alone.
Alike(q, p) == q.browser = p.browser /\ q.kind = p.kind /\ q.sent = p.sent /\ q.url = p.url

\* A new session leaves the rest of the request alone.
LEMMA SessionFields ==
    ASSUME NEW p \in Reqs, NEW s \in Sessions
    PROVE  LET q == [p EXCEPT !.session = s] IN
           /\ Alike(q, p) /\ q.session = s /\ q.flow = p.flow /\ q.token = p.token
           /\ q.goes = p.goes /\ q \in Reqs
  BY DEF Reqs, Alike

\* Popping the flow leaves the rest of the request alone.
LEMMA CheckFields ==
    ASSUME NEW p \in Reqs, NEW s \in Sessions, NEW f \in Flows \cup {NoFlow}
    PROVE  LET q == [p EXCEPT !.session = s, !.flow = f] IN
           /\ Alike(q, p) /\ q.session = s /\ q.flow = f /\ q.token = p.token
           /\ q.goes = p.goes /\ q \in Reqs
  BY DEF Reqs, Alike

\* Receiving tokens leaves the rest of the request alone.
LEMMA TokenFields ==
    ASSUME NEW p \in Reqs, NEW t \in Tokens \cup {NoToken}
    PROVE  LET q == [p EXCEPT !.token = t] IN
           /\ Alike(q, p) /\ q.session = p.session /\ q.flow = p.flow /\ q.token = t
           /\ q.goes = p.goes /\ q \in Reqs
  BY DEF Reqs, Alike

-----------------------------------------------------------------------------
(* The effects of the actions                                              *)

\* A request is sent.
Sent(r, b, kind, url, l) ==
    /\ pc[r] = "idle" /\ MaySend(b) /\ pc'[r] = l
    /\ req'[r] \in Reqs
    /\ req'[r].browser = b /\ req'[r].kind = kind /\ req'[r].url = url
    /\ req'[r].sent = cookie[b] /\ req'[r].session = cookie[b]
    /\ req'[r].goes = NoFlow
    /\ \A o \in Requests \ {r} : pc'[o] = pc[o] /\ req'[o] = req[o]
    /\ UNCHANGED <<cookie, begun, owner, provider, urls, history>>

\* What sending a request changes.
LEMMA SendEffects ==
    ASSUME TypeOK, NEW r \in Requests, NEW b \in Browsers, NEW kind \in Kinds,
           NEW url \in Urls \cup {NoUrl}, NEW l, Send(r, b, kind, url, l)
    PROVE  Sent(r, b, kind, url, l)
  <1> DEFINE q == [NoReq EXCEPT !.browser = b, !.kind = kind, !.url = url,
                                !.sent = cookie[b], !.session = cookie[b]]
  <1>1. /\ q \in Reqs /\ q.browser = b /\ q.kind = kind /\ q.url = url
        /\ q.sent = cookie[b] /\ q.session = cookie[b] /\ q.goes = NoFlow
    BY Values DEF Reqs, TypeOK
  <1>2. req' = [req EXCEPT ![r] = q]
    BY DEF Send
  <1> HIDE DEF q
  <1>3. req'[r] = q /\ \A o \in Requests \ {r} : req'[o] = req[o]
    BY <1>2, ReqFields
  <1>4. pc'[r] = l /\ \A o \in Requests \ {r} : pc'[o] = pc[o]
    BY GoToFields DEF Send
  <1> QED BY <1>1, <1>3, <1>4 DEF Send, Sent

\* A request is over.
Over(r) ==
    /\ pc[r] # "idle" /\ pc'[r] = "idle" /\ req'[r] = NoReq
    /\ \A o \in Requests \ {r} : pc'[o] = pc[o] /\ req'[o] = req[o]
    /\ UNCHANGED <<begun, owner, subject, code, urls, checked>>
    /\ died' = died \/ (Raise(r) /\ died' = died \cup {req[r].flow})

\* What the end of a request changes, whether its response arrives or not.
LEMMA OverEffects ==
    ASSUME TypeOK, NEW r \in Requests, Arrive(r) \/ Lose(r) \/ Raise(r)
    PROVE  Over(r)
  <1>1. /\ pc[r] # "idle" /\ req' = [req EXCEPT ![r] = NoReq] /\ GoTo(r, "idle")
        /\ UNCHANGED <<begun, owner, subject, code, urls, checked>>
        /\ died' = died \/ (Raise(r) /\ died' = died \cup {req[r].flow})
    BY DEF Arrive, Lose, Raise, provider, history
  <1> QED BY <1>1, GoToFields, ReqFields DEF Over

\* A request is worked on: q is what is known of it then.
Worked(r, l, q) ==
    /\ pc'[r] = l /\ l \in Labels \ {"idle"}
    /\ q \in Reqs /\ req'[r] = q /\ Alike(q, req[r])
    /\ \A o \in Requests \ {r} : pc'[o] = pc[o] /\ req'[o] = req[o]
    /\ UNCHANGED <<cookie, atOp, subject, urls, died, cutoff>>

\* What /login changes: a new flow of the browser, in the copy of the session.
LEMMA LoginEffects ==
    ASSUME TypeOK, NEW r \in Requests, _login(r)
    PROVE  /\ pc[r] = "login" /\ begun + 1 \in Flows /\ begun' = begun + 1
           /\ owner'[begun + 1] = req[r].browser
           /\ \A f \in Flows \ {begun + 1} : owner'[f] = owner[f]
           /\ Worked(r, "respond", req'[r])
           /\ req'[r].goes = begun + 1
           /\ req'[r].session = [req[r].session EXCEPT !.flow = begun + 1]
           /\ UNCHANGED <<code, checked>>
  <1> DEFINE s == [req[r].session EXCEPT !.flow = begun + 1]
             q == [req[r] EXCEPT !.goes = begun + 1, !.session = s]
  <1>1. begun + 1 \in Flows /\ begun' = begun + 1
    BY Values DEF _login, TypeOK, Flows
  <1>2. req[r] \in Reqs /\ req[r].session \in Sessions
    BY DEF TypeOK, Reqs
  <1>3. s \in Sessions
    BY <1>1, <1>2 DEF Sessions
  <1>4. req' = [req EXCEPT ![r] = q]
    BY DEF _login
  <1> HIDE DEF s
  <1>5. q \in Reqs /\ Alike(q, req[r]) /\ q.session = s /\ q.goes = begun + 1
    BY <1>1, <1>2, <1>3 DEF Reqs, Alike
  <1> HIDE DEF q
  <1>6. req'[r] = q /\ \A o \in Requests \ {r} : req'[o] = req[o]
    BY <1>4, ReqFields
  <1>7. pc'[r] = "respond" /\ \A o \in Requests \ {r} : pc'[o] = pc[o]
    BY GoToFields DEF _login
  <1>8. Worked(r, "respond", req'[r])
    BY <1>5, <1>6, <1>7 DEF Worked, Labels, _login, provider, history
  <1>9. owner'[begun + 1] = req[r].browser /\ \A f \in Flows \ {begun + 1} : owner'[f] = owner[f]
    BY <1>1 DEF _login, TypeOK
  <1> QED BY <1>1, <1>5, <1>6, <1>8, <1>9 DEF _login, provider, history, s

\* The steps that change nothing but the place: a failed login, a discovery, a
\* validation.
LEMMA PlaceEffects ==
    ASSUME TypeOK, NEW r \in Requests, LoginFails(r) \/ Discover(r) \/ _validate_id_token(r)
    PROVE  /\ req' = req /\ Worked(r, pc'[r], req[r])
           /\ UNCHANGED <<begun, owner, code, checked>>
           /\ \/ pc[r] = "login" /\ pc'[r] = "respond"
              \/ pc[r] = "discover" /\ pc'[r] = "exchange"
              \/ pc[r] = "discover" /\ pc'[r] = "respond" /\ Fault(r)
              \/ pc[r] = "validate" /\ pc'[r] = "userinfo" /\ NonceMatches(r)
              \/ /\ pc[r] = "validate" /\ pc'[r] = "respond"
                 /\ ~(req[r].token.valid /\ NonceMatches(r))
  <1>1. /\ req' = req /\ UNCHANGED <<begun, owner, code, checked>>
        /\ UNCHANGED <<cookie, atOp, subject, urls, died, cutoff>>
    BY DEF LoginFails, Discover, _validate_id_token, provider, history
  <1>2. /\ \/ pc[r] = "login" /\ GoTo(r, "respond")
           \/ pc[r] = "discover" /\ GoTo(r, "exchange")
           \/ pc[r] = "discover" /\ GoTo(r, "respond") /\ Fault(r)
           \/ pc[r] = "validate" /\ GoTo(r, "userinfo") /\ NonceMatches(r)
           \/ /\ pc[r] = "validate" /\ GoTo(r, "respond")
              /\ ~(req[r].token.valid /\ NonceMatches(r))
    BY DEF LoginFails, Discover, _validate_id_token, Fail
  <1>3. \E l \in {"respond", "exchange", "userinfo"} : GoTo(r, l)
    BY <1>2
  <1>4. pc'[r] \in {"respond", "exchange", "userinfo"}
        /\ \A o \in Requests \ {r} : pc'[o] = pc[o]
    BY <1>3, GoToFields
  <1>5. Worked(r, pc'[r], req[r])
    BY <1>1, <1>4 DEF Worked, Labels, Alike, TypeOK
  <1>6. /\ \/ pc[r] = "login" /\ pc'[r] = "respond"
           \/ pc[r] = "discover" /\ pc'[r] = "exchange"
           \/ pc[r] = "discover" /\ pc'[r] = "respond" /\ Fault(r)
           \/ pc[r] = "validate" /\ pc'[r] = "userinfo" /\ NonceMatches(r)
           \/ /\ pc[r] = "validate" /\ pc'[r] = "respond"
              /\ ~(req[r].token.valid /\ NonceMatches(r))
    BY <1>2, GoToFields
  <1> QED BY <1>1, <1>5, <1>6

\* What /logout changes: the copy of the session is empty.
LEMMA LogoutEffects ==
    ASSUME TypeOK, NEW r \in Requests, logout(r)
    PROVE  /\ pc[r] = "logout" /\ Worked(r, "respond", req'[r])
           /\ req'[r].session = Empty /\ req'[r].goes = req[r].goes
           /\ UNCHANGED <<begun, owner, code, checked>>
  <1> DEFINE q == [req[r] EXCEPT !.session = Empty]
  <1>1. req' = [req EXCEPT ![r] = q]
    BY DEF logout, Works
  <1>2. q \in Reqs /\ Alike(q, req[r]) /\ q.session = Empty /\ q.goes = req[r].goes
    BY Values, SessionFields DEF TypeOK
  <1> HIDE DEF q
  <1>3. req'[r] = q /\ \A o \in Requests \ {r} : req'[o] = req[o]
    BY <1>1, ReqFields
  <1>4. pc'[r] = "respond" /\ \A o \in Requests \ {r} : pc'[o] = pc[o]
    BY GoToFields DEF logout
  <1> QED BY <1>2, <1>3, <1>4 DEF Worked, Labels, logout, provider, history

\* What the checks of /callback change: the flow is popped, and they pass for its own
\* response only.
LEMMA CheckEffects ==
    ASSUME TypeOK, NEW r \in Requests, Check(r)
    PROVE  LET f == req[r].session.flow IN
           /\ pc[r] = "check" /\ Worked(r, pc'[r], req'[r])
           /\ req'[r].session = [req[r].session EXCEPT !.flow = NoFlow]
           /\ req'[r].goes = req[r].goes
           /\ UNCHANGED <<begun, owner, code>>
           /\ \/ /\ pc'[r] = "discover" /\ f \in Flows /\ req'[r].flow = f
                 /\ req[r].url.ok /\ req[r].url.flow = f
                 /\ checked' = [checked EXCEPT ![f] = IF @ < 2 THEN @ + 1 ELSE @]
              \/ /\ pc'[r] = "respond" /\ checked' = checked
                 /\ ~(f \in Flows /\ req[r].url.ok /\ req[r].url.flow = f)
  <1> DEFINE f == req[r].session.flow
             passes == f # NoFlow /\ req[r].url.ok /\ req[r].url.flow = f
             s == [req[r].session EXCEPT !.flow = NoFlow]
             g == IF passes THEN f ELSE NoFlow
             q == [req[r] EXCEPT !.session = s, !.flow = g]
  <1>1. req[r] \in Reqs /\ req[r].session \in Sessions
    BY DEF TypeOK, Reqs
  <1>2. s \in Sessions
    BY <1>1 DEF Sessions
  <1>3. f \in Flows \cup {NoFlow} /\ NoFlow \notin Flows
    BY <1>1, Values DEF Sessions
  <1>4. /\ pc[r] = "check" /\ req' = [req EXCEPT ![r] = q]
        /\ checked' = IF passes THEN [checked EXCEPT ![f] = IF @ < 2 THEN @ + 1 ELSE @] ELSE checked
        /\ GoTo(r, IF passes THEN "discover" ELSE "respond")
        /\ UNCHANGED <<cookie, begun, owner, provider, urls, died, cutoff>>
    BY DEF Check, Pop, StateMatches
  <1>5. g \in Flows \cup {NoFlow}
    BY <1>3
  <1> HIDE DEF s, g
  <1>6. q \in Reqs /\ Alike(q, req[r]) /\ q.session = s /\ q.goes = req[r].goes /\ q.flow = g
    BY <1>1, <1>2, <1>5 DEF Reqs, Alike
  <1> HIDE DEF q
  <1>7. req'[r] = q /\ \A o \in Requests \ {r} : req'[o] = req[o]
    BY <1>4, ReqFields
  <1>8. /\ pc'[r] = IF passes THEN "discover" ELSE "respond"
        /\ \A o \in Requests \ {r} : pc'[o] = pc[o]
    BY <1>4, GoToFields
  <1>9. Worked(r, pc'[r], req'[r])
    BY <1>4, <1>6, <1>7, <1>8 DEF Worked, Labels, provider
  <1>10. CASE passes
    BY <1>3, <1>4, <1>6, <1>7, <1>8, <1>9, <1>10 DEF s, g, provider
  <1>11. CASE ~passes
    BY <1>3, <1>4, <1>6, <1>7, <1>8, <1>9, <1>11 DEF s, provider
  <1> QED BY <1>10, <1>11

\* What the exchange changes: the code is used if the provider accepts it.
LEMMA ExchangeEffects ==
    ASSUME TypeOK, NEW r \in Requests, _exchange_code(r)
    PROVE  LET f == req[r].url.flow IN
           /\ pc[r] = "exchange" /\ Worked(r, pc'[r], req'[r])
           /\ req'[r].session = req[r].session /\ req'[r].flow = req[r].flow
           /\ req'[r].goes = req[r].goes
           /\ UNCHANGED <<begun, owner, checked>>
           /\ code' = code \/ (Accepts(r) /\ code' = [code EXCEPT ![f] = "used"])
           /\ \/ /\ pc'[r] = "validate"
                 /\ Fault(r) \/ req'[r].token = [nonce |-> f, valid |-> TRUE]
              \/ pc'[r] = "respond" /\ (Accepts(r) => Fault(r))
  <1> DEFINE f == req[r].url.flow
             Answered(t) == /\ Got(r, t) /\ t \in Tokens \cup {NoToken}
                            /\ Fault(r) \/ t = [nonce |-> f, valid |-> TRUE]
  <1>1. /\ pc[r] = "exchange" /\ UNCHANGED <<begun, owner, checked>>
        /\ UNCHANGED <<cookie, atOp, subject, urls, died, cutoff>>
        /\ code' = code \/ (Accepts(r) /\ code' = [code EXCEPT ![f] = "used"])
    BY DEF _exchange_code, history
  <1>2. req[r] \in Reqs /\ req[r].flow = f /\ f \in Flows
    <2>1. req[r] \in Reqs /\ req[r].flow \in Flows \cup {NoFlow}
      BY DEF TypeOK, Reqs
    <2>2. req[r].flow # NoFlow /\ req[r].flow = f
      BY <1>1 DEF TypeOK
    <2> QED BY <2>1, <2>2
  <1>3. [nonce |-> f, valid |-> TRUE] \in Tokens \cup {NoToken}
    BY <1>2 DEF Tokens
  <1>4. WrongTokens \cup {NoToken} \subseteq Tokens \cup {NoToken}
    BY DEF WrongTokens
  <1>5. (\E t : Answered(t)) \/ (Fail(r) /\ req' = req /\ (Accepts(r) => Fault(r)))
    BY <1>3, <1>4 DEF _exchange_code
  <1>6. CASE \E t : Answered(t)
    <2>1. PICK t : Answered(t)
      BY <1>6
    <2> DEFINE q == [req[r] EXCEPT !.token = t]
    <2>2. req' = [req EXCEPT ![r] = q] /\ GoTo(r, "validate")
      BY <2>1 DEF Got
    <2>3. /\ q \in Reqs /\ Alike(q, req[r]) /\ q.session = req[r].session
          /\ q.goes = req[r].goes /\ q.flow = req[r].flow /\ q.token = t
      BY <1>2, <2>1, TokenFields
    <2>4. Fault(r) \/ t = [nonce |-> f, valid |-> TRUE]
      BY <2>1
    <2> HIDE DEF q, Answered
    <2>5. req'[r] = q /\ \A o \in Requests \ {r} : req'[o] = req[o]
      BY <2>2, ReqFields
    <2>6. pc'[r] = "validate" /\ \A o \in Requests \ {r} : pc'[o] = pc[o]
      BY <2>2, GoToFields
    <2>7. Worked(r, pc'[r], req'[r])
      BY <1>1, <2>3, <2>5, <2>6 DEF Worked, Labels
    <2> QED BY <1>1, <2>3, <2>4, <2>5, <2>6, <2>7
  <1>7. CASE Fail(r) /\ req' = req /\ (Accepts(r) => Fault(r))
    <2>1. pc'[r] = "respond" /\ \A o \in Requests \ {r} : pc'[o] = pc[o]
      BY <1>7, GoToFields DEF Fail
    <2>2. Worked(r, pc'[r], req'[r])
      BY <1>1, <1>2, <1>7, <2>1 DEF Worked, Labels, Alike
    <2> QED BY <1>1, <1>7, <2>1, <2>2
  <1> QED BY <1>5, <1>6, <1>7

\* What the last step of /callback changes: the identity of the copy of the session.
LEMMA UserinfoEffects ==
    ASSUME TypeOK, NEW r \in Requests, _fetch_userinfo(r), req[r].token.nonce \in Flows
    PROVE  LET sub == subject[req[r].token.nonce] IN
           /\ pc[r] = "userinfo" /\ Worked(r, "respond", req'[r])
           /\ req'[r].goes = req[r].goes
           /\ UNCHANGED <<begun, owner, code, checked>>
           /\ \/ \E info \in {sub, NoSub} : req'[r].session =
                      [req[r].session EXCEPT !.who = sub, !.info = info, !.from = req[r].flow]
              \/ req' = req /\ Fault(r)
  <1> DEFINE sub == subject[req[r].token.nonce]
             S(info) == [req[r].session EXCEPT !.who = sub, !.info = info, !.from = req[r].flow]
  <1>1. /\ pc[r] = "userinfo" /\ UNCHANGED <<begun, owner, code, checked>>
        /\ UNCHANGED <<cookie, atOp, subject, urls, died, cutoff>> /\ GoTo(r, "respond")
    BY DEF _fetch_userinfo, provider, history
  <1>2. pc'[r] = "respond" /\ \A o \in Requests \ {r} : pc'[o] = pc[o]
    BY <1>1, GoToFields
  <1>3. req[r] \in Reqs /\ req[r].session \in Sessions /\ req[r].flow \in Flows \cup {NoFlow}
        /\ sub \in Subjects \cup {NoSub}
    BY DEF TypeOK, Reqs
  <1>4. (\E info \in {sub, NoSub} : Works(r, S(info))) \/ (req' = req /\ Fault(r))
    BY DEF _fetch_userinfo, Infos
  <1>5. CASE \E info \in {sub, NoSub} : Works(r, S(info))
    <2>1. PICK info \in {sub, NoSub} : Works(r, S(info))
      BY <1>5
    <2> DEFINE q == [req[r] EXCEPT !.session = S(info)]
    <2>2. req' = [req EXCEPT ![r] = q]
      BY <2>1 DEF Works
    <2>3. S(info) \in Sessions
      BY <1>3 DEF Sessions
    <2> HIDE DEF S, sub
    <2>4. q \in Reqs /\ Alike(q, req[r]) /\ q.session = S(info) /\ q.goes = req[r].goes
      BY <1>3, <2>3 DEF Reqs, Alike
    <2> HIDE DEF q
    <2>5. req'[r] = q /\ \A o \in Requests \ {r} : req'[o] = req[o]
      BY <2>2, ReqFields
    <2>6. Worked(r, "respond", req'[r])
      BY <1>1, <1>2, <2>4, <2>5 DEF Worked, Labels
    <2> QED BY <1>1, <2>4, <2>5, <2>6 DEF S, sub
  <1>6. CASE req' = req /\ Fault(r)
    <2>1. Worked(r, "respond", req'[r])
      BY <1>1, <1>2, <1>3, <1>6 DEF Worked, Labels, Alike
    <2> QED BY <1>1, <1>6, <2>1
  <1> QED BY <1>4, <1>5, <1>6

-----------------------------------------------------------------------------
(* Types                                                                   *)

\* A step is one of the following.
LEMMA Steps ==
    ASSUME [Next]_vars
    PROVE  \/ UNCHANGED vars
           \/ \E r \in Requests, b \in Browsers : SendLogin(r, b)
           \/ \E r \in Requests, b \in Browsers : SendLogout(r, b)
           \/ \E r \in Requests, b \in Browsers, url \in urls : SendCallback(r, b, url)
           \/ \E r \in Requests : Handle(r)
           \/ \E r \in Requests : Arrive(r)
           \/ \E r \in Requests : Lose(r)
           \/ \E r \in Requests : Raise(r)
           \/ \E f \in Flows, s \in Subjects : Authenticate(f, s)
  BY DEF Next

\* A request is sent by a browser: with a kind, and the label of its handler.
Posts(r, b) ==
    \/ Sent(r, b, "login", NoUrl, "login")
    \/ Sent(r, b, "logout", NoUrl, "logout")
    \/ \E url \in urls : Sent(r, b, "callback", url, "check")

\* What a browser sends is one of three requests.
LEMMA PostEffects ==
    ASSUME TypeOK, NEW r \in Requests, NEW b \in Browsers,
           \/ SendLogin(r, b) \/ SendLogout(r, b)
           \/ \E url \in urls : SendCallback(r, b, url)
    PROVE  Posts(r, b)
  <1>1. urls \subseteq Urls \cup {NoUrl} /\ {"login", "logout", "callback"} \subseteq Kinds
    BY DEF TypeOK, Kinds
  <1>2. CASE SendLogin(r, b)
    BY <1>1, <1>2, SendEffects DEF SendLogin, Posts
  <1>3. CASE SendLogout(r, b)
    BY <1>1, <1>3, SendEffects DEF SendLogout, Posts
  <1>4. CASE \E url \in urls : SendCallback(r, b, url)
    <2>1. PICK url \in urls : SendCallback(r, b, url)
      BY <1>4
    <2>2. Sent(r, b, "callback", url, "check")
      BY <1>1, <2>1, SendEffects DEF SendCallback
    <2> QED BY <2>2 DEF Posts
  <1> QED BY <1>2, <1>3, <1>4

\* The places and the requests remain functions on Requests.
Shape == /\ pc' = [o \in Requests |-> pc'[o]]
         /\ req' = [o \in Requests |-> req'[o]]

\* Every step is a request sent, handled or over, or one of the provider.
LEMMA Shapes ==
    ASSUME TypeOK, Next
    PROVE  Shape
  <1>1. ASSUME NEW r \in Requests, NEW l, GoTo(r, l)
        PROVE  pc' = [o \in Requests |-> pc'[o]]
    BY <1>1 DEF GoTo, TypeOK
  <1>2. ASSUME NEW r \in Requests, NEW q, req' = [req EXCEPT ![r] = q]
        PROVE  req' = [o \in Requests |-> req'[o]]
    BY <1>2 DEF TypeOK
  <1>3. req' = req => req' = [o \in Requests |-> req'[o]]
    BY DEF TypeOK
  <1>4. pc' = pc => pc' = [o \in Requests |-> pc'[o]]
    BY DEF TypeOK
  <1>5. ASSUME NEW r \in Requests, NEW b \in Browsers, NEW k, NEW url, NEW l, Send(r, b, k, url, l)
        PROVE  Shape
    BY <1>1, <1>2, <1>5 DEF Send, Shape
  <1>6. ASSUME NEW r \in Requests, Arrive(r) \/ Lose(r) \/ Raise(r)
        PROVE  Shape
    BY <1>1, <1>2, <1>6 DEF Arrive, Lose, Raise, Shape
  <1>7. ASSUME NEW r \in Requests, Handle(r)
        PROVE  Shape
    <2>1. \E l : GoTo(r, l)
      <3>1. CASE _login(r) \/ LoginFails(r) \/ logout(r)
        BY <3>1 DEF _login, LoginFails, logout, Fail
      <3>2. CASE Check(r)
        BY <3>2 DEF Check
      <3>3. CASE Discover(r) \/ _exchange_code(r)
        BY <3>3 DEF Discover, _exchange_code, Got, Fail
      <3>4. CASE _validate_id_token(r) \/ _fetch_userinfo(r)
        BY <3>4 DEF _validate_id_token, _fetch_userinfo
      <3> QED BY <1>7, <3>1, <3>2, <3>3, <3>4 DEF Handle
    <2>2. req' = req \/ \E q : req' = [req EXCEPT ![r] = q]
      <3>1. CASE _login(r) \/ LoginFails(r) \/ logout(r)
        BY <3>1 DEF _login, LoginFails, logout, Works
      <3>2. CASE Check(r)
        BY <3>2 DEF Check
      <3>3. CASE Discover(r) \/ _exchange_code(r)
        BY <3>3 DEF Discover, _exchange_code, Got
      <3>4. CASE _validate_id_token(r) \/ _fetch_userinfo(r)
        BY <3>4 DEF _validate_id_token, _fetch_userinfo, Works
      <3> QED BY <1>7, <3>1, <3>2, <3>3, <3>4 DEF Handle
    <2> QED BY <1>1, <1>2, <1>3, <2>1, <2>2 DEF Shape
  <1>8. ASSUME NEW f \in Flows, NEW s \in Subjects, Authenticate(f, s)
        PROVE  Shape
    BY <1>3, <1>4, <1>8 DEF Authenticate, Shape
  <1> QED BY <1>5, <1>6, <1>7, <1>8 DEF Next, SendLogin, SendLogout, SendCallback

\* What the type invariant says of the requests.
PastOK(l, q) == l \in Past => q.flow # NoFlow /\ q.flow = q.url.flow

\* A step of one well typed request keeps all of them well typed.
LEMMA RequestTypes ==
    ASSUME TypeOK, Next, NEW r \in Requests, pc'[r] \in Labels, req'[r] \in Reqs,
           PastOK(pc'[r], req'[r]),
           \A o \in Requests \ {r} : pc'[o] = pc[o] /\ req'[o] = req[o]
    PROVE  /\ pc' \in [Requests -> Labels] /\ req' \in [Requests -> Reqs]
           /\ \A o \in Requests : PastOK(pc'[o], req'[o])
  <1>1. Shape
    BY Shapes
  <1>2. \A o \in Requests : pc'[o] \in Labels /\ req'[o] \in Reqs
    BY DEF TypeOK
  <1>3. \A o \in Requests : PastOK(pc[o], req[o])
    BY DEF TypeOK, PastOK, Past
  <1> QED BY <1>1, <1>2, <1>3 DEF Shape

\* What the handler of a request leaves in the other variables.
Counted ==
    /\ begun' \in 0..MaxFlows
    /\ owner' \in [Flows -> Browsers \cup {NoBrowser}]
    /\ code' \in [Flows -> {"none", "fresh", "used"}]
    /\ checked' \in [Flows -> 0..2]

\* Every handler keeps its request well typed and the history in range.
LEMMA HandleTypes ==
    ASSUME TypeOK, HistoryOK, OwnInv, NEW r \in Requests, Handle(r)
    PROVE  /\ Worked(r, pc'[r], req'[r])
           /\ PastOK(pc'[r], req'[r]) /\ Counted
  <1> USE DEF PastOK
  <1>1. /\ begun \in 0..MaxFlows /\ owner \in [Flows -> Browsers \cup {NoBrowser}]
        /\ code \in [Flows -> {"none", "fresh", "used"}] /\ checked \in [Flows -> 0..2]
    BY DEF TypeOK, HistoryOK
  <1>2. PastOK(pc[r], req[r]) /\ req[r].browser \in Browsers \cup {NoBrowser}
    BY DEF TypeOK, PastOK, Past, Reqs
  <1>3. CASE _login(r)
    <2>1. pc'[r] = "respond" /\ Worked(r, pc'[r], req'[r])
      BY <1>3, LoginEffects DEF Worked
    <2>2. begun + 1 \in Flows /\ begun' = begun + 1 /\ code' = code /\ checked' = checked
      BY <1>3, LoginEffects
    <2>4. begun' \in 0..MaxFlows
      BY <2>2, RpAssumption DEF Flows
    <2>3. owner' \in [Flows -> Browsers \cup {NoBrowser}]
      BY <1>1, <1>2, <1>3 DEF _login
    <2> QED BY <1>1, <2>1, <2>2, <2>3, <2>4 DEF Counted, Past
  <1>4. CASE LoginFails(r) \/ Discover(r) \/ _validate_id_token(r)
    <2>1. /\ req' = req /\ Worked(r, pc'[r], req'[r])
          /\ UNCHANGED <<begun, owner, code, checked>>
      BY <1>4, PlaceEffects
    <2>2. pc'[r] = "respond" \/ pc[r] \in Past
      BY <1>4, PlaceEffects DEF Past
    <2> QED BY <1>1, <1>2, <2>1, <2>2 DEF Counted, Past
  <1>5. CASE logout(r)
    BY <1>1, <1>5, LogoutEffects DEF Counted, Past, Worked
  <1>6. CASE Check(r)
    <2>1. /\ Worked(r, pc'[r], req'[r]) /\ UNCHANGED <<begun, owner, code>>
      BY <1>6, CheckEffects
    <2>2. PastOK(pc'[r], req'[r])
      <3>1. req'[r].url = req[r].url
        BY <2>1 DEF Worked, Alike
      <3>2. pc'[r] = "respond" \/ (req'[r].flow \in Flows /\ req[r].url.flow = req'[r].flow)
        BY <1>6, CheckEffects
      <3>3. CASE pc'[r] = "respond"
        BY <3>3 DEF Past
      <3> QED BY <3>1, <3>2, <3>3, Values
    <2>3. checked' \in [Flows -> 0..2]
      <3>1. CASE checked' = checked
        BY <1>1, <3>1
      <3>2. CASE \E f \in Flows : checked' = [checked EXCEPT ![f] = IF @ < 2 THEN @ + 1 ELSE @]
        BY <1>1, <3>2
      <3> QED BY <1>6, <3>1, <3>2, CheckEffects
    <2> QED BY <1>1, <2>1, <2>2, <2>3 DEF Counted
  <1>7. CASE _exchange_code(r)
    <2>1. /\ Worked(r, pc'[r], req'[r]) /\ UNCHANGED <<begun, owner, checked>>
          /\ pc[r] = "exchange" /\ req'[r].flow = req[r].flow
      BY <1>7, ExchangeEffects
    <2>2. PastOK(pc'[r], req'[r])
      BY <1>2, <2>1 DEF Past, Worked, Alike
    <2>3. code' \in [Flows -> {"none", "fresh", "used"}]
      BY <1>1, <1>7, ExchangeEffects
    <2> QED BY <1>1, <2>1, <2>2, <2>3 DEF Counted
  <1>8. CASE _fetch_userinfo(r)
    <2>1. pc[r] = "userinfo"
      BY <1>8 DEF _fetch_userinfo
    <2>2. RequestInv(r)
      BY DEF OwnInv
    <2>3. req[r].token.nonce \in Flows
      BY <2>1, <2>2 DEF RequestInv, Past
    <2>4. /\ Worked(r, "respond", req'[r]) /\ UNCHANGED <<begun, owner, code, checked>>
      BY <1>8, <2>3, UserinfoEffects
    <2>5. pc'[r] = "respond"
      BY <2>4 DEF Worked
    <2> QED BY <1>1, <2>4, <2>5 DEF Counted, Past
  <1> QED BY <1>3, <1>4, <1>5, <1>6, <1>7, <1>8 DEF Handle

\* Every step keeps the types.
LEMMA TypeStep ==
    ASSUME TypeOK, HistoryOK, OwnInv, [Next]_vars
    PROVE  TypeOK' /\ HistoryOK'
  <1> USE DEF PastOK
  <1>1. CASE UNCHANGED vars
    BY <1>1 DEF vars, provider, history, TypeOK, HistoryOK
  <1>2. ASSUME NEW r \in Requests, NEW b \in Browsers, Next,
               \/ SendLogin(r, b) \/ SendLogout(r, b)
               \/ \E url \in urls : SendCallback(r, b, url)
        PROVE  TypeOK' /\ HistoryOK'
    <2>1. Posts(r, b)
      BY <1>2, PostEffects
    <2>2. /\ pc'[r] \in {"login", "logout", "check"} /\ req'[r] \in Reqs
          /\ \A o \in Requests \ {r} : pc'[o] = pc[o] /\ req'[o] = req[o]
          /\ UNCHANGED <<cookie, begun, owner, provider, urls, history>>
      BY <2>1 DEF Posts, Sent
    <2>3. /\ pc' \in [Requests -> Labels] /\ req' \in [Requests -> Reqs]
          /\ \A o \in Requests : PastOK(pc'[o], req'[o])
      BY <1>2, <2>2, RequestTypes DEF Labels, Past
    <2> QED BY <2>2, <2>3 DEF TypeOK, HistoryOK, provider, history, Past
  <1>3. ASSUME NEW r \in Requests, Next, Arrive(r) \/ Lose(r) \/ Raise(r)
        PROVE  TypeOK' /\ HistoryOK'
    <2>1. Over(r)
      BY <1>3, OverEffects
    <2>2. /\ pc' \in [Requests -> Labels] /\ req' \in [Requests -> Reqs]
          /\ \A o \in Requests : PastOK(pc'[o], req'[o])
      BY <1>3, <2>1, RequestTypes, Values DEF Over, Labels, Past
    <2>3. RequestInv(r) /\ Live(r) /\ req[r] \in Reqs
      BY <2>1 DEF OwnInv, Over, Live, TypeOK
    <2>4. req[r].browser \in Browsers /\ req[r].session \in Sessions
          /\ req[r].goes \in Flows \cup {NoFlow}
      BY <2>3 DEF RequestInv, Reqs
    <2>5. cookie' \in [Browsers -> Sessions]
      BY <1>3, <2>4 DEF Arrive, Lose, Raise, TypeOK
    <2>6. atOp' \subseteq Flows
      BY <1>3, <2>4 DEF Arrive, Lose, Raise, TypeOK, provider
    <2>7. cutoff' \in [Browsers -> 0..MaxFlows]
      BY <1>3, <2>4 DEF Arrive, Lose, Raise, TypeOK, HistoryOK, history
    <2>8. died' \subseteq Faulty
      BY <2>1 DEF Over, Raise, Fault, HistoryOK
    <2> QED BY <2>1, <2>2, <2>5, <2>6, <2>7, <2>8 DEF Over, TypeOK, HistoryOK, Past
  <1>4. ASSUME NEW r \in Requests, Next, Handle(r)
        PROVE  TypeOK' /\ HistoryOK'
    <2>1. Worked(r, pc'[r], req'[r]) /\ PastOK(pc'[r], req'[r]) /\ Counted
      BY <1>4, HandleTypes
    <2>2. /\ pc' \in [Requests -> Labels] /\ req' \in [Requests -> Reqs]
          /\ \A o \in Requests : PastOK(pc'[o], req'[o])
      BY <1>4, <2>1, RequestTypes DEF Worked
    <2> QED BY <2>1, <2>2 DEF Worked, Counted, TypeOK, HistoryOK, Past
  <1>5. ASSUME NEW f \in Flows, NEW s \in Subjects, Authenticate(f, s)
        PROVE  TypeOK' /\ HistoryOK'
    <2>1. UNCHANGED <<cookie, begun, owner, pc, req, history>> /\ atOp' = atOp \ {f}
      BY <1>5 DEF Authenticate
    <2>2. /\ subject' \in [Flows -> Subjects \cup {NoSub}]
          /\ code' \in [Flows -> {"none", "fresh", "used"}]
      BY <1>5 DEF Authenticate, TypeOK
    <2>3. urls' \subseteq Urls
      <3>1. [flow |-> f, ok |-> TRUE] \in Urls /\ [flow |-> f, ok |-> FALSE] \in Urls
        BY DEF Urls
      <3>2. \E u \in Urls : urls' = urls \cup {u}
        BY <1>5, <3>1 DEF Authenticate
      <3> QED BY <3>2 DEF TypeOK
    <2> QED BY <2>1, <2>2, <2>3 DEF TypeOK, HistoryOK, history
  <1> QED BY <1>1, <1>2, <1>3, <1>4, <1>5 DEF Next

-----------------------------------------------------------------------------
(* What a step never takes back                                            *)

Grows ==
    /\ begun <= begun' /\ urls \subseteq urls' /\ died \subseteq died'
    /\ \A f \in Flows : owner[f] \in Browsers => owner'[f] = owner[f]
    /\ \A f \in Flows : subject[f] # NoSub => subject'[f] = subject[f]
    /\ \A f \in Flows : checked[f] <= checked'[f]

\* Counters of the state are natural numbers.
LEMMA Numbers ==
    ASSUME TypeOK, HistoryOK
    PROVE  /\ begun \in Nat /\ begun <= MaxFlows
           /\ \A f \in Flows : checked[f] \in Nat
           /\ \A b \in Browsers : cutoff[b] \in Nat
  BY RpAssumption DEF TypeOK, HistoryOK

\* A flow that somebody owns has begun.
LEMMA Owned ==
    ASSUME OwnInv, NEW f \in Flows, owner[f] \in Browsers
    PROVE  ~(f > begun)
  BY RpAssumption DEF OwnInv, FlowInv

\* Flows keep their owner and their user, checks are counted up, and URLs stay known.
LEMMA GrowStep ==
    ASSUME TypeOK, HistoryOK, OwnInv, [Next]_vars
    PROVE  Grows
  <1>1. /\ begun \in Nat /\ begun <= begun /\ urls \subseteq urls
        /\ \A f \in Flows : checked[f] \in Nat /\ checked[f] <= checked[f]
    BY Numbers
  <1>2. ASSUME UNCHANGED <<begun, owner, subject, urls, checked>>, died \subseteq died'
        PROVE  Grows
    BY <1>1, <1>2 DEF Grows
  <1>3. CASE UNCHANGED vars
    BY <1>2, <1>3 DEF vars, provider, history
  <1>4. ASSUME NEW r \in Requests, NEW b \in Browsers,
               \/ SendLogin(r, b) \/ SendLogout(r, b)
               \/ \E url \in urls : SendCallback(r, b, url)
        PROVE  Grows
    <2>1. Posts(r, b)
      BY <1>4, PostEffects
    <2> QED BY <1>2, <2>1 DEF Posts, Sent, provider, history
  <1>5. ASSUME NEW r \in Requests, Arrive(r) \/ Lose(r) \/ Raise(r)
        PROVE  Grows
    <2>1. Over(r)
      BY <1>5, OverEffects
    <2> QED BY <1>2, <2>1 DEF Over
  <1>6. ASSUME NEW r \in Requests, Handle(r)
        PROVE  Grows
    <2>1. Worked(r, pc'[r], req'[r])
      BY <1>6, HandleTypes
    <2>2. subject' = subject /\ urls' = urls /\ died \subseteq died'
      BY <2>1 DEF Worked
    <2>3. CASE _login(r)
      <3>1. begun + 1 \in Flows /\ begun' = begun + 1 /\ checked' = checked
            /\ \A f \in Flows \ {begun + 1} : owner'[f] = owner[f]
        BY <2>3, LoginEffects
      <3>2. begun <= begun' /\ begun + 1 > begun
        BY <1>1, <3>1
      <3>3. \A f \in Flows : owner[f] \in Browsers => owner'[f] = owner[f]
        BY <3>1, <3>2, Owned
      <3> QED BY <1>1, <2>2, <3>1, <3>2, <3>3 DEF Grows
    <2>4. CASE Check(r)
      <3>1. UNCHANGED <<begun, owner>>
        BY <2>4, CheckEffects
      <3>2. \A f \in Flows : checked[f] <= checked'[f]
        <4>1. CASE checked' = checked
          BY <1>1, <4>1
        <4>2. ASSUME NEW g \in Flows, checked' = [checked EXCEPT ![g] = IF @ < 2 THEN @ + 1 ELSE @]
              PROVE  \A f \in Flows : checked[f] <= checked'[f]
          BY <1>1, <4>2 DEF HistoryOK
        <4> QED BY <2>4, <4>1, <4>2, CheckEffects
      <3> QED BY <1>1, <2>2, <3>1, <3>2 DEF Grows
    <2>5. CASE ~_login(r) /\ ~Check(r)
      <3>1. UNCHANGED <<begun, owner, checked>>
        BY <1>6, <2>5 DEF Handle, LoginFails, logout, Discover, _exchange_code,
           _validate_id_token, _fetch_userinfo, history
      <3> QED BY <1>2, <2>2, <3>1
    <2> QED BY <2>3, <2>4, <2>5
  <1>7. ASSUME NEW f \in Flows, NEW s \in Subjects, Authenticate(f, s)
        PROVE  Grows
    <2>1. UNCHANGED <<begun, owner, checked>> /\ urls \subseteq urls' /\ died \subseteq died'
      BY <1>7 DEF Authenticate, history
    <2>2. subject[f] = NoSub
      BY <1>7 DEF Authenticate, OwnInv, FlowInv
    <2>3. \A g \in Flows : subject[g] # NoSub => subject'[g] = subject[g]
      BY <1>7, <2>2 DEF Authenticate, TypeOK
    <2> QED BY <1>1, <2>1, <2>3 DEF Grows
  <1> QED BY <1>3, <1>4, <1>5, <1>6, <1>7 DEF Next

\* A session that belongs to a browser goes on belonging to it.
LEMMA SessionKept ==
    ASSUME Grows, NEW s \in Sessions, NEW b \in Browsers, SessionInv(s, b)
    PROVE  SessionInv(s, b)'
  BY DEF Grows, SessionInv, Sessions

-----------------------------------------------------------------------------
(* Sessions, flows and requests                                            *)

\* The cookies.
LEMMA CookieStep ==
    ASSUME TypeOK, HistoryOK, OwnInv, [Next]_vars
    PROVE  \A b \in Browsers : SessionInv(cookie[b], b)'
  <1>1. Grows
    BY GrowStep
  <1>2. ASSUME NEW b \in Browsers, NEW s \in Sessions, SessionInv(s, b), cookie'[b] = s
        PROVE  SessionInv(cookie[b], b)'
    <2>1. SessionInv(s, b)'
      BY <1>1, <1>2, SessionKept
    <2> QED BY <1>2, <2>1 DEF SessionInv
  <1> SUFFICES ASSUME NEW b \in Browsers
               PROVE  \E s \in Sessions : SessionInv(s, b) /\ cookie'[b] = s
    BY <1>2
  <1>3. cookie[b] \in Sessions /\ SessionInv(cookie[b], b)
    BY DEF TypeOK, OwnInv
  <1>4. CASE cookie' = cookie
    BY <1>3, <1>4
  <1>5. ASSUME NEW r \in Requests, Arrive(r)
        PROVE  \E s \in Sessions : SessionInv(s, b) /\ cookie'[b] = s
    <2>1. RequestInv(r) /\ Live(r) /\ req[r].session \in Sessions
      BY <1>5 DEF OwnInv, Arrive, Live, TypeOK, Reqs
    <2>2. req[r].browser \in Browsers /\ SessionInv(req[r].session, req[r].browser)
      BY <2>1 DEF RequestInv
    <2>3. cookie'[b] = cookie[b] \/ (b = req[r].browser /\ cookie'[b] = req[r].session)
      BY <1>5, <2>2 DEF Arrive, TypeOK
    <2> QED BY <1>3, <2>1, <2>2, <2>3
  <1>6. cookie' = cookie \/ \E r \in Requests : Arrive(r)
    <2>1. ASSUME NEW r \in Requests, Handle(r)
          PROVE  cookie' = cookie
      BY <2>1, HandleTypes DEF Worked
    <2>2. ASSUME NEW r \in Requests, Lose(r) \/ Raise(r)
          PROVE  cookie' = cookie
      BY <2>2 DEF Lose, Raise
    <2>3. ASSUME NEW r \in Requests, NEW c \in Browsers,
               \/ SendLogin(r, c) \/ SendLogout(r, c)
               \/ \E url \in urls : SendCallback(r, c, url)
          PROVE  cookie' = cookie
      BY <2>3, PostEffects DEF Posts, Sent
    <2>4. ASSUME NEW f \in Flows, NEW s \in Subjects, Authenticate(f, s)
          PROVE  cookie' = cookie
      BY <2>4 DEF Authenticate
    <2>5. UNCHANGED vars => cookie' = cookie
      BY DEF vars
    <2> QED BY <2>1, <2>2, <2>3, <2>4, <2>5 DEF Next
  <1> QED BY <1>4, <1>5, <1>6

\* The flows.
LEMMA FlowStep ==
    ASSUME TypeOK, HistoryOK, OwnInv, [Next]_vars
    PROVE  \A f \in Flows : FlowInv(f)'
  <1> SUFFICES ASSUME NEW f \in Flows
               PROVE  FlowInv(f)'
    OBVIOUS
  <1>1. FlowInv(f) /\ f \in Nat /\ begun \in Nat /\ checked[f] \in Nat
    BY Values, Numbers DEF OwnInv
  <1>2. ASSUME UNCHANGED <<begun, owner, atOp, subject, code, urls, checked>>
        PROVE  FlowInv(f)'
    BY <1>1, <1>2 DEF FlowInv
  <1>3. CASE UNCHANGED vars
    BY <1>2, <1>3 DEF vars, provider, history
  <1>4. ASSUME NEW r \in Requests, NEW b \in Browsers,
               \/ SendLogin(r, b) \/ SendLogout(r, b)
               \/ \E url \in urls : SendCallback(r, b, url)
        PROVE  FlowInv(f)'
    <2>1. Posts(r, b)
      BY <1>4, PostEffects
    <2> QED BY <1>2, <2>1 DEF Posts, Sent, provider, history
  <1>5. ASSUME NEW r \in Requests, Arrive(r) \/ Lose(r) \/ Raise(r)
        PROVE  FlowInv(f)'
    <2>1. UNCHANGED <<begun, owner, subject, code, urls, checked>>
      BY <1>5, OverEffects DEF Over
    <2>2. atOp' = atOp \/ (req[r].goes # NoFlow /\ atOp' = atOp \cup {req[r].goes})
      BY <1>5 DEF Arrive, Lose, Raise, provider
    <2>3. req[r].goes # NoFlow => req[r].goes <= begun /\ subject[req[r].goes] = NoSub
      BY DEF OwnInv, RequestInv
    <2>4. f > begun' => f \notin atOp'
      BY <1>1, <2>1, <2>2, <2>3 DEF FlowInv
    <2>5. f \in atOp' => subject'[f] = NoSub
      BY <1>1, <2>1, <2>2, <2>3 DEF FlowInv
    <2> QED BY <1>1, <2>1, <2>4, <2>5 DEF FlowInv
  <1>6. ASSUME NEW r \in Requests, Handle(r)
        PROVE  FlowInv(f)'
    <2>1. UNCHANGED <<atOp, subject, urls>>
      BY <1>6, HandleTypes DEF Worked
    <2>2. RequestInv(r)
      BY DEF OwnInv
    <2>3. CASE _login(r)
      <3>1. begun' = begun + 1 /\ code' = code /\ checked' = checked
            /\ \A g \in Flows \ {begun + 1} : owner'[g] = owner[g]
        BY <2>3, LoginEffects
      <3>2. f > begun' => f > begun /\ owner'[f] = owner[f]
        BY <1>1, <3>1
      <3> QED BY <1>1, <2>1, <3>1, <3>2 DEF FlowInv
    <2>4. CASE Check(r)
      <3>1. UNCHANGED <<begun, owner, code>>
        BY <2>4, CheckEffects
      <3>2. checked[f] <= checked'[f]
        BY GrowStep DEF Grows
      <3>3. checked'[f] = checked[f] \/ f = req[r].session.flow
        BY <2>4, CheckEffects, ZenonT(30) DEF HistoryOK
      <3>4. f = req[r].session.flow => ~(f > begun)
        <4>1. Live(r) /\ NoFlow \notin Flows
          BY <2>4, Values DEF Check, Live
        <4>2. req[r].browser \in Browsers /\ SessionInv(req[r].session, req[r].browser)
          BY <2>2, <4>1 DEF RequestInv
        <4> QED BY <4>1, <4>2, Owned DEF SessionInv
      <3>5. checked'[f] \in Nat
        BY TypeStep DEF HistoryOK
      <3>6. checked[f] >= 1 => checked'[f] >= 1
        BY <1>1, <3>2, <3>5
      <3> QED BY <1>1, <2>1, <3>1, <3>3, <3>4, <3>6 DEF FlowInv
    <2>5. CASE _exchange_code(r)
      <3>1. UNCHANGED <<begun, owner, checked>> /\ pc[r] = "exchange"
        BY <2>5, ExchangeEffects
      <3>2. code'[f] = code[f] \/ f = req[r].url.flow
        BY <2>5, ExchangeEffects, ZenonT(30) DEF TypeOK
      <3>3. code'[f] = code[f] \/ code'[f] = "used"
        BY <2>5, ExchangeEffects DEF TypeOK
      <3>4. f = req[r].url.flow => checked[f] >= 1
        BY <2>2, <3>1 DEF RequestInv, Past
      <3> QED BY <1>1, <2>1, <3>1, <3>2, <3>3, <3>4 DEF FlowInv
    <2>6. CASE LoginFails(r) \/ logout(r) \/ Discover(r) \/ _validate_id_token(r) \/ _fetch_userinfo(r)
      <3>1. UNCHANGED <<begun, owner, code, checked>>
        BY <2>6 DEF LoginFails, logout, Discover, _validate_id_token, _fetch_userinfo, provider, history
      <3> QED BY <1>2, <2>1, <3>1
    <2> QED BY <1>6, <2>3, <2>4, <2>5, <2>6 DEF Handle
  <1>7. ASSUME NEW g \in Flows, NEW s \in Subjects, Authenticate(g, s)
        PROVE  FlowInv(f)'
    <2>1. UNCHANGED <<begun, owner, checked>> /\ atOp' = atOp \ {g} /\ g \in atOp
      BY <1>7 DEF Authenticate, history
    <2>2. ~(g > begun)
      BY <2>1 DEF OwnInv, FlowInv
    <2>3. CASE f = g
      <3>1. \/ subject'[g] = s /\ code'[g] = "fresh"
            \/ /\ subject' = subject /\ code' = code
               /\ urls' = urls \cup {[flow |-> g, ok |-> FALSE]}
        BY <1>7 DEF Authenticate, TypeOK
      <3>2. code'[g] \in {code[g], "fresh"} /\ s # NoSub
        BY <3>1, RpAssumption
      <3>4. [flow |-> g, ok |-> TRUE] \in urls' => subject'[g] # NoSub /\ code'[g] # "none"
        <4>1. [flow |-> g, ok |-> TRUE] # [flow |-> g, ok |-> FALSE]
          OBVIOUS
        <4> QED BY <1>1, <2>3, <3>1, <3>2, <4>1 DEF FlowInv
      <3> QED BY <1>1, <2>1, <2>2, <2>3, <3>2, <3>4 DEF FlowInv
    <2>4. CASE f # g
      <3>1. subject'[f] = subject[f] /\ code'[f] = code[f]
        BY <1>7, <2>4 DEF Authenticate, TypeOK
      <3>2. [flow |-> f, ok |-> TRUE] # [flow |-> g, ok |-> TRUE]
            /\ [flow |-> f, ok |-> TRUE] # [flow |-> g, ok |-> FALSE]
        BY <2>4
      <3>3. [flow |-> f, ok |-> TRUE] \in urls' => [flow |-> f, ok |-> TRUE] \in urls
        BY <1>7, <3>2 DEF Authenticate
      <3> QED BY <1>1, <2>1, <3>1, <3>3 DEF FlowInv
    <2> QED BY <2>3, <2>4
  <1> QED BY <1>3, <1>4, <1>5, <1>6, <1>7 DEF Next

\* The redirects to the provider: the one that r carries may be delivered, dropped or
\* replaced by that of a new flow, and nobody else's flow gets a user.
Redirects(r) ==
    /\ \A o \in Requests \ {r} : pc'[o] = pc[o] /\ req'[o] = req[o]
    /\ \/ req'[r].goes \in {NoFlow, req[r].goes} /\ begun' = begun
       \/ req'[r].goes = begun + 1 /\ begun' = begun + 1
    /\ atOp' \subseteq atOp \cup ({req[r].goes} \ {req'[r].goes})
    /\ \A f \in Flows : f \notin atOp => subject'[f] = subject[f]

\* A request that a step does not touch.
LEMMA OtherRequest ==
    ASSUME TypeOK, HistoryOK, OwnInv, Grows, HistoryOK', NEW r \in Requests,
           NEW o \in Requests \ {r}, Redirects(r)
    PROVE  RequestInv(o)'
  <1> DEFINE q == req[o]
  <1>1. RequestInv(o) /\ q \in Reqs /\ req'[o] = q /\ pc'[o] = pc[o] /\ begun \in Nat
    BY Numbers DEF OwnInv, TypeOK, Redirects
  <1>2. q.session \in Sessions /\ q.goes \in Flows \cup {NoFlow} /\ q.url \in Urls \cup {NoUrl}
    BY <1>1 DEF Reqs
  <1>3. Live(o) => q.browser \in Browsers /\ SessionInv(q.session, q.browser)
    BY <1>1 DEF RequestInv
  <1>4. ASSUME NEW x \in Sessions, NEW b \in Browsers, SessionInv(x, b)
        PROVE  SessionInv(x, b)'
    BY <1>4, SessionKept
  <1>5. Live(o) => SessionInv(req[o].session, req[o].browser)'
    BY <1>1, <1>2, <1>3, <1>4 DEF SessionInv
  <1>6. ASSUME q.goes # NoFlow
        PROVE  /\ q.goes <= begun' /\ q.goes \notin atOp' /\ subject'[q.goes] = NoSub
               /\ \A p \in Requests \ {o} : req'[p].goes # q.goes
    <2>1. /\ q.goes <= begun /\ q.goes \notin atOp /\ subject[q.goes] = NoSub
          /\ \A p \in Requests \ {o} : req[p].goes # q.goes
          /\ q.goes \in Flows /\ q.goes \in Nat
      BY <1>1, <1>2, <1>6, Values DEF RequestInv
    <2>2. q.goes <= begun'
      BY <1>1, <2>1 DEF Redirects
    <2>3. q.goes \notin atOp' /\ subject'[q.goes] = NoSub
      BY <2>1 DEF Redirects
    <2>4. req'[r].goes # q.goes
      BY <1>1, <1>6, <2>1 DEF Redirects
    <2> QED BY <2>1, <2>2, <2>3, <2>4 DEF Redirects
  <1>7. pc[o] \in Past \cup {"check"} => q.url \in urls'
    BY <1>1 DEF RequestInv, Grows
  <1>8. pc[o] \in Past => owner'[q.flow] = q.browser /\ checked'[q.flow] >= 1
    <2>1. SUFFICES ASSUME pc[o] \in Past
                   PROVE  owner'[q.flow] = q.browser /\ checked'[q.flow] >= 1
      OBVIOUS
    <2>2. /\ q.flow \in Flows /\ owner[q.flow] = q.browser /\ checked[q.flow] >= 1
          /\ q.browser \in Browsers
      BY <1>1, <2>1 DEF RequestInv, Past, Live
    <2>3. checked[q.flow] <= checked'[q.flow] /\ owner'[q.flow] = q.browser
      BY <2>2 DEF Grows
    <2>4. checked[q.flow] \in Nat /\ checked'[q.flow] \in Nat
      BY <2>2, Numbers DEF HistoryOK
    <2> HIDE DEF q
    <2> QED BY <2>2, <2>3, <2>4
  <1> HIDE DEF q
  <1> QED BY <1>1, <1>3, <1>5, <1>6, <1>7, <1>8 DEF RequestInv, Live, q

\* The request itself: what is left to show of it when a handler has worked on it.
LEMMA OwnRequest ==
    ASSUME TypeOK, HistoryOK, OwnInv, Grows, HistoryOK', NEW r \in Requests, Live(r),
           Worked(r, pc'[r], req'[r]), UNCHANGED begun,
           req'[r].goes = req[r].goes,
           SessionInv(req[r].session, req[r].browser)',
           pc'[r] \in Past \cup {"respond"},
           pc'[r] \in Past => /\ pc[r] \in Past \cup {"check"}
                              /\ req'[r].flow \in Flows
                              /\ req[r].url = [flow |-> req'[r].flow, ok |-> TRUE]
                              /\ owner[req'[r].flow] = req[r].browser
                              /\ checked'[req'[r].flow] >= 1,
           pc'[r] = "userinfo" => req'[r].token.nonce = req'[r].flow
    PROVE  RequestInv(r)'
  <1>1. RequestInv(r) /\ req[r].browser \in Browsers
    BY DEF OwnInv, RequestInv
  <1>2. /\ req'[r].browser = req[r].browser /\ req'[r].kind = req[r].kind
        /\ req'[r].url = req[r].url /\ UNCHANGED <<atOp, subject, urls>>
        /\ \A o \in Requests \ {r} : req'[o] = req[o]
    BY DEF Worked, Alike
  <1>3. Live(r)' /\ pc'[r] \notin {"login", "logout", "check"}
    BY DEF Live, Past
  <1>4. pc'[r] \in Past => /\ req'[r].kind = "callback" /\ req'[r].url \in urls'
                           /\ owner'[req'[r].flow] = req'[r].browser
    BY <1>1, <1>2 DEF RequestInv, Grows
  <1>5. req'[r].goes # NoFlow =>
            /\ req'[r].goes <= begun' /\ req'[r].goes \notin atOp' /\ subject'[req'[r].goes] = NoSub
            /\ \A o \in Requests \ {r} : req'[o].goes # req'[r].goes
    BY <1>1, <1>2 DEF RequestInv
  <1>6. pc'[r] \in Past \cup {"check"} => pc'[r] \in Past
    BY <1>3
  <1> QED BY <1>1, <1>2, <1>3, <1>4, <1>5, <1>6 DEF RequestInv, Live

\* A session whose flow is replaced by one of the same browser, or by none.
LEMMA FlowReplaced ==
    ASSUME Grows, NEW s \in Sessions, NEW b \in Browsers, SessionInv(s, b),
           NEW f \in Flows \cup {NoFlow}, f # NoFlow => owner'[f] = b,
           NEW x, x = [s EXCEPT !.flow = f]
    PROVE  SessionInv(x, b)'
  <1>1. x.flow = f /\ x.from = s.from /\ x.who = s.who /\ x.info = s.info
    BY DEF Sessions
  <1>2. SessionInv(s, b)'
    BY SessionKept
  <1> QED BY <1>1, <1>2 DEF SessionInv

\* /login keeps what its request knows.
LEMMA LoginRequest ==
    ASSUME TypeOK, HistoryOK, OwnInv, Grows, NEW r \in Requests, _login(r)
    PROVE  RequestInv(r)' /\ Redirects(r)
  <1>1. /\ pc[r] = "login" /\ begun + 1 \in Flows /\ begun' = begun + 1
        /\ owner'[begun + 1] = req[r].browser
        /\ Worked(r, "respond", req'[r])
        /\ req'[r].goes = begun + 1
        /\ req'[r].session = [req[r].session EXCEPT !.flow = begun + 1]
    BY LoginEffects
  <1>2. RequestInv(r) /\ Live(r) /\ req[r].session \in Sessions
    BY <1>1 DEF OwnInv, Live, TypeOK, Reqs
  <1>3. req[r].browser \in Browsers /\ SessionInv(req[r].session, req[r].browser)
    BY <1>2 DEF RequestInv
  <1>4. /\ req'[r].browser = req[r].browser /\ pc'[r] = "respond"
        /\ UNCHANGED <<atOp, subject>>
        /\ \A o \in Requests \ {r} : req'[o] = req[o] /\ pc'[o] = pc[o]
    BY <1>1 DEF Worked, Alike
  <1>5. ASSUME NEW x, x = req'[r].session, NEW b, b = req[r].browser, NEW f, f = begun + 1
        PROVE  SessionInv(x, b)'
    BY <1>1, <1>2, <1>3, <1>5, FlowReplaced
  <1>6. SessionInv(req[r].session, req[r].browser)'
    BY <1>4, <1>5 DEF SessionInv
  <1>7. begun + 1 > begun /\ begun + 1 # NoFlow
    BY <1>1, Numbers, Values
  <1>8. begun + 1 \notin atOp /\ subject[begun + 1] = NoSub
    BY <1>1, <1>7 DEF OwnInv, FlowInv
  <1>9. \A o \in Requests \ {r} : req'[o].goes # begun + 1
    <2>1. \A o \in Requests : req[o].goes = NoFlow \/ req[o].goes <= begun
      BY DEF OwnInv, RequestInv
    <2>2. begun \in Nat /\ ~(begun + 1 <= begun)
      BY Numbers
    <2> QED BY <1>4, <1>7, <2>1, <2>2
  <1>10. begun + 1 <= begun'
    BY <1>1, Numbers
  <1>11. Live(r)' /\ pc'[r] \notin Past \cup {"check", "login", "logout", "userinfo"}
    BY <1>4 DEF Live, Past
  <1>12. RequestInv(r)'
    BY <1>1, <1>3, <1>4, <1>6, <1>8, <1>9, <1>10, <1>11 DEF RequestInv
  <1>13. Redirects(r)
    BY <1>1, <1>4 DEF Redirects
  <1> QED BY <1>12, <1>13

\* Handlers that only move on keep what their request knows.
LEMMA PlaceRequest ==
    ASSUME TypeOK, HistoryOK, OwnInv, Grows, HistoryOK', NEW r \in Requests,
           LoginFails(r) \/ Discover(r) \/ _validate_id_token(r)
    PROVE  RequestInv(r)'
  <1>1. /\ req' = req /\ Worked(r, pc'[r], req'[r]) /\ UNCHANGED <<begun, owner, checked>>
        /\ Live(r) /\ pc'[r] \in Past \cup {"respond"}
        /\ pc'[r] \in Past => pc[r] \in Past
        /\ pc'[r] = "userinfo" => NonceMatches(r)
    BY PlaceEffects DEF Past, Live
  <1>2. /\ RequestInv(r) /\ req[r].session \in Sessions
    BY DEF OwnInv, TypeOK, Reqs
  <1>3. req[r].browser \in Browsers /\ SessionInv(req[r].session, req[r].browser)
    BY <1>1, <1>2 DEF RequestInv
  <1>4. ASSUME NEW x \in Sessions, NEW b \in Browsers, SessionInv(x, b)
        PROVE  SessionInv(x, b)'
    BY <1>4, SessionKept
  <1>5. SessionInv(req[r].session, req[r].browser)'
    BY <1>1, <1>2, <1>3, <1>4 DEF SessionInv
  <1>6. pc'[r] \in Past => /\ pc[r] \in Past \cup {"check"}
                              /\ req'[r].flow \in Flows
                              /\ req[r].url = [flow |-> req'[r].flow, ok |-> TRUE]
                              /\ owner[req'[r].flow] = req[r].browser
                              /\ checked'[req'[r].flow] >= 1
    BY <1>1, <1>2 DEF RequestInv
  <1>7. pc'[r] = "userinfo" => req'[r].token.nonce = req'[r].flow
    BY <1>1 DEF NonceMatches
  <1> QED BY <1>1, <1>5, <1>6, <1>7, OwnRequest

\* /logout keeps what its request knows.
LEMMA LogoutRequest ==
    ASSUME TypeOK, HistoryOK, OwnInv, Grows, HistoryOK', NEW r \in Requests, logout(r)
    PROVE  RequestInv(r)'
  <1>1. /\ Worked(r, pc'[r], req'[r]) /\ UNCHANGED begun /\ pc'[r] = "respond" /\ Live(r)
        /\ req'[r].session = Empty /\ req'[r].goes = req[r].goes
    BY LogoutEffects DEF Worked, Live
  <1>2. SessionInv(req[r].session, req[r].browser)'
    BY <1>1, Values DEF SessionInv
  <1>3. pc'[r] \notin Past /\ pc'[r] # "userinfo"
    BY <1>1 DEF Past
  <1> QED BY <1>1, <1>2, <1>3, OwnRequest

\* The checks establish that the request completes a flow of its browser.
LEMMA CheckRequest ==
    ASSUME TypeOK, HistoryOK, OwnInv, Grows, HistoryOK', NEW r \in Requests, Check(r)
    PROVE  RequestInv(r)'
  <1> DEFINE f == req[r].session.flow
  <1>1. /\ Worked(r, pc'[r], req'[r]) /\ UNCHANGED <<begun, owner>> /\ pc[r] = "check" /\ Live(r)
        /\ req'[r].goes = req[r].goes
        /\ req'[r].session = [req[r].session EXCEPT !.flow = NoFlow]
    BY CheckEffects DEF Live
  <1>2. RequestInv(r) /\ req[r].session \in Sessions /\ urls \subseteq Urls
    BY DEF OwnInv, TypeOK, Reqs
  <1>3. /\ req[r].browser \in Browsers /\ SessionInv(req[r].session, req[r].browser)
        /\ req[r].url \in Urls
    BY <1>1, <1>2 DEF RequestInv
  <1>4. ASSUME NEW x, x = req'[r].session, NEW b, b = req[r].browser, NEW g, g = NoFlow
        PROVE  SessionInv(x, b)'
    BY <1>1, <1>2, <1>3, <1>4, FlowReplaced
  <1>5. SessionInv(req[r].session, req[r].browser)'
    BY <1>1, <1>4 DEF SessionInv, Worked, Alike
  <1>6. CASE pc'[r] = "respond"
    <2>1. pc'[r] \notin Past /\ pc'[r] # "userinfo"
      BY <1>6 DEF Past
    <2> QED BY <1>1, <1>5, <1>6, <2>1, OwnRequest
  <1>7. CASE pc'[r] # "respond"
    <2>1. /\ pc'[r] = "discover" /\ f \in Flows /\ req'[r].flow = f
          /\ req[r].url.ok /\ req[r].url.flow = f
          /\ checked' = [checked EXCEPT ![f] = IF @ < 2 THEN @ + 1 ELSE @]
      BY <1>7, CheckEffects
    <2>2. req[r].url = [flow |-> f, ok |-> TRUE]
      BY <1>3, <2>1 DEF Urls
    <2>3. owner[f] = req[r].browser
      BY <1>3, <2>1, Values DEF SessionInv
    <2>4. checked'[f] >= 1
      BY <2>1 DEF HistoryOK
    <2>5. pc'[r] \in Past /\ pc'[r] # "userinfo"
      BY <2>1 DEF Past
    <2> HIDE DEF f
    <2> QED BY <1>1, <1>5, <2>1, <2>2, <2>3, <2>4, <2>5, OwnRequest
  <1> QED BY <1>6, <1>7

\* The exchange keeps what its request knows.
LEMMA ExchangeRequest ==
    ASSUME TypeOK, HistoryOK, OwnInv, Grows, HistoryOK', NEW r \in Requests, _exchange_code(r)
    PROVE  RequestInv(r)'
  <1>1. /\ Worked(r, pc'[r], req'[r]) /\ UNCHANGED <<begun, owner, checked>>
        /\ pc[r] = "exchange" /\ Live(r) /\ pc'[r] \in {"validate", "respond"}
        /\ req'[r].goes = req[r].goes /\ req'[r].session = req[r].session
        /\ req'[r].flow = req[r].flow
    BY ExchangeEffects DEF Live
  <1>2. RequestInv(r) /\ req[r].session \in Sessions
    BY DEF OwnInv, TypeOK, Reqs
  <1>3. req[r].browser \in Browsers /\ SessionInv(req[r].session, req[r].browser)
    BY <1>1, <1>2 DEF RequestInv
  <1>4. ASSUME NEW x \in Sessions, NEW b \in Browsers, SessionInv(x, b)
        PROVE  SessionInv(x, b)'
    BY <1>4, SessionKept
  <1>5. req'[r].browser = req[r].browser
    BY <1>1 DEF Worked, Alike
  <1>6. SessionInv(req[r].session, req[r].browser)'
    BY <1>1, <1>2, <1>3, <1>4, <1>5 DEF SessionInv
  <1>7. /\ pc[r] \in Past /\ pc'[r] \in Past \cup {"respond"} /\ pc'[r] # "userinfo"
    BY <1>1 DEF Past
  <1>8. /\ req'[r].flow \in Flows
        /\ req[r].url = [flow |-> req'[r].flow, ok |-> TRUE]
        /\ owner[req'[r].flow] = req[r].browser
        /\ checked'[req'[r].flow] >= 1
    BY <1>1, <1>2, <1>7 DEF RequestInv
  <1> QED BY <1>1, <1>6, <1>7, <1>8, OwnRequest

\* The identity that is stored is that of the user of the request's own flow.
LEMMA UserinfoRequest ==
    ASSUME TypeOK, HistoryOK, OwnInv, Grows, HistoryOK', NEW r \in Requests, _fetch_userinfo(r)
    PROVE  /\ RequestInv(r)' /\ Worked(r, "respond", req'[r])
           /\ req'[r].goes = req[r].goes /\ UNCHANGED <<begun, owner, code, checked>>
           /\ \/ /\ req'[r].session.flow = req[r].session.flow
                 /\ req'[r].session.from = req[r].flow
                 /\ req'[r].session.who = subject[req[r].flow]
              \/ req' = req /\ Fault(r)
  <1> DEFINE f == req[r].flow
             sub == subject[f]
  <1>1. pc[r] = "userinfo" /\ RequestInv(r) /\ req[r].session \in Sessions
    BY DEF _fetch_userinfo, OwnInv, TypeOK, Reqs
  <1>2. /\ f \in Flows /\ req[r].token.nonce = f /\ req[r].url = [flow |-> f, ok |-> TRUE]
        /\ req[r].url \in urls /\ owner[f] = req[r].browser
    BY <1>1 DEF RequestInv, Past
  <1>3. sub # NoSub
    BY <1>2 DEF OwnInv, FlowInv
  <1>4. Live(r) /\ req[r].browser \in Browsers /\ SessionInv(req[r].session, req[r].browser)
    BY <1>1 DEF RequestInv, Live
  <1>5. /\ Worked(r, "respond", req'[r])
        /\ req'[r].goes = req[r].goes
        /\ UNCHANGED <<begun, owner, code, checked>>
        /\ \/ \E info \in {sub, NoSub} : req'[r].session =
                      [req[r].session EXCEPT !.who = sub, !.info = info, !.from = f]
           \/ req' = req /\ Fault(r)
    BY <1>2, UserinfoEffects, ZenonT(30)
  <1>6. ASSUME NEW x \in Sessions, NEW b \in Browsers, SessionInv(x, b)
        PROVE  SessionInv(x, b)'
    BY <1>6, SessionKept
  <1>7. req'[r].browser = req[r].browser /\ pc'[r] = "respond" /\ subject' = subject
    BY <1>5 DEF Worked, Alike
  <1>8. CASE req' = req /\ Fault(r)
    <2>1. SessionInv(req[r].session, req[r].browser)'
      BY <1>1, <1>4, <1>6, <1>8 DEF SessionInv
    <2>2. pc'[r] \notin Past /\ pc'[r] # "userinfo"
      BY <1>7 DEF Past
    <2>3. RequestInv(r)'
      BY <1>4, <1>5, <1>7, <2>1, <2>2, OwnRequest
    <2> QED BY <1>5, <1>8, <2>3
  <1>9. CASE \E info \in {sub, NoSub} : req'[r].session =
                 [req[r].session EXCEPT !.who = sub, !.info = info, !.from = f]
    <2>1. PICK info \in {sub, NoSub} : req'[r].session =
                 [req[r].session EXCEPT !.who = sub, !.info = info, !.from = f]
      BY <1>9
    <2>2. /\ req'[r].session.flow = req[r].session.flow /\ req'[r].session.from = f
          /\ req'[r].session.who = sub /\ req'[r].session.info = info
      BY <1>1, <2>1 DEF Sessions
    <2>3. SessionInv(req[r].session, req[r].browser)'
      BY <1>2, <1>3, <1>4, <1>5, <1>7, <2>2 DEF SessionInv
    <2>4. pc'[r] \notin Past /\ pc'[r] # "userinfo"
      BY <1>7 DEF Past
    <2>5. RequestInv(r)'
      BY <1>4, <1>5, <1>7, <2>3, <2>4, OwnRequest
    <2> QED BY <1>5, <2>2, <2>5
  <1> QED BY <1>5, <1>8, <1>9

\* Every handler keeps what its request knows.
LEMMA HandleRequest ==
    ASSUME TypeOK, HistoryOK, OwnInv, Grows, HistoryOK', NEW r \in Requests, Handle(r)
    PROVE  RequestInv(r)' /\ Redirects(r)
  <1>1. Worked(r, pc'[r], req'[r])
    BY HandleTypes
  <1>2. ASSUME begun' = begun, req'[r].goes = req[r].goes
        PROVE  Redirects(r)
    BY <1>1, <1>2 DEF Worked, Redirects
  <1>3. CASE _login(r)
    BY <1>3, LoginRequest
  <1>4. CASE LoginFails(r) \/ Discover(r) \/ _validate_id_token(r)
    BY <1>2, <1>4, PlaceRequest, PlaceEffects
  <1>5. CASE logout(r)
    BY <1>2, <1>5, LogoutRequest, LogoutEffects
  <1>6. CASE Check(r)
    BY <1>2, <1>6, CheckRequest, CheckEffects
  <1>7. CASE _exchange_code(r)
    BY <1>2, <1>7, ExchangeRequest, ExchangeEffects
  <1>8. CASE _fetch_userinfo(r)
    BY <1>2, <1>8, UserinfoRequest
  <1> QED BY <1>3, <1>4, <1>5, <1>6, <1>7, <1>8 DEF Handle

\* The requests.
LEMMA RequestStep ==
    ASSUME TypeOK, HistoryOK, OwnInv, [Next]_vars
    PROVE  \A r \in Requests : RequestInv(r)'
  <1>1. Grows /\ HistoryOK'
    BY GrowStep, TypeStep
  <1>2. ASSUME NEW r \in Requests, Redirects(r), RequestInv(r)'
        PROVE  \A o \in Requests : RequestInv(o)'
    BY <1>1, <1>2, OtherRequest
  <1>3. CASE UNCHANGED vars
    <2>1. UNCHANGED <<pc, req, begun, atOp, subject, urls, owner, checked>>
      BY <1>3 DEF vars, provider, history
    <2> QED BY <2>1 DEF OwnInv, RequestInv, Live, SessionInv
  <1>4. ASSUME NEW r \in Requests, NEW b \in Browsers,
               \/ SendLogin(r, b) \/ SendLogout(r, b)
               \/ \E url \in urls : SendCallback(r, b, url)
        PROVE  \A o \in Requests : RequestInv(o)'
    <2>1. Posts(r, b)
      BY <1>4, PostEffects
    <2>2. /\ UNCHANGED <<begun, atOp, subject, urls, owner>> /\ req'[r].goes = NoFlow
          /\ \A o \in Requests \ {r} : pc'[o] = pc[o] /\ req'[o] = req[o]
          /\ req'[r].browser = b /\ req'[r].session = cookie[b]
      BY <2>1 DEF Posts, Sent, provider
    <2>3. Redirects(r)
      BY <2>2 DEF Redirects
    <2>4. /\ pc'[r] \notin Past \cup {"idle"}
          /\ pc'[r] = "login" => req'[r].kind = "login"
          /\ pc'[r] = "logout" => req'[r].kind = "logout"
          /\ pc'[r] = "check" => req'[r].kind = "callback" /\ req'[r].url \in urls
      BY <2>1 DEF Posts, Sent, Past
    <2>5. SessionInv(req[r].session, req[r].browser)'
      BY <2>2 DEF OwnInv, SessionInv
    <2>6. RequestInv(r)'
      BY <2>2, <2>4, <2>5 DEF RequestInv, Live, Past
    <2> QED BY <1>2, <2>3, <2>6
  <1>5. ASSUME NEW r \in Requests, Arrive(r) \/ Lose(r) \/ Raise(r)
        PROVE  \A o \in Requests : RequestInv(o)'
    <2>1. Over(r)
      BY <1>5, OverEffects
    <2>2. req'[r].goes = NoFlow /\ pc'[r] = "idle"
      BY <2>1, Values DEF Over
    <2>3. RequestInv(r)'
      BY <2>2 DEF RequestInv, Live, Past
    <2>4. atOp' = atOp \/ (req[r].goes # NoFlow /\ atOp' = atOp \cup {req[r].goes})
      BY <1>5 DEF Arrive, Lose, Raise, provider
    <2>5. Redirects(r)
      BY <2>1, <2>2, <2>4 DEF Over, Redirects
    <2> QED BY <1>2, <2>3, <2>5
  <1>6. ASSUME NEW r \in Requests, Handle(r)
        PROVE  \A o \in Requests : RequestInv(o)'
    BY <1>1, <1>2, <1>6, HandleRequest
  <1>7. ASSUME NEW f \in Flows, NEW s \in Subjects, Authenticate(f, s), NEW r \in Requests
        PROVE  RequestInv(r)'
    <2>1. /\ UNCHANGED <<begun, owner, pc, req, checked>> /\ atOp' = atOp \ {f} /\ f \in atOp
      BY <1>7 DEF Authenticate, history
    <2>2. RequestInv(r) /\ req[r].session \in Sessions
      BY DEF OwnInv, TypeOK, Reqs
    <2>3. ASSUME NEW x \in Sessions, NEW b \in Browsers, SessionInv(x, b)
          PROVE  SessionInv(x, b)'
      BY <1>1, <2>3, SessionKept
    <2>4. Live(r) => req[r].browser \in Browsers /\ SessionInv(req[r].session, req[r].browser)'
      BY <2>1, <2>2, <2>3 DEF SessionInv, RequestInv
    <2>5. req[r].goes # NoFlow => req[r].goes # f /\ req[r].goes \in Flows
      BY <2>1, <2>2 DEF RequestInv, TypeOK, Reqs
    <2>6. req[r].goes # NoFlow => subject'[req[r].goes] = subject[req[r].goes]
      BY <1>7, <2>5 DEF Authenticate, TypeOK
    <2> QED BY <1>1, <2>1, <2>2, <2>4, <2>6 DEF RequestInv, Live, Grows
  <1> QED BY <1>3, <1>4, <1>5, <1>6, <1>7 DEF Next

\* Every step keeps whose identities cookies, sessions and requests hold.
LEMMA OwnStep ==
    ASSUME TypeOK, HistoryOK, OwnInv, [Next]_vars
    PROVE  OwnInv'
  <1>1. \A b \in Browsers : SessionInv(cookie[b], b)'
    BY CookieStep
  <1>2. \A f \in Flows : FlowInv(f)'
    BY FlowStep
  <1>3. \A r \in Requests : RequestInv(r)'
    BY RequestStep
  <1> QED BY <1>1, <1>2, <1>3 DEF OwnInv

-----------------------------------------------------------------------------
(* Browsers that wait for their responses                                  *)

\* A step of another browser, or of the provider: the cookie of b stays, nobody passes
\* the checks with a flow of b, and no code of b is spent.
Elsewhere(b) ==
    /\ cookie'[b] = cookie[b] /\ cutoff'[b] = cutoff[b] /\ died \subseteq died'
    /\ \A f \in Flows : owner[f] = b =>
            checked'[f] = checked[f] /\ (code'[f] = code[f] \/ code'[f] = "fresh")

\* What happens elsewhere leaves the session of a browser unspent.
LEMMA UnspentKept ==
    ASSUME NEW s \in Sessions, NEW b \in Browsers, SessionInv(s, b), Unspent(s, b), Elsewhere(b)
    PROVE  Unspent(s, b)'
  <1>1. s.flow \in Flows \cup {NoFlow}
    BY DEF Sessions
  <1>2. s.flow # NoFlow => owner[s.flow] = b
    BY DEF SessionInv
  <1> QED BY <1>1, <1>2 DEF Unspent, Elsewhere

\* A genuine response names a flow.
LEMMA GenuineUrl ==
    ASSUME TypeOK, NEW r \in Requests, Genuine(r)
    PROVE  req[r].url \in Urls /\ req[r].url.flow \in Flows /\ req[r].url.flow # NoFlow
  <1>1. req[r].url \in Urls \cup {NoUrl} /\ req[r].url.ok
    BY DEF Genuine, TypeOK, Reqs
  <1>2. req[r].url # NoUrl
    BY <1>1 DEF NoUrl
  <1> QED BY <1>1, <1>2, Values DEF Urls

\* What happens elsewhere leaves a waiting request alone.
LEMMA WaitingKept ==
    ASSUME TypeOK, HistoryOK, OwnInv, Grows, NEW o \in Requests, Live(o), WaitingInv(o),
           pc'[o] = pc[o], req'[o] = req[o], Elsewhere(req[o].browser),
           \A p \in Requests \ {o} : Live(p)' => req'[p].browser # req[o].browser
    PROVE  WaitingInv(o)'
  <1>1. RequestInv(o) /\ req[o].session \in Sessions
    BY DEF OwnInv, TypeOK, Reqs
  <1>2. req[o].browser \in Browsers /\ SessionInv(req[o].session, req[o].browser)
    BY <1>1 DEF RequestInv
  <1>3. Unspent(req[o].session, req[o].browser)'
    <2>1. ASSUME NEW s \in Sessions, NEW b \in Browsers, s = req[o].session, b = req[o].browser
          PROVE  Unspent(s, b)'
      <3>1. Unspent(s, b) /\ SessionInv(s, b) /\ Elsewhere(b)
        BY <1>2, <2>1 DEF WaitingInv
      <3> QED BY <3>1, UnspentKept
    <2> QED BY <1>1, <1>2, <2>1 DEF Unspent
  <1>4. req'[o].sent = cookie'[req'[o].browser]
    BY DEF WaitingInv, Elsewhere
  <1>5. pc'[o] \in Past => /\ req'[o].flow > cutoff'[req'[o].browser]
                           /\ req'[o].flow = req'[o].sent.flow
    BY DEF WaitingInv, Elsewhere
  <1>6. pc'[o] \in {"discover", "exchange"} /\ req'[o].flow \notin Faulty
            => code'[req'[o].flow] = "fresh"
    <2>1. pc[o] \in {"discover", "exchange"} /\ req[o].flow \notin Faulty =>
             /\ req[o].flow \in Flows /\ owner[req[o].flow] = req[o].browser
             /\ code[req[o].flow] = "fresh"
      BY <1>1 DEF RequestInv, Past, WaitingInv
    <2> QED BY <2>1 DEF Elsewhere
  <1>7. Genuine(o)' => Genuine(o)
    BY DEF Genuine
  <1>8. Genuine(o) /\ pc[o] = "respond" => subject'[req[o].url.flow] = subject[req[o].url.flow]
    <2>1. SUFFICES ASSUME Genuine(o), pc[o] = "respond"
                   PROVE  subject'[req[o].url.flow] = subject[req[o].url.flow]
      OBVIOUS
    <2>2. req[o].session.from = req[o].url.flow /\ req[o].url.flow \in Flows /\ req[o].url.flow # NoFlow
      BY <2>1, GenuineUrl DEF WaitingInv
    <2>3. subject[req[o].url.flow] # NoSub
      BY <1>2, <2>2 DEF SessionInv
    <2> QED BY <2>2, <2>3 DEF Grows
  <1> QED BY <1>3, <1>4, <1>5, <1>6, <1>7, <1>8 DEF WaitingInv

\* What happens elsewhere leaves a browser that waits alone.
LEMMA IdleKept ==
    ASSUME TypeOK, HistoryOK, OwnInv, Grows, TypeOK', NEW b \in Browsers, IdleInv(b), Elsewhere(b),
           (\A r \in Requests : Live(r)' => req'[r].browser # b)
                => \A r \in Requests : Live(r) => req[r].browser # b
    PROVE  IdleInv(b)'
  <1>1. cutoff'[b] <= begun'
    <2>1. cutoff'[b] = cutoff[b] /\ cutoff[b] <= begun /\ begun <= begun'
      BY DEF Elsewhere, IdleInv, Grows
    <2>2. cutoff[b] \in Int /\ begun \in Int /\ begun' \in Int
      BY Numbers DEF TypeOK
    <2> QED BY <2>1, <2>2
  <1>2. cookie[b] \in Sessions /\ SessionInv(cookie[b], b)
    BY DEF TypeOK, OwnInv
  <1>3. Unspent(cookie[b], b) => Unspent(cookie[b], b)'
    <2>1. ASSUME NEW s \in Sessions, s = cookie[b], Unspent(s, b)
          PROVE  Unspent(s, b)'
      BY <1>2, <2>1, UnspentKept
    <2> QED BY <1>2, <2>1 DEF Unspent, Elsewhere
  <1>4. cookie'[b].from # NoFlow => cookie'[b].from > cutoff'[b]
    BY DEF IdleInv, Elsewhere
  <1> QED BY <1>1, <1>3, <1>4 DEF IdleInv

\* A step of one browser's request keeps what the other browsers rely on.
LEMMA OthersWait ==
    ASSUME TypeOK, HistoryOK, OwnInv, Grows, TypeOK', WaitInv, NEW r \in Requests, NEW b \in Browsers,
           \A o \in Requests \ {r} : pc'[o] = pc[o] /\ req'[o] = req[o],
           Live(r) => req[r].browser = b,
           Live(r)' => req'[r].browser = b,
           \A c \in Browsers \ {b} : Elsewhere(c),
           b \notin Hasty => \A o \in Requests \ {r} : Live(o) => req[o].browser # b
    PROVE  /\ \A o \in Requests \ {r} : Live(o)' /\ req'[o].browser \notin Hasty => WaitingInv(o)'
           /\ \A c \in Browsers \ Hasty : c # b => IdleInv(c)'
           /\ \A f \in Flows : owner[f] \in Browsers \ Hasty /\ owner[f] # b
                => checked'[f] <= 1 \/ f \in died'
  <1>1. ASSUME NEW o \in Requests \ {r}, Live(o)', req'[o].browser \notin Hasty
        PROVE  WaitingInv(o)'
    <2>1. pc'[o] = pc[o] /\ req'[o] = req[o] /\ Live(o)
      BY <1>1 DEF Live
    <2>2. WaitingInv(o) /\ RequestInv(o)
      BY <1>1, <2>1 DEF WaitInv, OwnInv
    <2>3. req[o].browser \in Browsers /\ req[o].browser # b
      BY <1>1, <2>1, <2>2 DEF RequestInv
    <2>4. \A p \in Requests \ {o} : Live(p)' => req'[p].browser # req[o].browser
      BY <2>2, <2>3 DEF WaitingInv, Live
    <2> QED BY <2>1, <2>2, <2>3, <2>4, WaitingKept
  <1>2. ASSUME NEW c \in Browsers \ Hasty, c # b
        PROVE  IdleInv(c)'
    <2>1. Elsewhere(c) /\ IdleInv(c)
      BY <1>2 DEF WaitInv
    <2>2. (\A o \in Requests : Live(o)' => req'[o].browser # c)
              => \A o \in Requests : Live(o) => req[o].browser # c
      BY <1>2 DEF Live
    <2> QED BY <2>1, <2>2, IdleKept
  <1>3. ASSUME NEW f \in Flows, owner[f] \in Browsers \ Hasty, owner[f] # b
        PROVE  checked'[f] <= 1 \/ f \in died'
    BY <1>3 DEF WaitInv, FlowSpent, Elsewhere
  <1> QED BY <1>1, <1>2, <1>3

\* What is left to show of the request of a waiting browser that a handler worked on.
LEMMA OwnWaiting ==
    ASSUME NEW r \in Requests, WaitingInv(r), Worked(r, pc'[r], req'[r]),
           Unspent(req[r].session, req[r].browser)',
           pc'[r] \in Past \cup {"respond"},
           req[r].kind # "logout" \/ (req'[r].session = Empty /\ pc'[r] = "respond"),
           pc'[r] \in Past => req'[r].flow > cutoff[req[r].browser] /\ req'[r].flow = req[r].sent.flow,
           pc'[r] \in {"discover", "exchange"} /\ req'[r].flow \notin Faulty
                => code'[req'[r].flow] = "fresh",
           Genuine(r) =>
               /\ pc'[r] = "validate" => req'[r].token = [nonce |-> req'[r].flow, valid |-> TRUE]
               /\ pc'[r] = "respond" => /\ req'[r].session.from = req[r].url.flow
                                        /\ req'[r].session.who = subject[req[r].url.flow]
    PROVE  WaitingInv(r)'
  <1>1. /\ req'[r].browser = req[r].browser /\ req'[r].kind = req[r].kind
        /\ req'[r].sent = req[r].sent /\ req'[r].url = req[r].url
        /\ UNCHANGED <<cookie, subject, cutoff>>
        /\ \A o \in Requests \ {r} : req'[o] = req[o] /\ pc'[o] = pc[o]
    BY DEF Worked, Alike
  <1>2. Genuine(r)' => Genuine(r)
    BY <1>1 DEF Genuine
  <1>3. pc'[r] # "check"
    BY DEF Past
  <1> QED BY <1>1, <1>2, <1>3 DEF WaitingInv, Live

\* The session of a waiting browser when its checks and its logout are not touched.
LEMMA UnspentSame ==
    ASSUME NEW r \in Requests, WaitingInv(r), Worked(r, pc'[r], req'[r]), UNCHANGED checked,
           req'[r].session.flow = req[r].session.flow,
           req'[r].session.from # NoFlow =>
                req'[r].session.from = req[r].session.from
                    \/ req'[r].session.from > cutoff[req[r].browser]
    PROVE  Unspent(req[r].session, req[r].browser)'
  <1>1. req'[r].browser = req[r].browser /\ UNCHANGED <<died, cutoff>>
    BY DEF Worked, Alike
  <1>2. Unspent(req[r].session, req[r].browser)
    BY DEF WaitingInv
  <1> QED BY <1>1, <1>2 DEF Unspent

\* /login begins a flow younger than any logout, which nobody has checked.
LEMMA LoginWaiting ==
    ASSUME TypeOK, HistoryOK, OwnInv, NEW r \in Requests, WaitingInv(r),
           req[r].browser \in Browsers, cutoff[req[r].browser] <= begun, _login(r)
    PROVE  WaitingInv(r)'
  <1>1. /\ pc[r] = "login" /\ begun + 1 \in Flows
        /\ Worked(r, pc'[r], req'[r]) /\ pc'[r] = "respond"
        /\ req'[r].session = [req[r].session EXCEPT !.flow = begun + 1]
        /\ UNCHANGED <<code, checked>>
    BY LoginEffects DEF Worked
  <1>2. RequestInv(r) /\ req[r].session \in Sessions
    BY DEF OwnInv, TypeOK, Reqs
  <1>3. req[r].kind = "login" /\ pc'[r] \notin Past
    BY <1>1, <1>2 DEF RequestInv, Past
  <1>4. req'[r].session.flow = begun + 1 /\ req'[r].session.from = req[r].session.from
    BY <1>1, <1>2 DEF Sessions
  <1>5. begun + 1 > begun /\ begun + 1 > cutoff[req[r].browser]
    BY Numbers
  <1>6. checked[begun + 1] = 0
    BY <1>1, <1>5 DEF OwnInv, FlowInv
  <1>7. req'[r].browser = req[r].browser /\ UNCHANGED cutoff
    BY <1>1 DEF Worked, Alike
  <1>8. Unspent(req[r].session, req[r].browser)'
    BY <1>1, <1>4, <1>5, <1>6, <1>7 DEF Unspent, WaitingInv
  <1>9. ~Genuine(r)
    BY <1>3 DEF Genuine
  <1> QED BY <1>1, <1>3, <1>8, <1>9, OwnWaiting

\* Handlers that only move on keep what a waiting request relies on.
LEMMA PlaceWaiting ==
    ASSUME TypeOK, HistoryOK, OwnInv, NEW r \in Requests, WaitingInv(r),
           LoginFails(r) \/ Discover(r) \/ _validate_id_token(r)
    PROVE  WaitingInv(r)'
  <1>1. /\ req' = req /\ Worked(r, pc'[r], req'[r]) /\ UNCHANGED <<code, checked>>
        /\ \/ pc[r] = "login" /\ pc'[r] = "respond"
           \/ pc[r] = "discover" /\ pc'[r] = "exchange"
           \/ pc[r] = "discover" /\ pc'[r] = "respond" /\ Fault(r)
           \/ pc[r] = "validate" /\ pc'[r] = "userinfo"
           \/ /\ pc[r] = "validate" /\ pc'[r] = "respond"
              /\ ~(req[r].token.valid /\ NonceMatches(r))
    BY PlaceEffects
  <1>2. RequestInv(r)
    BY DEF OwnInv
  <1>3. req[r].kind # "logout" /\ pc'[r] \in Past \cup {"respond"} /\ pc'[r] # "validate"
        /\ (pc'[r] \in Past => pc[r] \in Past)
    BY <1>1, <1>2 DEF RequestInv, Past
  <1>4. Unspent(req[r].session, req[r].browser)'
    BY <1>1, UnspentSame
  <1>5. pc'[r] \in Past => req'[r].flow > cutoff[req[r].browser] /\ req'[r].flow = req[r].sent.flow
    BY <1>1, <1>3 DEF WaitingInv
  <1>6. pc'[r] \in {"discover", "exchange"} /\ req'[r].flow \notin Faulty
            => code'[req'[r].flow] = "fresh"
    BY <1>1 DEF WaitingInv
  <1>7. ASSUME Genuine(r)
        PROVE  pc'[r] # "respond"
    <2>1. pc[r] # "login"
      BY <1>2, <1>7 DEF RequestInv, Genuine
    <2>2. pc[r] = "discover" => ~Fault(r)
      BY <1>2, <1>7 DEF RequestInv, Genuine, Fault, Past
    <2>3. pc[r] = "validate" => req[r].token.valid /\ NonceMatches(r)
      <3>1. pc[r] = "validate" => req[r].token = [nonce |-> req[r].flow, valid |-> TRUE]
        BY <1>7 DEF WaitingInv
      <3> QED BY <3>1 DEF NonceMatches
    <2> QED BY <1>1, <2>1, <2>2, <2>3
  <1> QED BY <1>1, <1>3, <1>4, <1>5, <1>6, <1>7, OwnWaiting

\* /logout leaves the empty session.
LEMMA LogoutWaiting ==
    ASSUME TypeOK, OwnInv, NEW r \in Requests, WaitingInv(r), logout(r)
    PROVE  WaitingInv(r)'
  <1>1. /\ pc[r] = "logout" /\ Worked(r, pc'[r], req'[r]) /\ pc'[r] = "respond"
        /\ req'[r].session = Empty
    BY LogoutEffects DEF Worked
  <1>2. req[r].kind = "logout" /\ pc'[r] \notin Past
    BY <1>1 DEF OwnInv, RequestInv, Past
  <1>3. Unspent(req[r].session, req[r].browser)'
    BY <1>1, Values DEF Unspent
  <1>4. ~Genuine(r)
    BY <1>2 DEF Genuine
  <1> QED BY <1>1, <1>2, <1>3, <1>4, OwnWaiting

\* The checks spend the flow, and the copy of the session no longer has it.
LEMMA CheckWaiting ==
    ASSUME TypeOK, HistoryOK, OwnInv, NEW r \in Requests, WaitingInv(r), Check(r)
    PROVE  WaitingInv(r)'
  <1> DEFINE f == req[r].session.flow
  <1>1. /\ pc[r] = "check" /\ Worked(r, pc'[r], req'[r]) /\ code' = code
        /\ req'[r].session = [req[r].session EXCEPT !.flow = NoFlow]
        /\ \/ /\ pc'[r] = "discover" /\ f \in Flows /\ req'[r].flow = f
              /\ req[r].url.ok /\ req[r].url.flow = f
           \/ /\ pc'[r] = "respond"
              /\ ~(f \in Flows /\ req[r].url.ok /\ req[r].url.flow = f)
    BY CheckEffects
  <1>2. RequestInv(r) /\ req[r].session \in Sessions /\ urls \subseteq Urls
    BY DEF OwnInv, TypeOK, Reqs
  <1>3. req[r].kind = "callback" /\ req[r].url \in urls
    BY <1>1, <1>2 DEF RequestInv
  <1>4. Unspent(req[r].session, req[r].browser) /\ req[r].session = req[r].sent
    BY <1>1 DEF WaitingInv
  <1>5. req'[r].session.flow = NoFlow /\ req'[r].session.from = req[r].session.from
    BY <1>1, <1>2 DEF Sessions
  <1>6. req'[r].browser = req[r].browser /\ UNCHANGED cutoff
    BY <1>1 DEF Worked, Alike
  <1>7. Unspent(req[r].session, req[r].browser)'
    BY <1>4, <1>5, <1>6 DEF Unspent
  <1>8. pc'[r] \in {"discover", "respond"} /\ pc'[r] \in Past \cup {"respond"}
        /\ (pc'[r] \in Past => pc'[r] = "discover")
    BY <1>1 DEF Past
  <1>9. pc'[r] = "discover" =>
            /\ req'[r].flow > cutoff[req[r].browser] /\ req'[r].flow = req[r].sent.flow
            /\ req'[r].flow \notin Faulty => code'[req'[r].flow] = "fresh"
    <2>1. SUFFICES ASSUME pc'[r] = "discover"
                   PROVE  /\ req'[r].flow > cutoff[req[r].browser] /\ req'[r].flow = req[r].sent.flow
                          /\ req'[r].flow \notin Faulty => code'[req'[r].flow] = "fresh"
      OBVIOUS
    <2>2. f \in Flows /\ req'[r].flow = f /\ req[r].url.ok /\ req[r].url.flow = f
      BY <1>1, <2>1
    <2>3. /\ f > cutoff[req[r].browser] /\ f = req[r].sent.flow
          /\ f \notin Faulty => checked[f] = 0
      BY <1>4, <2>2, Values DEF Unspent, HistoryOK
    <2>4. req[r].url = [flow |-> f, ok |-> TRUE]
      BY <1>2, <1>3, <2>2 DEF Urls
    <2>5. FlowInv(f) /\ code[f] \in {"none", "fresh", "used"}
      BY <2>2 DEF OwnInv, TypeOK
    <2>6. f \notin Faulty => code[f] = "fresh"
      BY <1>3, <2>3, <2>4, <2>5 DEF FlowInv
    <2> QED BY <1>1, <2>2, <2>3, <2>6
  <1>10. ASSUME Genuine(r)
         PROVE  pc'[r] # "respond"
    <2>1. req[r].url.flow = f /\ req[r].url.ok
      BY <1>4, <1>10 DEF Genuine
    <2>2. req[r].url.flow \in Flows
      BY <1>10, GenuineUrl
    <2> QED BY <1>1, <2>1, <2>2
  <1> HIDE DEF f
  <1> QED BY <1>1, <1>3, <1>7, <1>8, <1>9, <1>10, OwnWaiting

\* A genuine exchange is accepted: nobody has used the code before.
LEMMA ExchangeWaiting ==
    ASSUME TypeOK, HistoryOK, OwnInv, NEW r \in Requests, WaitingInv(r), _exchange_code(r)
    PROVE  WaitingInv(r)'
  <1>1. /\ pc[r] = "exchange" /\ Worked(r, pc'[r], req'[r]) /\ UNCHANGED checked
        /\ req'[r].session = req[r].session /\ req'[r].flow = req[r].flow
        /\ \/ /\ pc'[r] = "validate"
              /\ Fault(r) \/ req'[r].token = [nonce |-> req[r].url.flow, valid |-> TRUE]
           \/ pc'[r] = "respond" /\ (Accepts(r) => Fault(r))
    BY ExchangeEffects
  <1>2. RequestInv(r) /\ pc[r] \in Past
    BY <1>1 DEF OwnInv, Past
  <1>3. /\ req[r].kind = "callback" /\ req[r].url = [flow |-> req[r].flow, ok |-> TRUE]
        /\ req[r].url.flow = req[r].flow
    BY <1>2 DEF RequestInv
  <1>4. Unspent(req[r].session, req[r].browser)'
    BY <1>1, UnspentSame
  <1>5. /\ pc'[r] \in Past \cup {"respond"} /\ pc'[r] \notin {"discover", "exchange"}
    BY <1>1 DEF Past
  <1>6. req'[r].flow > cutoff[req[r].browser] /\ req'[r].flow = req[r].sent.flow
    BY <1>1, <1>2 DEF WaitingInv
  <1>7. req[r].flow \notin Faulty => Accepts(r)
    BY <1>1, <1>3 DEF WaitingInv, Accepts
  <1>8. Genuine(r) => ~Fault(r)
    BY <1>3 DEF Genuine, Fault
  <1>10. Genuine(r) => Accepts(r)
    BY <1>7, <1>8 DEF Fault
  <1>9. Genuine(r) => /\ pc'[r] # "respond"
                      /\ req'[r].token = [nonce |-> req'[r].flow, valid |-> TRUE]
    BY <1>1, <1>3, <1>8, <1>10
  <1> QED BY <1>1, <1>3, <1>4, <1>5, <1>6, <1>9, OwnWaiting

\* A genuine response ends in the identity of its user.
LEMMA UserinfoWaiting ==
    ASSUME TypeOK, HistoryOK, OwnInv, Grows, HistoryOK', NEW r \in Requests, WaitingInv(r),
           _fetch_userinfo(r)
    PROVE  WaitingInv(r)'
  <1>1. /\ Worked(r, pc'[r], req'[r]) /\ UNCHANGED checked /\ pc'[r] = "respond"
        /\ \/ /\ req'[r].session.flow = req[r].session.flow
              /\ req'[r].session.from = req[r].flow
              /\ req'[r].session.who = subject[req[r].flow]
           \/ req' = req /\ Fault(r)
    BY UserinfoRequest DEF Worked
  <1>2. RequestInv(r) /\ pc[r] = "userinfo" /\ pc[r] \in Past
    BY DEF OwnInv, Past, _fetch_userinfo
  <1>3. /\ req[r].kind = "callback" /\ req[r].url = [flow |-> req[r].flow, ok |-> TRUE]
        /\ req[r].url.flow = req[r].flow
    BY <1>2 DEF RequestInv
  <1>4. req[r].flow > cutoff[req[r].browser]
    BY <1>2 DEF WaitingInv
  <1>5. Unspent(req[r].session, req[r].browser)'
    BY <1>1, <1>4, UnspentSame
  <1>6. pc'[r] \notin Past
    BY <1>1 DEF Past
  <1>7. Genuine(r) => ~Fault(r)
    BY <1>3 DEF Genuine, Fault
  <1>8. Genuine(r) => /\ req'[r].session.from = req[r].url.flow
                      /\ req'[r].session.who = subject[req[r].url.flow]
    BY <1>1, <1>3, <1>7
  <1> QED BY <1>1, <1>3, <1>5, <1>6, <1>8, OwnWaiting

\* What a handler does to the flows: only of its own browser does one get checked, or
\* its code spent.
LEMMA HandleElsewhere ==
    ASSUME TypeOK, HistoryOK, OwnInv, NEW r \in Requests, Handle(r)
    PROVE  /\ Live(r) /\ Live(r)' /\ req[r].browser \in Browsers /\ req'[r].browser = req[r].browser
           /\ \A c \in Browsers \ {req[r].browser} : Elsewhere(c)
           /\ \A f \in Flows : checked'[f] # checked[f] => Check(r) /\ f = req[r].session.flow
  <1>1. Worked(r, pc'[r], req'[r])
    BY HandleTypes
  <1>2. Live(r)
    BY DEF Handle, Live, _login, LoginFails, logout, Check, Discover, _exchange_code,
       _validate_id_token, _fetch_userinfo
  <1>3. RequestInv(r)
    BY DEF OwnInv
  <1>4. req[r].browser \in Browsers /\ SessionInv(req[r].session, req[r].browser)
    BY <1>2, <1>3 DEF RequestInv
  <1>5. Live(r)' /\ req'[r].browser = req[r].browser /\ UNCHANGED <<cookie, died, cutoff>>
    BY <1>1 DEF Worked, Alike, Live
  <1>6. \A f \in Flows : checked'[f] # checked[f] => Check(r) /\ f = req[r].session.flow
    <2>1. CASE Check(r)
      BY <2>1, CheckEffects, ZenonT(30) DEF HistoryOK
    <2>2. CASE ~Check(r)
      <3>1. checked' = checked
        BY <2>2 DEF Handle, _login, LoginFails, logout, Discover, _exchange_code,
           _validate_id_token, _fetch_userinfo, history
      <3> QED BY <3>1
    <2> QED BY <2>1, <2>2
  <1>7. \A f \in Flows : code'[f] # code[f] => f = req[r].flow /\ pc[r] \in Past
    <2>1. CASE _exchange_code(r)
      <3>1. pc[r] = "exchange" /\ pc[r] \in Past
        BY <2>1, ExchangeEffects DEF Past
      <3>2. req[r].url.flow = req[r].flow
        BY <1>3, <3>1 DEF RequestInv
      <3>3. \A f \in Flows : code'[f] # code[f] => f = req[r].url.flow
        BY <2>1, ExchangeEffects, ZenonT(30) DEF TypeOK
      <3> QED BY <3>1, <3>2, <3>3
    <2>2. CASE ~_exchange_code(r)
      <3>1. code' = code
        BY <2>2 DEF Handle, _login, LoginFails, logout, Check, Discover,
           _validate_id_token, _fetch_userinfo, provider
      <3> QED BY <3>1
    <2> QED BY <2>1, <2>2
  <1>8. ASSUME NEW c \in Browsers \ {req[r].browser}, NEW f \in Flows, owner[f] = c
        PROVE  checked'[f] = checked[f] /\ code'[f] = code[f]
    <2>1. f # req[r].session.flow
      BY <1>4, <1>8, Values DEF SessionInv
    <2>2. pc[r] \in Past => f # req[r].flow
      BY <1>3, <1>8 DEF RequestInv
    <2> QED BY <1>6, <1>7, <2>1, <2>2
  <1> QED BY <1>2, <1>4, <1>5, <1>6, <1>8 DEF Elsewhere

\* Every handler keeps what browsers that wait rely on.
LEMMA HandleWait ==
    ASSUME TypeOK, HistoryOK, OwnInv, WaitInv, Grows, TypeOK', HistoryOK',
           NEW r \in Requests, Handle(r)
    PROVE  WaitInv'
  <1> DEFINE b == req[r].browser
  <1>1. /\ Live(r) /\ Live(r)' /\ b \in Browsers /\ req'[r].browser = b
        /\ \A c \in Browsers \ {b} : Elsewhere(c)
        /\ \A f \in Flows : checked'[f] # checked[f] => Check(r) /\ f = req[r].session.flow
    BY HandleElsewhere
  <1>2. b \notin Hasty => WaitingInv(r) /\ IdleInv(b)
    BY <1>1 DEF WaitInv
  <1>3. Worked(r, pc'[r], req'[r])
    BY HandleTypes
  <1>4. UNCHANGED <<cookie, cutoff>> /\ \A o \in Requests \ {r} : pc'[o] = pc[o] /\ req'[o] = req[o]
    BY <1>3 DEF Worked
  <1>5. b \notin Hasty => \A o \in Requests \ {r} : Live(o) => req[o].browser # b
    BY <1>2 DEF WaitingInv
  <1> HIDE DEF b
  <1>6. /\ \A o \in Requests \ {r} : Live(o)' /\ req'[o].browser \notin Hasty => WaitingInv(o)'
        /\ \A c \in Browsers \ Hasty : c # b => IdleInv(c)'
        /\ \A f \in Flows : owner[f] \in Browsers \ Hasty /\ owner[f] # b
                => checked'[f] <= 1 \/ f \in died'
    BY <1>1, <1>4, <1>5, OthersWait DEF b
  <1>7. ASSUME b \notin Hasty
        PROVE  WaitingInv(r)'
    <2>1. WaitingInv(r) /\ cutoff[req[r].browser] <= begun /\ req[r].browser \in Browsers
      BY <1>1, <1>2, <1>7 DEF IdleInv, b
    <2>2. CASE _login(r)
      BY <2>1, <2>2, LoginWaiting
    <2>3. CASE LoginFails(r) \/ Discover(r) \/ _validate_id_token(r)
      BY <2>1, <2>3, PlaceWaiting
    <2>4. CASE logout(r)
      BY <2>1, <2>4, LogoutWaiting
    <2>5. CASE Check(r)
      BY <2>1, <2>5, CheckWaiting
    <2>6. CASE _exchange_code(r)
      BY <2>1, <2>6, ExchangeWaiting
    <2>7. CASE _fetch_userinfo(r)
      BY <2>1, <2>7, UserinfoWaiting
    <2> QED BY <2>2, <2>3, <2>4, <2>5, <2>6, <2>7 DEF Handle
  <1>8. FlowSpent'
    <2>1. SUFFICES ASSUME NEW f \in Flows, owner'[f] \in Browsers \ Hasty
                   PROVE  checked'[f] <= 1 \/ f \in died'
      BY DEF FlowSpent
    <2>2. CASE owner'[f] # owner[f]
      <3>1. _login(r)
        BY <2>2 DEF Handle, LoginFails, logout, Check, Discover, _exchange_code,
           _validate_id_token, _fetch_userinfo
      <3>2. f = begun + 1 /\ checked' = checked
        BY <2>2, <3>1, LoginEffects
      <3>3. f > begun
        BY <3>2, Numbers
      <3>4. checked[f] = 0
        BY <3>3 DEF OwnInv, FlowInv
      <3> QED BY <3>2, <3>4
    <2>3. CASE owner'[f] = owner[f] /\ owner[f] # b
      BY <1>6, <2>1, <2>3
    <2>4. CASE owner'[f] = owner[f] /\ owner[f] = b
      <3>1. (checked[f] <= 1 \/ f \in died) /\ b \notin Hasty /\ died \subseteq died'
        BY <2>1, <2>4 DEF WaitInv, FlowSpent, Grows
      <3>2. CASE checked'[f] = checked[f] \/ f \in died
        BY <3>1, <3>2
      <3>3. CASE checked'[f] # checked[f] /\ f \notin died
        <4>1. Check(r) /\ f = req[r].session.flow
          BY <1>1, <3>3
        <4>2. Unspent(req[r].session, req[r].browser)
          BY <1>2, <3>1 DEF WaitingInv, b
        <4>3. checked[f] = 0
          BY <3>3, <4>1, <4>2, Values DEF Unspent
        <4>4. checked' = checked \/ checked' = [checked EXCEPT ![f] = IF @ < 2 THEN @ + 1 ELSE @]
          BY <4>1, CheckEffects
        <4> QED BY <4>3, <4>4 DEF HistoryOK
      <3> QED BY <3>2, <3>3
    <2> QED BY <2>2, <2>3, <2>4
  <1>9. ASSUME NEW o \in Requests, Live(o)', req'[o].browser \notin Hasty
         PROVE  WaitingInv(o)'
    BY <1>1, <1>6, <1>7, <1>9
  <1>10. ASSUME NEW c \in Browsers \ Hasty
         PROVE  IdleInv(c)'
    <2>1. CASE c = b
      <3>1. cutoff'[c] <= begun' /\ (cookie'[c].from # NoFlow => cookie'[c].from > cutoff'[c])
        <4>1. /\ cutoff'[c] = cutoff[c] /\ cutoff[c] <= begun /\ begun <= begun'
              /\ cookie'[c].from # NoFlow => cookie'[c].from > cutoff'[c]
          BY <1>2, <1>4, <2>1 DEF IdleInv, Grows
        <4>2. cutoff[c] \in Int /\ begun \in Int /\ begun' \in Int
          BY Numbers DEF TypeOK
        <4> QED BY <4>1, <4>2
      <3>2. ~ \A o \in Requests : Live(o)' => req'[o].browser # c
        BY <1>1, <2>1
      <3> QED BY <3>1, <3>2 DEF IdleInv
    <2> QED BY <1>6, <2>1
  <1> QED BY <1>8, <1>9, <1>10 DEF WaitInv

\* Sending a request keeps it: the browser that waits has no other.
LEMMA SendWait ==
    ASSUME TypeOK, HistoryOK, OwnInv, WaitInv, Grows, TypeOK',
           NEW r \in Requests, NEW b \in Browsers, Posts(r, b)
    PROVE  WaitInv'
  <1>1. /\ pc[r] = "idle" /\ MaySend(b) /\ req'[r].browser = b
        /\ req'[r].sent = cookie[b] /\ req'[r].session = cookie[b]
        /\ \A o \in Requests \ {r} : pc'[o] = pc[o] /\ req'[o] = req[o]
        /\ UNCHANGED <<cookie, begun, owner, code, checked, died, cutoff>>
        /\ pc'[r] \in {"login", "logout", "check"}
        /\ pc'[r] # "logout" => req'[r].kind # "logout"
    BY DEF Posts, Sent, provider, history
  <1>2. \A c \in Browsers : Elsewhere(c)
    BY <1>1 DEF Elsewhere
  <1>3. ~Live(r) /\ Live(r)'
    BY <1>1 DEF Live
  <1>4. b \notin Hasty => \A o \in Requests : Live(o) => req[o].browser # b
    BY <1>1 DEF MaySend, Live
  <1>5. /\ \A o \in Requests \ {r} : Live(o)' /\ req'[o].browser \notin Hasty => WaitingInv(o)'
        /\ \A c \in Browsers \ Hasty : c # b => IdleInv(c)'
    BY <1>1, <1>2, <1>3, <1>4, OthersWait
  <1>6. ASSUME b \notin Hasty
        PROVE  IdleInv(b)'
    <2>1. IdleInv(b)
      BY <1>6 DEF WaitInv
    <2>2. ~ \A o \in Requests : Live(o)' => req'[o].browser # b
      BY <1>1, <1>3
    <2> QED BY <1>1, <2>1, <2>2 DEF IdleInv
  <1>7. ASSUME b \notin Hasty
        PROVE  WaitingInv(r)'
    <2>1. \A o \in Requests \ {r} : Live(o)' => req'[o].browser # req'[r].browser
      BY <1>1, <1>4, <1>7 DEF Live
    <2>2. Unspent(cookie[b], b)
      BY <1>4, <1>7 DEF WaitInv, IdleInv
    <2>3. Unspent(req[r].session, req[r].browser)'
      BY <1>1, <2>2 DEF Unspent
    <2>4. pc'[r] \notin Past \cup {"discover", "exchange", "validate", "respond"}
      BY <1>1 DEF Past
    <2> QED BY <1>1, <2>1, <2>3, <2>4 DEF WaitingInv
  <1>8. FlowSpent'
    BY <1>1 DEF WaitInv, FlowSpent
  <1>9. \A o \in Requests : Live(o)' /\ req'[o].browser \notin Hasty => WaitingInv(o)'
    BY <1>1, <1>5, <1>7
  <1> QED BY <1>5, <1>6, <1>8, <1>9 DEF WaitInv

\* The end of a request keeps it: the cookie becomes the session of the only request.
LEMMA OverWait ==
    ASSUME TypeOK, HistoryOK, OwnInv, WaitInv, Grows, TypeOK',
           NEW r \in Requests, Arrive(r) \/ Lose(r) \/ Raise(r)
    PROVE  WaitInv'
  <1> DEFINE b == req[r].browser
             s == req[r].session
  <1>1. /\ pc[r] # "idle" /\ pc'[r] = "idle"
        /\ \A o \in Requests \ {r} : pc'[o] = pc[o] /\ req'[o] = req[o]
        /\ UNCHANGED <<begun, owner, code, checked>> /\ died \subseteq died'
    BY OverEffects DEF Over
  <1>2. Live(r) /\ ~Live(r)' /\ RequestInv(r)
    BY <1>1 DEF Live, OwnInv
  <1>3. b \in Browsers /\ s \in Sessions
    BY <1>2 DEF RequestInv, TypeOK, Reqs
  <1>4. \A c \in Browsers \ {b} : Elsewhere(c)
    BY <1>1, <1>3 DEF Arrive, Lose, Raise, Elsewhere, TypeOK, HistoryOK, history
  <1>5. b \notin Hasty => WaitingInv(r) /\ IdleInv(b)
    BY <1>2, <1>3 DEF WaitInv
  <1>6. b \notin Hasty => \A o \in Requests \ {r} : Live(o) => req[o].browser # b
    BY <1>5 DEF WaitingInv
  <1>7. /\ \A o \in Requests \ {r} : Live(o)' /\ req'[o].browser \notin Hasty => WaitingInv(o)'
        /\ \A c \in Browsers \ Hasty : c # b => IdleInv(c)'
    BY <1>1, <1>2, <1>3, <1>4, <1>6, OthersWait
  <1>8. ASSUME NEW c \in Browsers \ Hasty, c = b
        PROVE  IdleInv(c)'
    <2>1. Arrive(r) \/ Raise(r)
      BY <1>8 DEF Lose
    <2>2. WaitingInv(r) /\ IdleInv(c) /\ Unspent(s, c) /\ req[r].sent = cookie[c]
      BY <1>5, <1>8 DEF WaitingInv
    <2>3. CASE Raise(r)
      <3>1. /\ pc[r] \in Past /\ died' = died \cup {req[r].flow}
            /\ UNCHANGED <<cookie, cutoff, begun>>
        BY <2>3 DEF Raise, Past
      <3>2. cookie[c].flow = req[r].flow /\ req[r].flow > cutoff[c]
        BY <1>8, <2>2, <3>1 DEF WaitingInv
      <3>3. Unspent(cookie[c], c)'
        BY <2>2, <3>1, <3>2 DEF Unspent, IdleInv
      <3> QED BY <2>2, <3>1, <3>3 DEF IdleInv
    <2>4. CASE Arrive(r) /\ req[r].kind = "logout"
      <3>1. cookie'[c] = s
        BY <1>3, <1>8, <2>4, <2>2 DEF Arrive, TypeOK
      <3>2. cutoff'[c] = begun /\ s = Empty
        BY <1>3, <1>8, <2>2, <2>4 DEF Arrive, HistoryOK, WaitingInv
      <3>3. cutoff'[c] <= begun'
        BY <1>1, <3>2, Numbers
      <3>4. Unspent(cookie[c], c)' /\ cookie'[c].from = NoFlow
        BY <3>1, <3>2, Values DEF Unspent
      <3> QED BY <3>3, <3>4 DEF IdleInv
    <2>5. CASE Arrive(r) /\ req[r].kind # "logout"
      <3>1. cookie'[c] = s /\ cutoff' = cutoff
        BY <1>3, <1>8, <2>5, <2>2 DEF Arrive, TypeOK
      <3>2. Unspent(cookie[c], c)' /\ (cookie'[c].from # NoFlow => cookie'[c].from > cutoff'[c])
        BY <1>1, <2>2, <3>1 DEF Unspent
      <3>3. cutoff'[c] <= begun'
        BY <1>1, <2>2, <3>1 DEF IdleInv
      <3> QED BY <3>2, <3>3 DEF IdleInv
    <2> QED BY <2>1, <2>3, <2>4, <2>5
  <1>9. FlowSpent'
    BY <1>1 DEF WaitInv, FlowSpent
  <1>10. \A o \in Requests : Live(o)' /\ req'[o].browser \notin Hasty => WaitingInv(o)'
    BY <1>2, <1>7
  <1>11. \A c \in Browsers \ Hasty : IdleInv(c)'
    BY <1>7, <1>8
  <1> QED BY <1>9, <1>10, <1>11 DEF WaitInv

\* Every step keeps what browsers that wait rely on.
LEMMA WaitStep ==
    ASSUME TypeOK, HistoryOK, OwnInv, WaitInv, [Next]_vars
    PROVE  WaitInv'
  <1>1. Grows /\ TypeOK' /\ HistoryOK'
    BY GrowStep, TypeStep
  <1>2. ASSUME UNCHANGED <<pc, req, owner, checked, died>>, \A c \in Browsers : Elsewhere(c)
        PROVE  WaitInv'
    <2>1. ASSUME NEW o \in Requests, Live(o)', req'[o].browser \notin Hasty
          PROVE  WaitingInv(o)'
      <3>1. Live(o) /\ WaitingInv(o) /\ RequestInv(o) /\ pc'[o] = pc[o] /\ req'[o] = req[o]
        BY <1>2, <2>1 DEF WaitInv, OwnInv, Live
      <3>2. Elsewhere(req[o].browser)
        BY <1>2, <3>1 DEF RequestInv
      <3>3. \A p \in Requests \ {o} : Live(p)' => req'[p].browser # req[o].browser
        BY <1>2, <3>1 DEF WaitingInv, Live
      <3> QED BY <1>1, <3>1, <3>2, <3>3, WaitingKept
    <2>2. ASSUME NEW c \in Browsers \ Hasty
          PROVE  IdleInv(c)'
      <3>1. IdleInv(c) /\ Elsewhere(c)
        BY <1>2 DEF WaitInv
      <3>2. (\A o \in Requests : Live(o)' => req'[o].browser # c)
                => \A o \in Requests : Live(o) => req[o].browser # c
        BY <1>2 DEF Live
      <3> QED BY <1>1, <3>1, <3>2, IdleKept
    <2>3. FlowSpent'
      BY <1>2 DEF WaitInv, FlowSpent
    <2> QED BY <2>1, <2>2, <2>3 DEF WaitInv
  <1>3. CASE UNCHANGED vars
    BY <1>2, <1>3 DEF vars, provider, history, Elsewhere
  <1>4. ASSUME NEW r \in Requests, NEW b \in Browsers,
               \/ SendLogin(r, b) \/ SendLogout(r, b)
               \/ \E url \in urls : SendCallback(r, b, url)
        PROVE  WaitInv'
    BY <1>1, <1>4, PostEffects, SendWait
  <1>5. ASSUME NEW r \in Requests, Arrive(r) \/ Lose(r) \/ Raise(r)
        PROVE  WaitInv'
    BY <1>1, <1>5, OverWait
  <1>6. ASSUME NEW r \in Requests, Handle(r)
        PROVE  WaitInv'
    BY <1>1, <1>6, HandleWait
  <1>7. ASSUME NEW f \in Flows, NEW s \in Subjects, Authenticate(f, s)
        PROVE  WaitInv'
    <2>1. UNCHANGED <<cookie, pc, req, owner, checked, died, cutoff>>
      BY <1>7 DEF Authenticate, history
    <2>2. \A g \in Flows : code'[g] = code[g] \/ code'[g] = "fresh"
      BY <1>7 DEF Authenticate, TypeOK
    <2> QED BY <1>2, <2>1, <2>2 DEF Elsewhere
  <1> QED BY <1>3, <1>4, <1>5, <1>6, <1>7 DEF Next

-----------------------------------------------------------------------------
(* The theorems                                                            *)

\* The initial state satisfies all four invariants.
LEMMA Initially ==
    ASSUME Init
    PROVE  TypeOK /\ HistoryOK /\ OwnInv /\ WaitInv
  <1> USE DEF Init
  <1>1. TypeOK
    BY Values, RpAssumption DEF TypeOK, Labels
  <1>2. HistoryOK
    BY RpAssumption DEF HistoryOK
  <1>3. OwnInv
    <2>1. \A b \in Browsers : SessionInv(cookie[b], b)
      BY Values DEF SessionInv
    <2>2. \A f \in Flows : FlowInv(f)
      BY DEF FlowInv
    <2>3. \A r \in Requests : RequestInv(r)
      BY Values DEF RequestInv, Live, Past
    <2> QED BY <2>1, <2>2, <2>3 DEF OwnInv
  <1>4. WaitInv
    <2>1. \A b \in Browsers : IdleInv(b)
      BY Values DEF IdleInv, Unspent
    <2> QED BY <2>1 DEF WaitInv, FlowSpent, Live
  <1> QED BY <1>1, <1>2, <1>3, <1>4

\* The four invariants hold throughout.
LEMMA Invariant == Spec => [](TypeOK /\ HistoryOK /\ OwnInv /\ WaitInv)
  <1>1. Init => TypeOK /\ HistoryOK /\ OwnInv /\ WaitInv
    BY Initially
  <1>2. TypeOK /\ HistoryOK /\ OwnInv /\ WaitInv /\ [Next]_vars
            => (TypeOK /\ HistoryOK /\ OwnInv /\ WaitInv)'
    BY TypeStep, OwnStep, WaitStep
  <1> QED BY <1>1, <1>2, PTL DEF Spec

\* The cookies, the flows and the requests have their types, and past the checks a
\* request holds the verifier of the flow that its code was issued for.
THEOREM TypeCorrect == Spec => []TypeOK
  BY Invariant, PTL

\* _callback stores in a cookie only the identity of the user who authenticated in a
\* flow that this browser began, whatever overlaps, is repeated or is forged by a
\* faulty provider: for any number of browsers, requests and logins.
THEOREM OwnLoginHolds == Spec => []OwnLogin
  <1>1. OwnInv => OwnLogin
    BY DEF OwnInv, SessionInv, OwnLogin
  <1> QED BY <1>1, Invariant, PTL

\* _callback pops the flow before it compares: a browser that waits for its responses
\* passes the checks at most once with a flow, unless a callback of that flow ended in an
\* exception that rp.py does not catch.
THEOREM FlowSpentHolds == Spec => []FlowSpent
  <1>1. WaitInv => FlowSpent
    BY DEF WaitInv
  <1> QED BY <1>1, Invariant, PTL

\* logout pops the identity and the flow: in a browser that waits, no login that was
\* under way outlives the response.
THEOREM LogoutFinalHolds == Spec => []LogoutFinal
  <1>1. WaitInv => LogoutFinal
    BY DEF WaitInv, IdleInv, LogoutFinal
  <1> QED BY <1>1, Invariant, PTL

\* In a browser that waits, _callback accepts the response to the login in its session,
\* unless the provider is at fault: nobody else can have spent the code.
THEOREM GenuineAcceptedHolds == Spec => []GenuineAccepted
  <1>1. WaitInv => GenuineAccepted
    BY DEF WaitInv, WaitingInv, Genuine, GenuineAccepted, Live
  <1> QED BY <1>1, Invariant, PTL
=============================================================================
