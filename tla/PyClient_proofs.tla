---------------------------- MODULE PyClient_proofs ----------------------------
(***************************************************************************)
(* Proofs about PyClient, for any number of callers and closers, any       *)
(* requests and answers and any number of retries: what the provider does  *)
(* and what the caller is told, and who closes the HTTP clients.           *)
(***************************************************************************)
EXTENDS PyClient, TLAPS

-----------------------------------------------------------------------------
(* The inductive invariant                                                 *)

Fields == {"pc", "op", "aio", "req", "client", "owned", "attempt", "round", "jti", "nonce",
           "ans", "res", "delay", "grants", "lost", "left", "ops"}

IsCall(q) == q = [f \in Fields |-> q[f]]

\* Where the request has not been answered since it was last sent.
Unanswered == {"idle", "resolve", "local", "get", "got", "create", "send", "wait", "sleep"}

\* What a caller is told when its call ends, as Honest says it.
Told(q) ==
    /\ q.res = Success => q.grants > 0 /\ is_success(q.ans)
    /\ q.grants > 0 =>
         \/ q.res \in {Success, "cancelled"}
         \/ q.lost > 0
         \/ q.ans.body # "object"
         \/ q.op = "userinfo" /\ q.req.sub = "other"

\* Of one call: as long as it is unanswered every grant was lost, and an answer that
\* grants is the only grant that was not.  It owns no client before it has resolved one.
CallInv(q) ==
    /\ IsCall(q)
    /\ q.pc \in Unanswered \cup {"answered", "finally"}
    /\ q.grants \in Nat /\ q.lost \in Nat
    /\ q.pc \in {"idle", "resolve"} => q.owned = 0
    /\ q.pc # "idle" => q.op \in Operations /\ q.req.sub \in {None, "sub", "other"}
    /\ q.pc \in Unanswered => q.grants <= q.lost
    /\ q.pc = "answered" => IF is_success(q.ans) THEN q.grants > 0 /\ q.grants <= 1 + q.lost
                            ELSE q.grants <= q.lost
    /\ q.pc = "finally" => Told(q) /\ q.grants <= 1 + q.lost

CallsInv == call = [c \in Callers |-> call[c]] /\ \A c \in Callers : CallInv(call[c])

\* The references to clients.
RefsOK ==
    /\ clients \in Seq({"open", "closed", "aborted"}) /\ Len(clients) > 0
    /\ shared \in 0..Len(clients)
    /\ local \in [Callers -> 0..Len(clients)]
    /\ \A c \in Callers : call[c].owned \in 0..Len(clients)
    /\ closer \in [Closers -> {"idle", "closing", "done"}]
    /\ managed \in [closed : BOOLEAN, closing : BOOLEAN, owned : BOOLEAN]

\* Nobody else refers to the shared client, and one closer at a time works on it.
SharedInv ==
    /\ shared # 1
    /\ shared # 0 => \A c \in Callers : local[c] # shared /\ call[c].owned # shared
    /\ \A k \in Closers : closer[k] = "closing" => shared # 0 /\ clients[shared] = "closed"
    /\ \A k, l \in Closers : closer[k] = "closing" /\ closer[l] = "closing" => k = l

IndInv == CallsInv /\ RefsOK /\ SharedInv /\ NoOrphan /\ SharedOpen

-----------------------------------------------------------------------------
(* What the endpoint functions return                                      *)

\* No handler of an exception reports success or a cancellation.
LEMMA HandleNeverSucceeds ==
    ASSUME NEW op, NEW e
    PROVE  Handle(op, e) \notin {Success, "cancelled"}
  <1>1. Classified(e) \in {"network", "unexpected"}
    BY DEF Classified, Network, Unexpected
  <1>2. handle_token_exchange_error(e) \in {"validation", "network", "unexpected"}
    BY <1>1 DEF handle_token_exchange_error
  <1>3. Handle(op, e) \in {Classified(e), handle_token_exchange_error(e)}
    BY DEF Handle, handle_token_error, handle_auth_code_token_error, handle_refresh_token_error,
       handle_introspection_error, handle_revocation_error, handle_par_error,
       handle_device_auth_error, handle_device_token_error, handle_userinfo_error,
       handle_client_delete_error, handle_registration_error
  <1> QED BY <1>1, <1>2, <1>3 DEF Success

\* Each process function: success only of an answer that grants, and success of every
\* granting answer with the body that the endpoint owes.
Faithful(res, ans) ==
    /\ res = Success => is_success(ans)
    /\ is_success(ans) /\ ans.body = "object" => res = Success

\* Whatever the operation, success is reported of successful answers only, and of all of
\* them but a malformed body or a UserInfo of another subject.
LEMMA ProcessFaithful ==
    ASSUME NEW op \in Operations, NEW req, NEW ans, req.sub \in {None, "sub", "other"}
    PROVE  LET res == Process(op, req, ans) IN
           /\ res = Success => is_success(ans)
           /\ is_success(ans) /\ ans.body = "object" /\ ~(op = "userinfo" /\ req.sub = "other")
                => res = Success
  <1> USE DEF Faithful, Success, Failure, Unexpected, Json, IsDict, Outcome, OnJson, OnDict, OnSuccess
  <1>1. Faithful(process_token_response(ans), ans)
    BY DEF process_token_response, log_token_success, parse_token_response
  <1>2. Faithful(process_auth_code_token_response(ans), ans)
    BY DEF process_auth_code_token_response, parse_auth_code_token_response
  <1>3. Faithful(process_refresh_token_response(ans), ans)
    BY DEF process_refresh_token_response, parse_refresh_token_response
  <1>4. Faithful(process_introspection_response(ans), ans)
    BY DEF process_introspection_response, parse_introspection_response
  <1>5. Faithful(process_revocation_response(ans), ans)
    BY DEF process_revocation_response
  <1>6. Faithful(process_par_response(ans), ans)
    BY DEF process_par_response
  <1>7. Faithful(process_token_exchange_response(ans), ans)
    BY DEF process_token_exchange_response
  <1>8. Faithful(process_device_auth_response(ans), ans)
    BY DEF process_device_auth_response
  <1>9. Faithful(process_device_token_response(ans), ans)
    BY DEF process_device_token_response, _parse_success_response, _parse_error_response
  <1>10. Faithful(process_userinfo_response(ans), ans)
    BY DEF process_userinfo_response, parse_userinfo_response
  <1>11. /\ validate_userinfo_sub(process_userinfo_response(ans), ans, req.sub) = Success
                => is_success(ans)
         /\ is_success(ans) /\ ans.body = "object" /\ req.sub # "other"
                => validate_userinfo_sub(process_userinfo_response(ans), ans, req.sub) = Success
    BY <1>10 DEF validate_userinfo_sub
  <1>12. Faithful(process_registration_response(ans), ans)
    BY DEF process_registration_response, _parse_registration_success, _registration_error
  <1>13. Faithful(process_read_response(ans), ans)
    BY DEF process_read_response, _parse_registration_success, _registration_error
  <1>14. Faithful(process_update_response(ans), ans)
    BY DEF process_update_response, _parse_registration_success, _registration_error
  <1>15. Faithful(process_delete_response(ans), ans)
    BY DEF process_delete_response
  <1>16. CASE op = "userinfo"
    BY <1>11, <1>16 DEF Process
  <1>17. CASE op # "userinfo"
    <2>1. Faithful(Process(op, req, ans), ans)
      BY <1>1, <1>2, <1>3, <1>4, <1>5, <1>6, <1>7, <1>8, <1>9, <1>12, <1>13, <1>14, <1>15, <1>17
         DEF Process, Operations
    <2> QED BY <2>1, <1>17
  <1> QED BY <1>16, <1>17

-----------------------------------------------------------------------------
(* The steps of a call                                                     *)

\* The fields that the invariant speaks of and that most steps leave alone.
Alike(p, q) == p.op = q.op /\ p.req = q.req /\ p.grants = q.grants /\ p.lost = q.lost

\* A caller between two calls.
LEMMA IdleFields ==
    ASSUME NEW w
    PROVE  LET p == Idle(w) IN
           IsCall(p) /\ p.pc = "idle" /\ p.owned = 0 /\ p.grants = 0 /\ p.lost = 0
  <1>1. /\ IsCall(NoCall) /\ NoCall.pc = "idle" /\ NoCall.owned = 0
        /\ NoCall.grants = 0 /\ NoCall.lost = 0
    BY DEF IsCall, Fields, NoCall
  <1> QED BY <1>1 DEF Idle, IsCall, Fields

\* A call not begun satisfies the invariant.
LEMMA IdleInv ==
    ASSUME NEW w
    PROVE  CallInv(Idle(w))
  BY IdleFields DEF CallInv, Unanswered

\* A step that neither sends nor answers the request.
LEMMA Onward ==
    ASSUME NEW q, CallInv(q), NEW p, IsCall(p), Alike(p, q), q.pc # "idle",
           p.pc \in Unanswered \ {"idle", "resolve"},
           q.pc \in Unanswered \/ (q.pc = "answered" /\ ~is_success(q.ans))
    PROVE  CallInv(p)
  <1>1. p.pc \notin {"idle", "resolve", "answered", "finally"}
    BY DEF Unanswered
  <1>2. q.grants \in Nat /\ q.lost \in Nat /\ q.grants <= q.lost
    BY DEF CallInv
  <1>3. q.op \in Operations /\ q.req.sub \in {None, "sub", "other"}
    BY DEF CallInv
  <1> QED BY <1>1, <1>2, <1>3 DEF CallInv, Alike

\* The end of a call.
LEMMA Ended ==
    ASSUME NEW q, CallInv(q), q.pc # "idle", NEW res,
           \/ /\ q.pc \in Unanswered \/ (q.pc = "answered" /\ ~is_success(q.ans))
              /\ res # Success
           \/ q.pc = "answered" /\ is_success(q.ans) /\ res = Process(q.op, q.req, q.ans)
    PROVE  LET p == [q EXCEPT !.res = res, !.pc = "finally"] IN
           CallInv(p) /\ p.owned = q.owned
  <1> DEFINE p == [q EXCEPT !.res = res, !.pc = "finally"]
  <1>1. /\ IsCall(p) /\ Alike(p, q) /\ p.pc = "finally" /\ p.owned = q.owned
        /\ p.res = res /\ p.ans = q.ans
    <2>1. IsCall(q)
      BY DEF CallInv
    <2> QED BY <2>1 DEF IsCall, Fields, Alike
  <1> HIDE DEF p
  <1>2. /\ q.grants \in Nat /\ q.lost \in Nat /\ q.op \in Operations
        /\ q.req.sub \in {None, "sub", "other"}
    BY DEF CallInv
  <1>3. q.grants <= 1 + q.lost
    BY <1>2 DEF CallInv
  <1>4. Told(p)
    <2>1. CASE res # Success /\ (q.pc \in Unanswered \/ (q.pc = "answered" /\ ~is_success(q.ans)))
      <3>1. q.grants <= q.lost
        BY <2>1 DEF CallInv
      <3> QED BY <1>1, <1>2, <2>1, <3>1 DEF Told, Alike
    <2>2. CASE q.pc = "answered" /\ is_success(q.ans) /\ res = Process(q.op, q.req, q.ans)
      <3>1. q.grants > 0
        BY <2>2 DEF CallInv
      <3>2. q.ans.body = "object" /\ ~(q.op = "userinfo" /\ q.req.sub = "other") => res = Success
        BY <1>2, <2>2, ProcessFaithful
      <3> QED BY <1>1, <2>2, <3>1, <3>2 DEF Told, Alike
    <2> QED BY <2>1, <2>2
  <1>5. p.pc \notin Unanswered
    BY <1>1 DEF Unanswered
  <1>6. CallInv(p)
    BY <1>1, <1>2, <1>3, <1>4, <1>5 DEF CallInv, Alike
  <1> QED BY <1>1, <1>6 DEF p

\* Only the call of c changes, and p becomes of it.
Becomes(c, p) == /\ call' = [o \in Callers |-> call'[o]] /\ call'[c] = p
                 /\ \A o \in Callers \ {c} : call'[o] = call[o]

\* An assignment to one call leaves the others alone.
LEMMA Assigned ==
    ASSUME CallsInv, NEW c \in Callers, NEW p, call' = [call EXCEPT ![c] = p]
    PROVE  Becomes(c, p)
  BY DEF CallsInv, Becomes

\* What every step of the call of c guarantees of it; owned is the client it owns then.
Kept(c, owned) ==
    /\ call' = [o \in Callers |-> call'[o]]
    /\ \A o \in Callers \ {c} : call'[o] = call[o]
    /\ CallInv(call'[c]) /\ call'[c].owned = owned

\* A call may end without success as long as no answer granted anything, and with the
\* classification of its answer otherwise.
LEMMA EndsKeeps ==
    ASSUME CallsInv, NEW c \in Callers, NEW res, Ends(c, res), call[c].pc # "idle",
           \/ /\ call[c].pc \in Unanswered \/ (call[c].pc = "answered" /\ ~is_success(call[c].ans))
              /\ res # Success
           \/ /\ call[c].pc = "answered" /\ is_success(call[c].ans)
              /\ res = Process(call[c].op, call[c].req, call[c].ans)
    PROVE  Kept(c, call[c].owned)
  <1> DEFINE q == call[c]
             p == [q EXCEPT !.res = res, !.pc = "finally"]
  <1>1. call' = [call EXCEPT ![c] = p]
    BY DEF Ends
  <1>2. CallInv(q)
    BY DEF CallsInv
  <1>3. CallInv(p) /\ p.owned = q.owned
    BY <1>2, Ended
  <1> HIDE DEF p
  <1>4. Becomes(c, p)
    BY <1>1, Assigned
  <1> QED BY <1>3, <1>4 DEF Becomes, Kept

\* An exception before a successful answer keeps the invariant.
LEMMA RaisesKeeps ==
    ASSUME CallsInv, NEW c \in Callers, NEW e, Raises(c, e), call[c].pc # "idle",
           call[c].pc \in Unanswered \/ (call[c].pc = "answered" /\ ~is_success(call[c].ans))
    PROVE  Kept(c, call[c].owned)
  BY EndsKeeps, HandleNeverSucceeds DEF Raises

\* Moving an unanswered call along keeps the invariant.
LEMMA GotoKeeps ==
    ASSUME CallsInv, NEW c \in Callers, NEW l \in Unanswered \ {"idle", "resolve"}, Goto(c, l),
           call[c].pc \in Unanswered \ {"idle"}
    PROVE  Kept(c, call[c].owned)
  <1> DEFINE q == call[c]
             p == [q EXCEPT !.pc = l]
  <1>1. call' = [call EXCEPT ![c] = p]
    BY DEF Goto
  <1>2. CallInv(q) /\ IsCall(q)
    BY DEF CallsInv, CallInv
  <1>3. IsCall(p) /\ Alike(p, q) /\ p.pc = l /\ p.owned = q.owned
    BY <1>2 DEF IsCall, Fields, Alike
  <1> HIDE DEF p
  <1>4. CallInv(p)
    BY <1>2, <1>3, Onward
  <1>5. Becomes(c, p)
    BY <1>1, Assigned
  <1> QED BY <1>3, <1>4, <1>5 DEF Becomes, Kept

\* Choosing a client keeps the invariant.
LEMMA ClientKeeps ==
    ASSUME CallsInv, NEW c \in Callers, NEW cl,
           call' = [call EXCEPT ![c].pc = "send", ![c].client = cl],
           call[c].pc \in Unanswered \ {"idle"}
    PROVE  Kept(c, call[c].owned)
  <1> DEFINE q == call[c]
             p == [q EXCEPT !.pc = "send", !.client = cl]
  <1>1. call' = [call EXCEPT ![c] = p]
    OBVIOUS
  <1>2. CallInv(q) /\ IsCall(q)
    BY DEF CallsInv, CallInv
  <1>3. IsCall(p) /\ Alike(p, q) /\ p.pc = "send" /\ p.owned = q.owned
    BY <1>2 DEF IsCall, Fields, Alike
  <1> HIDE DEF p
  <1>4. CallInv(p)
    BY <1>2, <1>3, Onward DEF Unanswered
  <1>5. Becomes(c, p)
    BY <1>1, Assigned
  <1> QED BY <1>3, <1>4, <1>5 DEF Becomes, Kept

\* Creating a client of the call's own keeps the invariant.
LEMMA OwnedKeeps ==
    ASSUME CallsInv, NEW c \in Callers, NEW cl, NEW n,
           call' = [call EXCEPT ![c].pc = "send", ![c].client = cl, ![c].owned = n],
           call[c].pc = "resolve"
    PROVE  Kept(c, n)
  <1> DEFINE q == call[c]
             p == [q EXCEPT !.pc = "send", !.client = cl, !.owned = n]
  <1>1. call' = [call EXCEPT ![c] = p]
    OBVIOUS
  <1>2. CallInv(q) /\ IsCall(q)
    BY DEF CallsInv, CallInv
  <1>3. IsCall(p) /\ Alike(p, q) /\ p.pc = "send" /\ p.owned = n
    BY <1>2 DEF IsCall, Fields, Alike
  <1> HIDE DEF p
  <1>4. CallInv(p)
    BY <1>2, <1>3, Onward DEF Unanswered
  <1>5. Becomes(c, p)
    BY <1>1, Assigned
  <1> QED BY <1>3, <1>4, <1>5 DEF Becomes, Kept

\* An answer that grants is counted as it is delivered, and a grant that a 5xx hides as
\* lost.
LEMMA DeliverKeeps ==
    ASSUME CallsInv, NEW c \in Callers, Deliver(c)
    PROVE  Kept(c, call[c].owned)
  <1> DEFINE q == call[c]
  <1>1. PICK ans \in Answers[call[c].op], hidden \in {0, 1} :
            /\ hidden = 1 => ans.status >= 500
            /\ call' = [call EXCEPT ![c].pc = "answered", ![c].ans = ans,
                              ![c].grants = IF is_success(ans) THEN @ + 1 ELSE @ + hidden,
                              ![c].lost = @ + hidden]
    BY DEF Deliver
  <1>0. is_success(ans) => hidden = 0
    BY <1>1 DEF is_success
  <1> DEFINE g == IF is_success(ans) THEN q.grants + 1 ELSE q.grants + hidden
             l == q.lost + hidden
             p == [q EXCEPT !.pc = "answered", !.ans = ans, !.grants = g, !.lost = l]
  <1>2. call' = [call EXCEPT ![c] = p]
    BY <1>1
  <1>3. CallInv(q) /\ IsCall(q) /\ q.pc = "wait"
    BY DEF CallsInv, CallInv, Deliver
  <1>5. /\ q.op \in Operations /\ q.req.sub \in {None, "sub", "other"}
        /\ q.grants \in Nat /\ q.lost \in Nat /\ q.grants <= q.lost
    BY <1>3 DEF CallInv, Unanswered
  <1>9. /\ g \in Nat /\ l \in Nat
        /\ IF is_success(ans) THEN g > 0 /\ g <= 1 + l ELSE g <= l
    BY <1>0, <1>5
  <1> HIDE DEF g, l
  <1>4. /\ IsCall(p) /\ p.op = q.op /\ p.req = q.req /\ p.lost = l
        /\ p.pc = "answered" /\ p.owned = q.owned /\ p.ans = ans /\ p.grants = g
    BY <1>3 DEF IsCall, Fields
  <1> HIDE DEF p
  <1>6. p.pc \notin Unanswered
    BY <1>4 DEF Unanswered
  <1>7. CallInv(p)
    BY <1>4, <1>5, <1>6, <1>9 DEF CallInv
  <1>8. Becomes(c, p)
    BY <1>2, Assigned
  <1> QED BY <1>4, <1>7, <1>8 DEF Becomes, Kept

\* A grant whose answer is lost is counted as lost too.
LEMMA LoseKeeps ==
    ASSUME CallsInv, NEW c \in Callers, Lose(c)
    PROVE  Kept(c, call[c].owned)
  <1> DEFINE q == call[c]
             F(g) == [q EXCEPT !.grants = q.grants + g, !.lost = q.lost + 1]
             P(f) == IF q.attempt < Retries
                     THEN [f EXCEPT !.pc = "sleep", !.delay = calculate_delay(BaseDelay, f.attempt)]
                     ELSE [f EXCEPT !.pc = "finally", !.res = Handle(f.op, "RequestError")]
  <1>1. PICK g \in {0, 1} : call' = [call EXCEPT ![c] = P(F(g))]
    BY DEF Lose
  <1>2. CallInv(q) /\ IsCall(q) /\ q.pc = "wait"
    BY DEF CallsInv, CallInv, Lose
  <1>3. /\ q.op \in Operations /\ q.req.sub \in {None, "sub", "other"}
        /\ q.grants \in Nat /\ q.lost \in Nat /\ q.grants <= q.lost
    BY <1>2 DEF CallInv, Unanswered
  <1> DEFINE f == F(g)
  <1>4. /\ IsCall(f) /\ f.op = q.op /\ f.req = q.req /\ f.owned = q.owned
        /\ f.grants = q.grants + g /\ f.lost = q.lost + 1
    BY <1>2 DEF IsCall, Fields
  <1> HIDE DEF f
  <1>5. f.grants \in Nat /\ f.lost \in Nat /\ f.grants <= f.lost /\ f.lost > 0
    BY <1>3, <1>4
  <1>6. CASE q.attempt < Retries
    <2> DEFINE d == calculate_delay(BaseDelay, f.attempt)
               p == [f EXCEPT !.pc = "sleep", !.delay = d]
    <2>1. call' = [call EXCEPT ![c] = p]
      BY <1>1, <1>6 DEF f
    <2> HIDE DEF d
    <2>2. IsCall(p) /\ Alike(p, f) /\ p.pc = "sleep" /\ p.owned = f.owned
      BY <1>4 DEF IsCall, Fields, Alike
    <2> HIDE DEF p
    <2>3. CallInv(p)
      BY <1>3, <1>4, <1>5, <2>2 DEF CallInv, Alike, Unanswered
    <2>4. Becomes(c, p)
      BY <2>1, Assigned
    <2> QED BY <1>4, <2>2, <2>3, <2>4 DEF Becomes, Kept
  <1>7. CASE ~(q.attempt < Retries)
    <2> DEFINE h == Handle(f.op, "RequestError")
               p == [f EXCEPT !.pc = "finally", !.res = h]
    <2>1. call' = [call EXCEPT ![c] = p]
      BY <1>1, <1>7 DEF f
    <2>2. h # Success
      BY HandleNeverSucceeds
    <2> HIDE DEF h
    <2>3. IsCall(p) /\ Alike(p, f) /\ p.pc = "finally" /\ p.owned = f.owned /\ p.res = h
      BY <1>4 DEF IsCall, Fields, Alike
    <2> HIDE DEF p
    <2>4. Told(p)
      BY <1>4, <1>5, <2>2, <2>3 DEF Told, Alike
    <2>5. CallInv(p)
      BY <1>3, <1>4, <1>5, <2>3, <2>4 DEF CallInv, Alike, Unanswered
    <2>6. Becomes(c, p)
      BY <2>1, Assigned
    <2> QED BY <1>4, <2>3, <2>5, <2>6 DEF Becomes, Kept
  <1> QED BY <1>6, <1>7

\* An answer that is retried, or that challenges the client, grants nothing.
LEMMA NoGrant ==
    ASSUME NEW ans,
           \/ \E a, n : should_retry_response(ans, a, n)
           \/ extract_dpop_nonce(ans)
           \/ ~check_no_redirect(ans)
    PROVE  ~is_success(ans)
  BY DEF should_retry_response, extract_dpop_nonce, check_no_redirect, is_success,
     HTTP_TOO_MANY_REQUESTS, HTTP_INTERNAL_SERVER_ERROR

\* Only an answer that grants nothing is waited out.
LEMMA BackoffKeeps ==
    ASSUME CallsInv, NEW c \in Callers, Backoff(c)
    PROVE  Kept(c, call[c].owned)
  <1> DEFINE q == call[c]
             d == resolve_retry_delay(q.ans, BaseDelay, q.attempt, q.req.now)
             p == [q EXCEPT !.pc = "sleep", !.ans = None, !.delay = d]
  <1>1. call' = [call EXCEPT ![c] = p]
    BY DEF Backoff
  <1>2. CallInv(q) /\ IsCall(q) /\ q.pc = "answered"
    BY DEF CallsInv, CallInv, Backoff
  <1>3. ~is_success(q.ans)
    BY NoGrant DEF Backoff
  <1> HIDE DEF d
  <1>4. IsCall(p) /\ Alike(p, q) /\ p.pc = "sleep" /\ p.owned = q.owned
    BY <1>2 DEF IsCall, Fields, Alike
  <1> HIDE DEF p
  <1>5. CallInv(p)
    BY <1>2, <1>3, <1>4, Onward DEF Unanswered
  <1>6. Becomes(c, p)
    BY <1>1, Assigned
  <1> QED BY <1>4, <1>5, <1>6 DEF Becomes, Kept

\* A retry keeps the invariant.
LEMMA WakeKeeps ==
    ASSUME CallsInv, NEW c \in Callers, Wake(c)
    PROVE  Kept(c, call[c].owned)
  <1> DEFINE q == call[c]
             p == [q EXCEPT !.pc = "send", !.delay = 0, !.attempt = q.attempt + 1]
  <1>1. call' = [call EXCEPT ![c] = p]
    BY DEF Wake
  <1>2. CallInv(q) /\ IsCall(q) /\ q.pc = "sleep"
    BY DEF CallsInv, CallInv, Wake
  <1>3. IsCall(p) /\ Alike(p, q) /\ p.pc = "send" /\ p.owned = q.owned
    BY <1>2 DEF IsCall, Fields, Alike
  <1> HIDE DEF p
  <1>4. CallInv(p)
    BY <1>2, <1>3, Onward DEF Unanswered
  <1>5. Becomes(c, p)
    BY <1>1, Assigned
  <1> QED BY <1>3, <1>4, <1>5 DEF Becomes, Kept

\* A nonce challenge grants nothing, so the second round starts as the first did.
LEMMA RenewKeeps ==
    ASSUME CallsInv, NEW c \in Callers, RenewProof(c)
    PROVE  Kept(c, call[c].owned)
  <1>1. proofs' = proofs + 1 /\ call' = [call EXCEPT ![c].pc = "send", ![c].round = 2,
              ![c].attempt = 0, ![c].nonce = TRUE, ![c].jti = proofs', ![c].ans = None]
    BY DEF RenewProof
  <1> DEFINE q == call[c]
             j == proofs'
             p == [q EXCEPT !.pc = "send", !.round = 2, !.attempt = 0, !.nonce = TRUE,
                            !.jti = j, !.ans = None]
  <1>2. call' = [call EXCEPT ![c] = p]
    BY <1>1
  <1>3. CallInv(q) /\ IsCall(q) /\ q.pc = "answered"
    BY DEF CallsInv, CallInv, RenewProof, Returned
  <1>4. ~is_success(q.ans)
    BY NoGrant DEF RenewProof, Challenged
  <1> HIDE DEF j
  <1>5. IsCall(p) /\ Alike(p, q) /\ p.pc = "send" /\ p.owned = q.owned
    BY <1>3 DEF IsCall, Fields, Alike
  <1> HIDE DEF p
  <1>6. CallInv(p)
    BY <1>3, <1>4, <1>5, Onward DEF Unanswered
  <1>7. Becomes(c, p)
    BY <1>2, Assigned
  <1> QED BY <1>5, <1>6, <1>7 DEF Becomes, Kept

\* The classification of an answer keeps the invariant.
LEMMA AnswerKeeps ==
    ASSUME CallsInv, NEW c \in Callers, Redirected(c) \/ ProcessAnswer(c)
    PROVE  Kept(c, call[c].owned)
  <1>1. call[c].pc = "answered" /\ CallInv(call[c])
    BY DEF Redirected, ProcessAnswer, Returned, CallsInv
  <1>2. CASE Redirected(c)
    BY <1>1, <1>2, NoGrant, RaisesKeeps DEF Redirected
  <1>3. CASE ProcessAnswer(c)
    <2> DEFINE res == Process(call[c].op, call[c].req, call[c].ans)
    <2>1. Ends(c, res)
      BY <1>3 DEF ProcessAnswer
    <2>2. CASE is_success(call[c].ans)
      BY <1>1, <2>1, <2>2, EndsKeeps
    <2>3. CASE ~is_success(call[c].ans)
      <3>1. res # Success
        BY <1>1, <2>3, ProcessFaithful DEF CallInv
      <3> HIDE DEF res
      <3> QED BY <1>1, <2>1, <2>3, <3>1, EndsKeeps
    <2> QED BY <2>2, <2>3
  <1> QED BY <1>2, <1>3

\* A cancelled call keeps the invariant.
LEMMA CancelKeeps ==
    ASSUME CallsInv, NEW c \in Callers, Cancel(c)
    PROVE  Kept(c, call[c].owned)
  BY EndsKeeps DEF Cancel, Unanswered, Success

\* After the clean-up a call owns no client.
LEMMA FinallyKeeps ==
    ASSUME CallsInv, NEW c \in Callers, Finally(c)
    PROVE  Kept(c, 0)
  <1> DEFINE p == Idle(call[c])
  <1>1. call' = [call EXCEPT ![c] = p]
    BY DEF Finally
  <1>2. CallInv(p) /\ p.owned = 0
    BY IdleInv, IdleFields
  <1> HIDE DEF p
  <1>3. Becomes(c, p)
    BY <1>1, Assigned
  <1> QED BY <1>2, <1>3 DEF Becomes, Kept

\* A call that begins owns no client.
LEMMA CallKeeps ==
    ASSUME CallsInv, NEW c \in Callers, NEW op \in Operations, NEW aio, Call(c, op, aio)
    PROVE  Kept(c, 0) /\ call[c].owned = 0
  <1> DEFINE Q(req) == [Idle(call[c]) EXCEPT !.op = op, !.aio = aio, !.req = req,
                                             !.left = call[c].left - 1]
             R == IF op = "userinfo" THEN "raised" ELSE Handle(op, "ValueError")
             J(req) == IF Signed(Prepare(op, req), req) THEN proofs + 1 ELSE 0
  <1>1. PICK req \in Requests[op] :
            \/ call' = [call EXCEPT ![c] = [Q(req) EXCEPT !.pc = "finally", !.res = R]]
            \/ call' = [call EXCEPT ![c] = [Q(req) EXCEPT !.pc = "resolve", !.jti = J(req)]]
    BY DEF Call
  <1>0. R # Success
    BY HandleNeverSucceeds DEF Success
  <1> HIDE DEF R, J
  <1> DEFINE q == Q(req)
             i == Idle(call[c])
  <1>2. IsCall(i) /\ i.grants = 0 /\ i.lost = 0 /\ i.owned = 0
    BY IdleFields
  <1> HIDE DEF i
  <1>3. /\ IsCall(q) /\ q.op = op /\ q.req = req /\ q.owned = 0 /\ q.grants = 0 /\ q.lost = 0
    BY <1>2 DEF IsCall, Fields, i
  <1> HIDE DEF q
  <1>4. q.req.sub \in {None, "sub", "other"}
    BY <1>3, PyClientAssumption
  <1>5. call[c].owned = 0
    BY DEF CallsInv, CallInv, Call
  <1>6. ASSUME NEW res, res # Success,
               call' = [call EXCEPT ![c] = [q EXCEPT !.pc = "finally", !.res = res]]
        PROVE  Kept(c, 0)
    <2> DEFINE p == [q EXCEPT !.pc = "finally", !.res = res]
    <2>1. IsCall(p) /\ Alike(p, q) /\ p.pc = "finally" /\ p.owned = q.owned /\ p.res = res
      BY <1>3 DEF IsCall, Fields, Alike
    <2>2. call' = [call EXCEPT ![c] = p]
      BY <1>6
    <2> HIDE DEF p
    <2>3. CallInv(p)
      BY <1>3, <1>4, <1>6, <2>1 DEF CallInv, Alike, Unanswered, Told
    <2>4. Becomes(c, p)
      BY <2>2, Assigned
    <2> QED BY <1>3, <2>1, <2>3, <2>4 DEF Becomes, Kept
  <1>7. ASSUME NEW jti, call' = [call EXCEPT ![c] = [q EXCEPT !.pc = "resolve", !.jti = jti]]
        PROVE  Kept(c, 0)
    <2> DEFINE p == [q EXCEPT !.pc = "resolve", !.jti = jti]
    <2>1. IsCall(p) /\ Alike(p, q) /\ p.pc = "resolve" /\ p.owned = q.owned
      BY <1>3 DEF IsCall, Fields, Alike
    <2>2. call' = [call EXCEPT ![c] = p]
      BY <1>7
    <2> HIDE DEF p
    <2>3. CallInv(p)
      BY <1>3, <1>4, <2>1 DEF CallInv, Alike, Unanswered
    <2>4. Becomes(c, p)
      BY <2>2, Assigned
    <2> QED BY <1>3, <2>1, <2>3, <2>4 DEF Becomes, Kept
  <1>8. CASE call' = [call EXCEPT ![c] = [q EXCEPT !.pc = "finally", !.res = R]]
    BY <1>0, <1>5, <1>6, <1>8
  <1>9. CASE call' = [call EXCEPT ![c] = [q EXCEPT !.pc = "resolve", !.jti = J(req)]]
    BY <1>5, <1>7, <1>9
  <1> QED BY <1>1, <1>8, <1>9 DEF q

\* Each of the endpoint functions begins a call and touches no client.
LEMMA WrapperKeeps ==
    ASSUME CallsInv, NEW c \in Callers, Wrapper(c)
    PROVE  /\ Kept(c, 0) /\ call[c].owned = 0
           /\ UNCHANGED <<shared, local, managed, clients, closer>>
  <1>1. \E op \in Operations, aio \in BOOLEAN : Call(c, op, aio)
    BY DEF Wrapper, Operations,
       request_client_credentials_token_sync, request_client_credentials_token_aio,
       request_authorization_code_token_sync, request_authorization_code_token_aio,
       refresh_token_sync, refresh_token_aio, introspect_token_sync, introspect_token_aio,
       revoke_token_sync, revoke_token_aio, push_authorization_request_sync,
       push_authorization_request_aio, exchange_token_sync, exchange_token_aio,
       request_device_authorization_sync, request_device_authorization_aio,
       poll_device_token_sync, poll_device_token_aio, get_userinfo_sync, get_userinfo_aio,
       register_client_sync, register_client_aio, read_client_sync, read_client_aio,
       update_client_sync, update_client_aio, delete_client_sync, delete_client_aio
  <1>2. PICK op \in Operations, aio \in BOOLEAN : Call(c, op, aio)
    BY <1>1
  <1>3. UNCHANGED <<shared, local, managed, clients, closer>>
    BY <1>2 DEF Call
  <1> QED BY <1>2, <1>3, CallKeeps

\* A step of a running call that touches no client: what is shared stays.
Quiet(c) == /\ Kept(c, call[c].owned)
            /\ UNCHANGED <<shared, local, managed, clients, closer>>

\* The steps of a call between resolving and clean-up create, close and replace no client.
LEMMA QuietSteps ==
    ASSUME CallsInv, NEW c \in Callers,
           \/ get_async_http_client(c) \/ GotShared(c) \/ Send(c) \/ Deliver(c) \/ Lose(c)
           \/ Backoff(c) \/ Wake(c) \/ Redirected(c) \/ RenewProof(c) \/ ProcessAnswer(c)
           \/ Cancel(c)
    PROVE  Quiet(c)
  <1>1. UNCHANGED <<shared, local, managed, clients, closer>>
    BY DEF get_async_http_client, GotShared, Send, Deliver, Lose, Backoff, Wake, Redirected,
       RenewProof, ProcessAnswer, Cancel
  <1>2. CASE get_async_http_client(c)
    BY <1>1, <1>2, GotoKeeps DEF get_async_http_client, Quiet, Unanswered
  <1>3. CASE GotShared(c)
    BY <1>1, <1>3, ClientKeeps DEF GotShared, Quiet, Unanswered
  <1>4. CASE Send(c)
    <2>1. call[c].pc = "send" /\ call[c].pc \in Unanswered \ {"idle"}
      BY <1>4 DEF Send, Unanswered
    <2>2. CASE Goto(c, "wait")
      BY <1>1, <2>1, <2>2, GotoKeeps DEF Quiet, Unanswered
    <2>3. CASE \E e : Raises(c, e)
      BY <1>1, <2>1, <2>3, RaisesKeeps DEF Quiet
    <2> QED BY <1>4, <2>2, <2>3 DEF Send
  <1>5. CASE Deliver(c) \/ Lose(c) \/ Backoff(c) \/ Wake(c)
    BY <1>1, <1>5, DeliverKeeps, LoseKeeps, BackoffKeeps, WakeKeeps DEF Quiet
  <1>6. CASE Redirected(c) \/ RenewProof(c) \/ ProcessAnswer(c) \/ Cancel(c)
    BY <1>1, <1>6, AnswerKeeps, RenewKeeps, CancelKeeps DEF Quiet
  <1> QED BY <1>2, <1>3, <1>4, <1>5, <1>6

\* A client is created, as the last of the sequence, and referred to by c alone.
Creates == clients' = Append(clients, "open")

\* Resolving a client creates none, or one of the call's own.
LEMMA ResolveSteps ==
    ASSUME CallsInv, NEW c \in Callers, resolve_http_client(c) \/ resolve_async_http_client(c)
    PROVE  \/ Quiet(c)
           \/ /\ Creates /\ Kept(c, Len(clients')) /\ call[c].owned = 0
              /\ UNCHANGED <<shared, local, managed, closer>>
  <1>1. PICK l \in {"local", "get"} : Resolve(c, l)
    BY DEF resolve_http_client, resolve_async_http_client
  <1>2. /\ call[c].pc = "resolve" /\ call[c].pc \in Unanswered \ {"idle"} /\ call[c].owned = 0
        /\ UNCHANGED <<shared, local, managed, closer>>
    BY <1>1 DEF Resolve, Unanswered, CallsInv, CallInv
  <1>3. \/ /\ clients' = clients
           /\ \/ \E e : Raises(c, e)
              \/ call' = [call EXCEPT ![c].pc = "send", ![c].client = 1]
              \/ Goto(c, l)
        \/ /\ clients' = Created
           /\ call' = [call EXCEPT ![c].pc = "send", ![c].client = Len(Created),
                                   ![c].owned = Len(Created)]
    BY <1>1 DEF Resolve
  <1>4. CASE clients' = clients /\ \E e : Raises(c, e)
    BY <1>2, <1>4, RaisesKeeps DEF Quiet
  <1>5. CASE clients' = clients /\ call' = [call EXCEPT ![c].pc = "send", ![c].client = 1]
    BY <1>2, <1>5, ClientKeeps DEF Quiet
  <1>6. CASE clients' = clients /\ Goto(c, l)
    BY <1>2, <1>6, GotoKeeps DEF Quiet, Unanswered
  <1>7. CASE /\ clients' = Created
             /\ call' = [call EXCEPT ![c].pc = "send", ![c].client = Len(Created),
                                     ![c].owned = Len(Created)]
    <2>1. Kept(c, Len(Created))
      BY <1>2, <1>7, OwnedKeeps
    <2> QED BY <1>2, <1>7, <2>1 DEF Created, Creates
  <1> QED BY <1>3, <1>4, <1>5, <1>6, <1>7

-----------------------------------------------------------------------------
(* The clients                                                             *)

Grown ==
    /\ clients' \in Seq({"open", "closed", "aborted"}) /\ Len(clients') = Len(clients) + 1
    /\ clients'[Len(clients) + 1] = "open"
    /\ \A i \in 1..Len(clients) : clients'[i] = clients[i]

\* A new client is open and changes no other.
LEMMA CreateFacts ==
    ASSUME RefsOK, Creates
    PROVE  Grown
  BY DEF RefsOK, Creates, Grown

\* Client j is closed; a j that is no client closes none.
Closes(j) ==
    /\ clients' \in Seq({"open", "closed", "aborted"}) /\ Len(clients') = Len(clients)
    /\ \A i \in 1..Len(clients) : clients'[i] = IF i = j THEN "closed" ELSE clients[i]

\* Closing a client changes no other.
LEMMA CloseFacts ==
    ASSUME RefsOK, NEW j,
           \/ clients' = [i \in DOMAIN clients |-> IF i = j THEN "closed" ELSE clients[i]]
           \/ j \in 1..Len(clients) /\ clients' = [clients EXCEPT ![j] = "closed"]
    PROVE  Closes(j)
  <1>1. CASE clients' = [i \in DOMAIN clients |-> IF i = j THEN "closed" ELSE clients[i]]
    <2>1. /\ DOMAIN clients = 1..Len(clients) /\ Len(clients) \in Nat
          /\ \A i \in 1..Len(clients) : clients[i] \in {"open", "closed", "aborted"}
      BY DEF RefsOK
    <2>2. clients' \in [1..Len(clients) -> {"open", "closed", "aborted"}]
      BY <1>1, <2>1
    <2>3. clients' \in Seq({"open", "closed", "aborted"}) /\ Len(clients') = Len(clients)
      BY <2>1, <2>2
    <2> QED BY <1>1, <2>1, <2>3 DEF Closes
  <1>2. CASE j \in 1..Len(clients) /\ clients' = [clients EXCEPT ![j] = "closed"]
    BY <1>2 DEF RefsOK, Closes
  <1> QED BY <1>1, <1>2

\* The part of the invariant that is about the clients.
ClientsInv == RefsOK /\ SharedInv /\ NoOrphan /\ SharedOpen

\* What the type of the clients says of their indices.
LEMMA Lengths ==
    ASSUME RefsOK
    PROVE  /\ Len(clients) \in Nat /\ Len(clients) > 0
           /\ DOMAIN clients = 1..Len(clients)
           /\ \A i \in 1..Len(clients) : clients[i] \in {"open", "closed", "aborted"}
           /\ \A i \in 0..Len(clients) : i = 0 \/ i \in 1..Len(clients)
  BY DEF RefsOK

\* Nothing happens to a client, nor to a reference.
LEMMA Untouched ==
    ASSUME ClientsInv, UNCHANGED <<shared, local, managed, clients, closer>>,
           \A o \in Callers : call'[o].owned = call[o].owned
    PROVE  ClientsInv'
  <1>1. RefsOK'
    BY DEF ClientsInv, RefsOK
  <1>2. SharedInv'
    BY DEF ClientsInv, SharedInv
  <1>3. NoOrphan'
    BY DEF ClientsInv, NoOrphan
  <1>4. SharedOpen'
    BY DEF ClientsInv, SharedOpen, Open
  <1> QED BY <1>1, <1>2, <1>3, <1>4 DEF ClientsInv

\* A new client: referred to by one of the shared, the thread's and the call's reference,
\* which referred to none.
LEMMA Creation ==
    ASSUME ClientsInv, Grown, UNCHANGED <<managed, closer>>, NEW c \in Callers,
           \A o \in Callers \ {c} : local'[o] = local[o] /\ call'[o].owned = call[o].owned,
           local' \in [Callers -> 0..(Len(clients) + 1)],
           \/ /\ call[c].owned = 0 /\ call'[c].owned = Len(clients) + 1
              /\ local'[c] = local[c] /\ shared' = shared
           \/ /\ local[c] = 0 /\ local'[c] = Len(clients) + 1
              /\ call'[c].owned = call[c].owned /\ shared' = shared
           \/ /\ shared = 0 /\ shared' = Len(clients) + 1
              /\ call'[c].owned = call[c].owned /\ local'[c] = local[c]
    PROVE  ClientsInv'
  <1> DEFINE n == Len(clients)
  <1>0. RefsOK /\ SharedInv /\ NoOrphan /\ SharedOpen
    BY DEF ClientsInv
  <1>1. /\ n \in Nat /\ n > 0 /\ DOMAIN clients = 1..n /\ DOMAIN clients' = 1..(n + 1)
        /\ clients' \in Seq({"open", "closed", "aborted"}) /\ Len(clients') = n + 1 /\ clients'[n + 1] = "open"
        /\ \A i \in 1..n : clients'[i] = clients[i]
    BY <1>0, Lengths DEF Grown
  <1>2. /\ shared \in 0..n /\ local \in [Callers -> 0..n] /\ \A o \in Callers : call[o].owned \in 0..n
        /\ closer \in [Closers -> {"idle", "closing", "done"}]
        /\ managed \in [closed : BOOLEAN, closing : BOOLEAN, owned : BOOLEAN]
    BY <1>0 DEF RefsOK
  <1> HIDE DEF n
  <1>3. \A i \in 0..n : i \in 0..(n + 1) /\ i # n + 1 /\ (i = 0 \/ i \in 1..n)
    BY <1>1
  <1>4. n + 1 \in 0..(n + 1) /\ n + 1 # 1 /\ n + 1 # 0
    BY <1>1
  <1>5. RefsOK'
    <2>1. shared' \in 0..(n + 1)
      BY <1>2, <1>3, <1>4 DEF n
    <2>2. \A o \in Callers : call'[o].owned \in 0..(n + 1)
      BY <1>2, <1>3, <1>4 DEF n
    <2>3. local' \in [Callers -> 0..(n + 1)]
      BY DEF n
    <2>4. Len(clients') > 0
      BY <1>1
    <2> QED BY <1>1, <1>2, <2>1, <2>2, <2>3, <2>4 DEF RefsOK
  <1>6. \A i \in 1..n : i = shared => i = shared'
    BY <1>2, <1>3 DEF n
  <1>7. NoOrphan'
    <2>1. SUFFICES ASSUME NEW i \in DOMAIN clients', clients'[i] = "open"
                   PROVE  \/ i = shared' \/ i = 1
                          \/ \E o \in Callers : i \in {local'[o], call'[o].owned}
      BY DEF NoOrphan
    <2>2. CASE i = n + 1
      BY <2>2 DEF n
    <2>3. CASE i \in 1..n
      <3>1. \/ i = shared \/ i = 1 \/ \E o \in Callers : i \in {local[o], call[o].owned}
        BY <1>0, <1>1, <2>1, <2>3 DEF NoOrphan
      <3>2. \A o \in Callers : i \in {local[o], call[o].owned} => i \in {local'[o], call'[o].owned}
        <4>1. i # 0
          BY <2>3
        <4> QED BY <4>1
      <3> QED BY <1>6, <2>3, <3>1, <3>2
    <2> QED BY <1>1, <2>1, <2>2, <2>3
  <1>8. SharedInv'
    <2>1. shared' # 1
      BY <1>0, <1>4 DEF SharedInv, n
    <2>2. shared' # 0 => \A o \in Callers : local'[o] # shared' /\ call'[o].owned # shared'
      <3>1. \A o \in Callers : local[o] # n + 1 /\ call[o].owned # n + 1
        BY <1>2, <1>3
      <3>2. shared # n + 1
        BY <1>2, <1>3
      <3> QED BY <1>0, <3>1, <3>2 DEF SharedInv, n
    <2>3. \A k \in Closers : closer'[k] = "closing" => shared' # 0 /\ clients'[shared'] = "closed"
      BY <1>0, <1>1, <1>2, <1>3 DEF SharedInv, n
    <2> QED BY <1>0, <2>1, <2>2, <2>3 DEF SharedInv
  <1>9. SharedOpen'
    <2>1. shared' = shared \/ shared' = n + 1
      BY DEF n
    <2>2. CASE shared' = n + 1
      BY <1>0, <1>1, <1>4, <2>2 DEF SharedOpen, Open
    <2>3. CASE shared' = shared
      BY <1>0, <1>1, <1>2, <1>3, <2>3 DEF SharedOpen, Open
    <2> QED BY <2>1, <2>2, <2>3
  <1> QED BY <1>5, <1>7, <1>8, <1>9 DEF ClientsInv

\* A client that is not the shared one is closed, and references to it may be dropped.
LEMMA Closing ==
    ASSUME ClientsInv, NEW j, j = 1 \/ j = 0 \/ j # shared, Closes(j),
           UNCHANGED <<shared, closer>>, managed' \in [closed : BOOLEAN, closing : BOOLEAN, owned : BOOLEAN],
           local' \in [Callers -> 0..Len(clients)],
           \A o \in Callers : /\ local'[o] \in {local[o], 0} /\ (local'[o] # local[o] => local[o] = j)
                              /\ call'[o].owned \in {call[o].owned, 0}
                              /\ call'[o].owned # call[o].owned => call[o].owned = j
    PROVE  ClientsInv'
  <1> DEFINE n == Len(clients)
  <1>0. RefsOK /\ SharedInv /\ NoOrphan /\ SharedOpen
    BY DEF ClientsInv
  <1>1. /\ n \in Nat /\ n > 0 /\ DOMAIN clients = 1..n /\ DOMAIN clients' = 1..n
        /\ clients' \in Seq({"open", "closed", "aborted"}) /\ Len(clients') = n
        /\ \A i \in 1..n : clients'[i] = IF i = j THEN "closed" ELSE clients[i]
    BY <1>0, Lengths DEF Closes
  <1>2. /\ shared \in 0..n /\ local \in [Callers -> 0..n] /\ \A o \in Callers : call[o].owned \in 0..n
        /\ closer \in [Closers -> {"idle", "closing", "done"}]
        /\ local' \in [Callers -> 0..n]
    BY <1>0 DEF RefsOK
  <1> HIDE DEF n
  <1>3. 0 \in 0..n /\ \A i \in 0..n : i = 0 \/ i \in 1..n
    BY <1>1
  <1>4. RefsOK'
    <2>1. \A o \in Callers : call'[o].owned \in 0..n
      BY <1>2, <1>3
    <2> QED BY <1>1, <1>2, <2>1 DEF RefsOK
  <1>5. shared # 0 => shared # j
    BY <1>0 DEF SharedInv
  <1>6. NoOrphan'
    <2>1. SUFFICES ASSUME NEW i \in 1..n, clients'[i] = "open"
                   PROVE  \/ i = shared' \/ i = 1
                          \/ \E o \in Callers : i \in {local'[o], call'[o].owned}
      BY <1>1 DEF NoOrphan
    <2>2. i # j /\ clients[i] = "open"
      BY <1>1, <2>1
    <2>3. \/ i = shared \/ i = 1 \/ \E o \in Callers : i \in {local[o], call[o].owned}
      BY <1>0, <1>1, <2>2 DEF NoOrphan
    <2>4. \A o \in Callers : i \in {local[o], call[o].owned} => i \in {local'[o], call'[o].owned}
      BY <2>2
    <2> QED BY <2>3, <2>4
  <1>7. SharedInv'
    <2>1. shared' # 0 => \A o \in Callers : local'[o] # shared' /\ call'[o].owned # shared'
      BY <1>0 DEF SharedInv
    <2>2. \A k \in Closers : closer'[k] = "closing" => shared' # 0 /\ clients'[shared'] = "closed"
      BY <1>0, <1>1, <1>2, <1>3 DEF SharedInv
    <2> QED BY <1>0, <2>1, <2>2 DEF SharedInv
  <1>8. SharedOpen'
    BY <1>0, <1>1, <1>2, <1>3, <1>5 DEF SharedOpen, Open
  <1> QED BY <1>4, <1>6, <1>7, <1>8 DEF ClientsInv

-----------------------------------------------------------------------------
(* The steps of the system                                                 *)

\* A kept call changes no client reference but its own.
LEMMA KeptCalls ==
    ASSUME CallsInv, NEW c \in Callers, NEW n, Kept(c, n)
    PROVE  CallsInv' /\ call'[c].owned = n /\ \A o \in Callers \ {c} : call'[o].owned = call[o].owned
  BY DEF CallsInv, Kept

\* A step that touches no client keeps the invariant.
LEMMA QuietKeeps ==
    ASSUME CallsInv, ClientsInv, NEW c \in Callers, Quiet(c)
    PROVE  CallsInv' /\ ClientsInv'
  <1>1. Kept(c, call[c].owned) /\ UNCHANGED <<shared, local, managed, clients, closer>>
    BY DEF Quiet
  <1>2. CallsInv' /\ \A o \in Callers : call'[o].owned = call[o].owned
    BY <1>1, KeptCalls
  <1> QED BY <1>1, <1>2, Untouched

\* The steps that choose or create the client of a call.
LEMMA ChoiceKeeps ==
    ASSUME CallsInv, ClientsInv, NEW c \in Callers,
           \/ resolve_http_client(c) \/ resolve_async_http_client(c)
           \/ get_http_client(c) \/ CreateShared(c)
    PROVE  CallsInv' /\ ClientsInv'
  <1> DEFINE n == Len(clients)
  <1>0. RefsOK /\ n \in Nat /\ local \in [Callers -> 0..n]
    BY Lengths DEF ClientsInv, RefsOK
  <1>1. local \in [Callers -> 0..(n + 1)]
    BY <1>0
  <1>2. CASE resolve_http_client(c) \/ resolve_async_http_client(c)
    <2>1. CASE Quiet(c)
      BY <2>1, QuietKeeps
    <2>2. CASE /\ Creates /\ Kept(c, Len(clients')) /\ call[c].owned = 0
               /\ UNCHANGED <<shared, local, managed, closer>>
      <3>1. Grown /\ Len(clients') = n + 1
        BY <1>0, <2>2, CreateFacts DEF Grown
      <3>2. Kept(c, n + 1)
        BY <2>2, <3>1
      <3>3. /\ CallsInv' /\ call'[c].owned = n + 1
            /\ \A o \in Callers \ {c} : call'[o].owned = call[o].owned
        BY <3>2, KeptCalls
      <3> QED BY <1>1, <2>2, <3>1, <3>3, Creation
    <2> QED BY <1>2, <2>1, <2>2, ResolveSteps
  <1>3. CASE get_http_client(c)
    <2>1. PICK cl : cl = local'[c]
      OBVIOUS
    <2>2. Kept(c, call[c].owned)
      BY <1>3, <2>1, ClientKeeps DEF get_http_client, Unanswered
    <2>3. CallsInv' /\ \A o \in Callers : call'[o].owned = call[o].owned
      BY <2>2, KeptCalls
    <2>4. UNCHANGED <<shared, managed, closer>>
      BY <1>3 DEF get_http_client
    <2>5. CASE local[c] # 0
      BY <1>3, <2>3, <2>4, <2>5, Untouched DEF get_http_client
    <2>6. CASE local[c] = 0
      <3>1. Creates /\ local' = [local EXCEPT ![c] = Len(Append(clients, "open"))]
        BY <1>3, <2>6 DEF get_http_client, Created, Creates
      <3>2. Grown /\ Len(Append(clients, "open")) = n + 1
        BY <1>0, <3>1, CreateFacts DEF RefsOK
      <3>3. /\ local' \in [Callers -> 0..(n + 1)] /\ local'[c] = n + 1
            /\ \A o \in Callers \ {c} : local'[o] = local[o]
        <4> HIDE DEF n
        <4>1. n + 1 \in 0..(n + 1)
          BY <1>0
        <4> QED BY <1>0, <1>1, <3>1, <3>2, <4>1
      <3> QED BY <2>3, <2>4, <2>6, <3>2, <3>3, Creation
    <2> QED BY <2>5, <2>6
  <1>4. CASE CreateShared(c)
    <2>1. UNCHANGED <<local, managed, closer>>
      BY <1>4 DEF CreateShared
    <2>2. CASE shared # 0
      <3>1. Goto(c, "got") /\ UNCHANGED <<shared, clients>> /\ call[c].pc = "create"
        BY <1>4, <2>2 DEF CreateShared
      <3>2. Quiet(c)
        BY <2>1, <3>1, GotoKeeps DEF Unanswered, Quiet
      <3> QED BY <3>2, QuietKeeps
    <2>3. CASE shared = 0
      <3>1. PICK cl : cl = shared'
        OBVIOUS
      <3>2. Kept(c, call[c].owned)
        BY <1>4, <2>3, <3>1, ClientKeeps DEF CreateShared, Unanswered
      <3>3. CallsInv' /\ \A o \in Callers : call'[o].owned = call[o].owned
        BY <3>2, KeptCalls
      <3>4. Creates /\ shared' = Len(Append(clients, "open"))
        BY <1>4, <2>3 DEF CreateShared, Created, Creates
      <3>5. Grown /\ shared' = n + 1
        BY <1>0, <3>4, CreateFacts DEF RefsOK
      <3> QED BY <1>1, <2>1, <2>3, <3>3, <3>5, Creation
    <2> QED BY <2>2, <2>3
  <1> QED BY <1>2, <1>3, <1>4

\* The clean-up of a call, a thread's client and the managed client.
LEMMA CleanupKeeps ==
    ASSUME CallsInv, ClientsInv, NEW c \in Callers, Finally(c) \/ close_http_client(c)
    PROVE  CallsInv' /\ ClientsInv'
  <1>0. RefsOK /\ SharedInv /\ local \in [Callers -> 0..Len(clients)] /\ 0 \in 0..Len(clients)
    BY DEF ClientsInv, RefsOK
  <1>00. managed \in [closed : BOOLEAN, closing : BOOLEAN, owned : BOOLEAN]
    BY <1>0 DEF RefsOK
  <1>1. CASE Finally(c)
    <2> DEFINE j == call[c].owned
    <2>1. /\ CallsInv' /\ call'[c].owned = 0
          /\ \A o \in Callers \ {c} : call'[o].owned = call[o].owned
      BY <1>1, FinallyKeeps, KeptCalls
    <2>2. Closes(j)
      BY <1>0, <1>1, CloseFacts DEF Finally
    <2>3. UNCHANGED <<shared, local, managed, closer>>
      BY <1>1 DEF Finally
    <2>4. j = 0 \/ j # shared
      BY <1>0 DEF SharedInv
    <2>5. \A o \in Callers : /\ local'[o] \in {local[o], 0} /\ (local'[o] # local[o] => local[o] = j)
                             /\ call'[o].owned \in {call[o].owned, 0}
                             /\ call'[o].owned # call[o].owned => call[o].owned = j
      BY <2>1, <2>3
    <2> HIDE DEF j
    <2> QED BY <1>0, <1>00, <2>1, <2>2, <2>3, <2>4, <2>5, Closing
  <1>2. CASE close_http_client(c)
    <2> DEFINE j == local[c]
    <2>1. /\ UNCHANGED <<call, shared, managed, closer>> /\ local[c] # 0
          /\ clients' = [clients EXCEPT ![j] = "closed"] /\ local' = [local EXCEPT ![c] = 0]
      BY <1>2 DEF close_http_client
    <2>2. j \in 1..Len(clients)
      BY <1>0, <2>1, Lengths
    <2>3. Closes(j)
      BY <1>0, <2>1, <2>2, CloseFacts
    <2>4. j = 0 \/ j # shared
      BY <1>0 DEF SharedInv
    <2>5. local' \in [Callers -> 0..Len(clients)]
      BY <1>0, <2>1
    <2>6. \A o \in Callers : /\ local'[o] \in {local[o], 0} /\ (local'[o] # local[o] => local[o] = j)
                             /\ call'[o].owned \in {call[o].owned, 0}
                             /\ call'[o].owned # call[o].owned => call[o].owned = j
      BY <1>0, <2>1
    <2>7. CallsInv'
      BY <2>1 DEF CallsInv
    <2> HIDE DEF j
    <2> QED BY <1>00, <2>1, <2>3, <2>4, <2>5, <2>6, <2>7, Closing
  <1> QED BY <1>1, <1>2

\* Closing the managed client keeps the invariant: nobody else refers to it.
LEMMA ManagedKeeps ==
    ASSUME CallsInv, ClientsInv, CloseManaged \/ SetClosed
    PROVE  CallsInv' /\ ClientsInv'
  <1>0. RefsOK /\ local \in [Callers -> 0..Len(clients)]
    BY DEF ClientsInv, RefsOK
  <1>1. UNCHANGED <<call, shared, local, closer>>
    BY DEF CloseManaged, SetClosed
  <1>2. CallsInv'
    BY <1>1 DEF CallsInv
  <1>3. managed' \in [closed : BOOLEAN, closing : BOOLEAN, owned : BOOLEAN]
    BY <1>0 DEF CloseManaged, SetClosed, RefsOK
  <1>4. 1 \in 1..Len(clients) /\ 0 \notin 1..Len(clients)
    BY <1>0, Lengths
  <1>5. \E j \in {0, 1} : Closes(j)
    <2>1. CASE clients' = [clients EXCEPT ![1] = "closed"]
      BY <1>0, <1>4, <2>1, CloseFacts
    <2>2. CASE clients' = clients
      BY <1>0, <1>4, <2>2 DEF Closes, RefsOK
    <2> QED BY <2>1, <2>2 DEF CloseManaged, SetClosed
  <1>6. PICK j \in {0, 1} : Closes(j)
    BY <1>5
  <1> QED BY <1>0, <1>1, <1>2, <1>3, <1>6, Closing

\* close_async_http_client: between its two steps the shared client is closed, and nobody
\* else can replace or clear the reference; cut short, it leaves an aborted client behind.
LEMMA SharedKeeps ==
    ASSUME CallsInv, ClientsInv, NEW k \in Closers, CloseShared(k) \/ CutClose(k) \/ ClearShared(k)
    PROVE  CallsInv' /\ ClientsInv'
  <1>0. RefsOK /\ SharedInv /\ NoOrphan /\ SharedOpen
    BY DEF ClientsInv
  <1>1. UNCHANGED <<call, local, managed>>
    BY DEF CloseShared, CutClose, ClearShared
  <1>2. CallsInv'
    BY <1>1 DEF CallsInv
  <1>3. /\ DOMAIN clients = 1..Len(clients) /\ Len(clients) > 0 /\ 0 \in 0..Len(clients)
        /\ \A i \in 0..Len(clients) : i = 0 \/ i \in 1..Len(clients)
    BY <1>0, Lengths
  <1>4. CASE CloseShared(k) /\ Open(shared)
    <2>1. /\ shared # 0 /\ shared' = shared
          /\ \A o \in Closers : closer[o] # "closing"
          /\ clients' = [clients EXCEPT ![shared] = "closed"]
          /\ closer' = [closer EXCEPT ![k] = "closing"]
      BY <1>4 DEF CloseShared
    <2>2. shared \in 1..Len(clients)
      BY <1>0, <1>3, <2>1 DEF RefsOK
    <2>3. Closes(shared)
      BY <1>0, <2>1, <2>2, CloseFacts
    <2>4. /\ closer' \in [Closers -> {"idle", "closing", "done"}] /\ closer'[k] = "closing"
          /\ \A o \in Closers : closer'[o] = "closing" => o = k
      BY <1>0, <2>1 DEF RefsOK
    <2>5. RefsOK'
      BY <1>0, <1>1, <2>1, <2>3, <2>4 DEF RefsOK, Closes
    <2>6. clients'[shared] = "closed"
      BY <2>2, <2>3 DEF Closes
    <2>7. SharedInv'
      BY <1>0, <1>1, <2>1, <2>4, <2>6 DEF SharedInv
    <2>8. NoOrphan'
      <3>1. DOMAIN clients' = 1..Len(clients)
        BY <2>3 DEF Closes
      <3>2. \A i \in 1..Len(clients) : clients'[i] = "open" => clients[i] = "open"
        BY <2>3 DEF Closes
      <3> QED BY <1>0, <1>1, <1>3, <2>1, <3>1, <3>2 DEF NoOrphan
    <2>9. SharedOpen'
      BY <2>4 DEF SharedOpen
    <2> QED BY <1>2, <2>5, <2>7, <2>8, <2>9 DEF ClientsInv
  <1>5. CASE ClearShared(k)
    <2>1. /\ closer[k] = "closing" /\ shared' = 0 /\ clients' = clients
          /\ closer' = [closer EXCEPT ![k] = "done"]
      BY <1>5 DEF ClearShared
    <2>2. /\ closer' \in [Closers -> {"idle", "closing", "done"}]
          /\ \A o \in Closers : closer'[o] # "closing"
      BY <1>0, <2>1 DEF RefsOK, SharedInv
    <2>3. RefsOK'
      BY <1>0, <1>1, <1>3, <2>1, <2>2 DEF RefsOK
    <2>4. SharedInv'
      BY <2>1, <2>2 DEF SharedInv
    <2>5. clients[shared] = "closed"
      BY <1>0, <2>1 DEF SharedInv
    <2>6. NoOrphan'
      BY <1>0, <1>1, <2>1, <2>5 DEF NoOrphan
    <2>7. SharedOpen'
      BY <2>1, <2>2 DEF SharedOpen
    <2> QED BY <1>2, <2>3, <2>4, <2>6, <2>7 DEF ClientsInv
  <1>6. CASE CloseShared(k) /\ ~Open(shared)
    <2>1. /\ shared # 0 /\ shared' = 0 /\ clients' = clients
          /\ \A o \in Closers : closer[o] # "closing"
          /\ closer' = [closer EXCEPT ![k] = "done"]
      BY <1>6 DEF CloseShared
    <2>2. /\ closer' \in [Closers -> {"idle", "closing", "done"}]
          /\ \A o \in Closers : closer'[o] # "closing"
      BY <1>0, <2>1 DEF RefsOK
    <2>3. RefsOK'
      BY <1>0, <1>1, <1>3, <2>1, <2>2 DEF RefsOK
    <2>4. SharedInv'
      BY <2>1, <2>2 DEF SharedInv
    <2>5. clients[shared] # "open"
      BY <1>6, <2>1 DEF Open
    <2>6. NoOrphan'
      BY <1>0, <1>1, <2>1, <2>5 DEF NoOrphan
    <2>7. SharedOpen'
      BY <2>1, <2>2 DEF SharedOpen
    <2> QED BY <1>2, <2>3, <2>4, <2>6, <2>7 DEF ClientsInv
  <1>7. CASE CutClose(k)
    <2>1. /\ closer[k] = "closing" /\ shared' = shared
          /\ clients' = [clients EXCEPT ![shared] = "aborted"]
          /\ closer' = [closer EXCEPT ![k] = "idle"]
      BY <1>7 DEF CutClose
    <2>2. /\ closer' \in [Closers -> {"idle", "closing", "done"}]
          /\ \A o \in Closers : closer'[o] # "closing"
      BY <1>0, <2>1 DEF RefsOK, SharedInv
    <2>3. shared # 0 /\ shared \in 1..Len(clients)
      BY <1>0, <1>3, <2>1 DEF RefsOK, SharedInv
    <2>4. /\ clients' \in Seq({"open", "closed", "aborted"}) /\ Len(clients') = Len(clients)
          /\ DOMAIN clients' = 1..Len(clients) /\ clients'[shared] = "aborted"
          /\ \A i \in 1..Len(clients) : clients'[i] = "open" => clients[i] = "open"
      BY <1>0, <1>3, <2>1, <2>3 DEF RefsOK
    <2>5. RefsOK'
      BY <1>0, <1>1, <2>1, <2>2, <2>4 DEF RefsOK
    <2>6. SharedInv'
      BY <1>0, <1>1, <2>1, <2>2 DEF SharedInv
    <2>7. NoOrphan'
      BY <1>0, <1>1, <1>3, <2>1, <2>4 DEF NoOrphan
    <2>8. SharedOpen'
      BY <2>1, <2>2, <2>4 DEF SharedOpen
    <2> QED BY <1>2, <2>5, <2>6, <2>7, <2>8 DEF ClientsInv
  <1> QED BY <1>4, <1>5, <1>6, <1>7

-----------------------------------------------------------------------------
(* The theorems                                                            *)

\* The initial states satisfy the invariant.
LEMMA Initially == Init => IndInv
  <1> SUFFICES ASSUME Init PROVE IndInv
    OBVIOUS
  <1>1. PICK w \in Workloads : call = [c \in Callers |-> Idle(w[c])]
    BY DEF Init
  <1>2. CallsInv
    BY <1>1, IdleInv DEF CallsInv
  <1>3. \A c \in Callers : call[c].owned = 0
    BY <1>1, IdleFields
  <1>4. /\ clients = <<"open">> /\ shared = 0 /\ local = [c \in Callers |-> 0]
        /\ closer = [k \in Closers |-> "idle"] /\ managed \in [closed : {FALSE}, closing : {FALSE}, owned : BOOLEAN]
    BY DEF Init
  <1>5. clients \in Seq({"open", "closed", "aborted"}) /\ Len(clients) = 1
    BY <1>4
  <1>6. RefsOK
    <2>1. managed \in [closed : BOOLEAN, closing : BOOLEAN, owned : BOOLEAN]
      BY <1>4
    <2>2. 0 \in 0..Len(clients) /\ Len(clients) > 0
      BY <1>5
    <2>3. local \in [Callers -> 0..Len(clients)]
      BY <1>4, <2>2
    <2> QED BY <1>3, <1>4, <1>5, <2>1, <2>2, <2>3 DEF RefsOK
  <1>7. SharedInv /\ SharedOpen
    BY <1>4 DEF SharedInv, SharedOpen
  <1>8. NoOrphan
    BY <1>4, <1>5 DEF NoOrphan
  <1> QED BY <1>2, <1>6, <1>7, <1>8 DEF IndInv

\* Every step keeps the invariant.
LEMMA Inductive == IndInv /\ [Next]_vars => IndInv'
  <1> SUFFICES ASSUME IndInv, [Next]_vars PROVE IndInv'
    OBVIOUS
  <1>0. CallsInv /\ ClientsInv
    BY DEF IndInv, ClientsInv
  <1>1. SUFFICES CallsInv' /\ ClientsInv'
    BY DEF IndInv, ClientsInv
  <1>2. ASSUME NEW c \in Callers, Wrapper(c)
        PROVE  CallsInv' /\ ClientsInv'
    BY <1>0, <1>2, WrapperKeeps, QuietKeeps DEF Quiet
  <1>3. ASSUME NEW c \in Callers, Step(c) \/ Cancel(c) \/ close_http_client(c)
        PROVE  CallsInv' /\ ClientsInv'
    <2>1. CASE \/ get_async_http_client(c) \/ GotShared(c) \/ Send(c) \/ Deliver(c) \/ Lose(c)
               \/ Backoff(c) \/ Wake(c) \/ Redirected(c) \/ RenewProof(c) \/ ProcessAnswer(c)
               \/ Cancel(c)
      BY <1>0, <2>1, QuietSteps, QuietKeeps
    <2>2. CASE \/ resolve_http_client(c) \/ resolve_async_http_client(c)
               \/ get_http_client(c) \/ CreateShared(c)
      BY <1>0, <2>2, ChoiceKeeps
    <2>3. CASE Finally(c) \/ close_http_client(c)
      BY <1>0, <2>3, CleanupKeeps
    <2> QED BY <1>3, <2>1, <2>2, <2>3 DEF Step
  <1>4. ASSUME NEW k \in Closers, CloseShared(k) \/ CutClose(k) \/ ClearShared(k)
        PROVE  CallsInv' /\ ClientsInv'
    BY <1>0, <1>4, SharedKeeps
  <1>5. CASE CloseManaged \/ SetClosed
    BY <1>0, <1>5, ManagedKeeps
  <1>6. CASE UNCHANGED vars
    <2>1. UNCHANGED call /\ UNCHANGED <<shared, local, managed, clients, closer>>
      BY <1>6 DEF vars
    <2>2. CallsInv'
      BY <1>0, <2>1 DEF CallsInv
    <2> QED BY <1>0, <2>1, <2>2, Untouched
  <1> QED BY <1>2, <1>3, <1>4, <1>5, <1>6 DEF Next

\* The invariant holds throughout.
LEMMA Invariant == Spec => []IndInv
  BY Initially, Inductive, PTL DEF Spec

\* However often requests are retried and proofs renewed, the provider grants a request
\* again only if one of its answers was lost or a 5xx hid the grant: should_retry_response
\* and extract_dpop_nonce repeat no request whose grant was answered.
THEOREM AtMostOnceHolds == Spec => []AtMostOnce
  <1>1. IndInv => AtMostOnce
    BY DEF IndInv, CallsInv, CallInv, AtMostOnce
  <1> QED BY <1>1, Invariant, PTL

\* What the wrappers tell their callers is what the provider did: no error path of a
\* handle or process function reports success, and no granted request is reported as
\* failed unless an answer was lost, hidden by a 5xx, malformed, or about another subject.
THEOREM HonestHolds == Spec => []Honest
  <1>1. IndInv => Honest
    BY DEF IndInv, CallsInv, CallInv, Told, Honest
  <1> QED BY <1>1, Invariant, PTL

\* Every open HTTP client can still be closed by somebody, whatever the interleaving of
\* calls, cancellations and closings: no path of resolve_http_client loses one.
THEOREM NoOrphanHolds == Spec => []NoOrphan
  BY Invariant, PTL DEF IndInv

\* Callers are handed a closed shared client only while one close_async_http_client is
\* between closing it and clearing the reference, or after its await was cancelled or
\* raised: then the aborted client stays until somebody closes it again.
THEOREM SharedOpenHolds == Spec => []SharedOpen
  BY Invariant, PTL DEF IndInv
=============================================================================
