------------------------------- MODULE PyClient -------------------------------
(***************************************************************************)
(* Calls of the Python library to the endpoints of a provider, sync and    *)
(* async: preparation, choice of the HTTP client, the retry loop, the DPoP *)
(* nonce round, the answer, and the clean-up.  Async calls share one       *)
(* client of the process (aio/http_client.py), sync calls one per thread   *)
(* (sync/http_client.py), mTLS calls own theirs, and a caller may pass a   *)
(* managed client (managed_client.py).                                     *)
(***************************************************************************)
EXTENDS EndpointLogic, Sequences

CONSTANTS Callers,      \* threads; each runs one call after the other
          Closers,      \* tasks that close the shared async client
          Workloads,    \* bound: caller -> how many calls, of which operations
          Requests,     \* operation -> the requests that are sent
          Answers,      \* operation -> the answers of the provider
          Retries,      \* HTTP_RETRY_MAX_ATTEMPTS
          BaseDelay     \* HTTP_RETRY_BASE_DELAY

\* The calls of the library that are modelled, each sync and async.
Operations == {"client_credentials", "auth_code", "refresh", "introspect", "revoke", "par",
               "exchange", "device_auth", "device_token", "userinfo", "register", "read",
               "update", "delete"}

\* The subject that UserInfo must name: none, the one it names, or another.
ASSUME PyClientAssumption ==
    /\ Retries \in Nat /\ BaseDelay \in Nat
    /\ \A w \in Workloads : \A c \in Callers : w[c].left \in Nat
    /\ \A op \in Operations : \A req \in Requests[op] : req.sub \in {None, "sub", "other"}

VARIABLES call,      \* caller -> its call
          shared,    \* _state["client"], 0 for None
          local,     \* caller -> its thread-local client, 0 for None
          managed,   \* the managed client that callers may pass
          clients,   \* the httpx clients created so far: "open", "closed", or "aborted"
                     \* when closing one was cut short
          closer,    \* closer -> where close_async_http_client is
          proofs     \* jti values used so far

vars == <<call, shared, local, managed, clients, closer, proofs>>

\* grants and lost are the provider's side of the call: how often it granted
\* the request, and how often its answer got lost or, a 5xx, hid the grant.
NoCall == [pc |-> "idle", op |-> "none", aio |-> FALSE, req |-> None, client |-> 0,
           owned |-> 0, attempt |-> 0, round |-> 1, jti |-> 0, nonce |-> FALSE,
           ans |-> None, res |-> None, delay |-> 0, grants |-> 0, lost |-> 0,
           left |-> 0, ops |-> {}]

Idle(work) == [NoCall EXCEPT !.left = work.left, !.ops = work.ops]

\* HTTPClient.__init__: client 1 is made for the managed client or wrapped by it.
Init == /\ \E w \in Workloads : call = [c \in Callers |-> Idle(w[c])]
        /\ shared = 0
        /\ local = [c \in Callers |-> 0]
        /\ managed \in [closed : {FALSE}, closing : {FALSE}, owned : BOOLEAN]
        /\ clients = <<"open">>
        /\ closer = [k \in Closers |-> "idle"]
        /\ proofs = 0

Open(cl) == cl # 0 /\ clients[cl] = "open"

Goto(c, pc) == call' = [call EXCEPT ![c].pc = pc]

-----------------------------------------------------------------------------
\* The handle and process functions by operation.

Handle(op, e) ==
    CASE op = "client_credentials" -> handle_token_error(e)
      [] op = "auth_code"          -> handle_auth_code_token_error(e)
      [] op = "refresh"            -> handle_refresh_token_error(e)
      [] op = "introspect"         -> handle_introspection_error(e)
      [] op = "revoke"             -> handle_revocation_error(e)
      [] op = "par"                -> handle_par_error(e)
      [] op = "exchange"           -> handle_token_exchange_error(e)
      [] op = "device_auth"        -> handle_device_auth_error(e)
      [] op = "device_token"       -> handle_device_token_error(e)
      [] op = "userinfo"           -> handle_userinfo_error(e)
      [] op = "delete"             -> handle_client_delete_error(e)
      [] OTHER                     -> handle_registration_error(e)

Process(op, req, ans) ==
    CASE op = "client_credentials" -> process_token_response(ans)
      [] op = "auth_code"          -> process_auth_code_token_response(ans)
      [] op = "refresh"            -> process_refresh_token_response(ans)
      [] op = "introspect"         -> process_introspection_response(ans)
      [] op = "revoke"             -> process_revocation_response(ans)
      [] op = "par"                -> process_par_response(ans)
      [] op = "exchange"           -> process_token_exchange_response(ans)
      [] op = "device_auth"        -> process_device_auth_response(ans)
      [] op = "device_token"       -> process_device_token_response(ans)
      [] op = "userinfo"           -> validate_userinfo_sub(process_userinfo_response(ans),
                                                            ans, req.sub)
      [] op = "register"           -> process_registration_response(ans)
      [] op = "read"               -> process_read_response(ans)
      [] op = "update"             -> process_update_response(ans)
      [] op = "delete"             -> process_delete_response(ans)

\* The finally block of every wrapper comes next.
Ends(c, res) == call' = [call EXCEPT ![c].res = res, ![c].pc = "finally"]

Raises(c, e) == Ends(c, Handle(call[c].op, e))

-----------------------------------------------------------------------------
\* The wrappers.  get_userinfo prepares its headers before its try block, so
\* that what they raise reaches the caller.

Signed(prep, req) == prep.proof \/ "assertion" \in prep.ident

\* Reading and deleting a client prepare only their headers.
NothingToPrepare(req) == Prepared(FALSE, prepare_management_headers(req), FALSE)

Prepare(op, req) ==
    CASE op = "client_credentials" -> prepare_token_request_data(req)
      [] op = "auth_code"          -> prepare_auth_code_token_request_data(req)
      [] op = "refresh"            -> prepare_refresh_token_request_data(req)
      [] op = "introspect"         -> prepare_introspection_request_data(req)
      [] op = "revoke"             -> prepare_revocation_request_data(req)
      [] op = "par"                -> prepare_par_request_data(req)
      [] op = "exchange"           -> prepare_token_exchange_request_data(req)
      [] op = "device_auth"        -> prepare_device_auth_request_data(req)
      [] op = "device_token"       -> prepare_device_token_request_data(req)
      [] op = "userinfo"           -> prepare_userinfo_headers(req)
      [] op = "register"           -> prepare_registration_request(req)
      [] op = "update"             -> prepare_update_request(req)
      [] OTHER                     -> NothingToPrepare(req)

Call(c, op, aio) ==
    /\ call[c].pc = "idle" /\ call[c].left > 0 /\ op \in call[c].ops
    /\ \E req \in Requests[op] :
         LET prep == Prepare(op, req)
             next == [Idle(call[c]) EXCEPT !.op = op, !.aio = aio, !.req = req,
                                           !.left = call[c].left - 1]
         IN  IF prep.err
             THEN /\ call' = [call EXCEPT ![c] = [next EXCEPT !.pc = "finally", !.res =
                                IF op = "userinfo" THEN "raised" ELSE Handle(op, "ValueError")]]
                  /\ UNCHANGED proofs
             ELSE /\ proofs' = IF Signed(prep, req) THEN proofs + 1 ELSE proofs
                  /\ call' = [call EXCEPT ![c] = [next EXCEPT !.pc = "resolve",
                                !.jti = IF Signed(prep, req) THEN proofs + 1 ELSE 0]]
    /\ UNCHANGED <<shared, local, managed, clients, closer>>

request_client_credentials_token_sync(c) == Call(c, "client_credentials", FALSE)
request_client_credentials_token_aio(c)  == Call(c, "client_credentials", TRUE)
request_authorization_code_token_sync(c) == Call(c, "auth_code", FALSE)
request_authorization_code_token_aio(c)  == Call(c, "auth_code", TRUE)
refresh_token_sync(c)                    == Call(c, "refresh", FALSE)
refresh_token_aio(c)                     == Call(c, "refresh", TRUE)
introspect_token_sync(c)                 == Call(c, "introspect", FALSE)
introspect_token_aio(c)                  == Call(c, "introspect", TRUE)
revoke_token_sync(c)                     == Call(c, "revoke", FALSE)
revoke_token_aio(c)                      == Call(c, "revoke", TRUE)
push_authorization_request_sync(c)       == Call(c, "par", FALSE)
push_authorization_request_aio(c)        == Call(c, "par", TRUE)
exchange_token_sync(c)                   == Call(c, "exchange", FALSE)
exchange_token_aio(c)                    == Call(c, "exchange", TRUE)
request_device_authorization_sync(c)     == Call(c, "device_auth", FALSE)
request_device_authorization_aio(c)      == Call(c, "device_auth", TRUE)
poll_device_token_sync(c)                == Call(c, "device_token", FALSE)
poll_device_token_aio(c)                 == Call(c, "device_token", TRUE)
get_userinfo_sync(c)                     == Call(c, "userinfo", FALSE)
get_userinfo_aio(c)                      == Call(c, "userinfo", TRUE)
register_client_sync(c)                  == Call(c, "register", FALSE)
register_client_aio(c)                   == Call(c, "register", TRUE)
read_client_sync(c)                      == Call(c, "read", FALSE)
read_client_aio(c)                       == Call(c, "read", TRUE)
update_client_sync(c)                    == Call(c, "update", FALSE)
update_client_aio(c)                     == Call(c, "update", TRUE)
delete_client_sync(c)                    == Call(c, "delete", FALSE)
delete_client_aio(c)                     == Call(c, "delete", TRUE)

Wrapper(c) ==
    \/ request_client_credentials_token_sync(c) \/ request_client_credentials_token_aio(c)
    \/ request_authorization_code_token_sync(c) \/ request_authorization_code_token_aio(c)
    \/ refresh_token_sync(c)                    \/ refresh_token_aio(c)
    \/ introspect_token_sync(c)                 \/ introspect_token_aio(c)
    \/ revoke_token_sync(c)                     \/ revoke_token_aio(c)
    \/ push_authorization_request_sync(c)       \/ push_authorization_request_aio(c)
    \/ exchange_token_sync(c)                   \/ exchange_token_aio(c)
    \/ request_device_authorization_sync(c)     \/ request_device_authorization_aio(c)
    \/ poll_device_token_sync(c)                \/ poll_device_token_aio(c)
    \/ get_userinfo_sync(c)                     \/ get_userinfo_aio(c)
    \/ register_client_sync(c)                  \/ register_client_aio(c)
    \/ read_client_sync(c)                      \/ read_client_aio(c)
    \/ update_client_sync(c)                    \/ update_client_aio(c)
    \/ delete_client_sync(c)                    \/ delete_client_aio(c)

-----------------------------------------------------------------------------
\* Choice of the client.  The registration calls know no mTLS.

Mtls(c) == /\ call[c].req.auth.kind = "mtls"
           /\ call[c].op \notin {"register", "read", "update", "delete"}

Created == Append(clients, "open")

\* Both functions begin alike.  build_mtls_client makes the owned client.
Resolve(c, default) ==
    LET wants == call[c].req.managed
    IN  /\ call[c].pc = "resolve"
        /\ \/ /\ wants /\ (Mtls(c) \/ managed.closed)
              /\ Raises(c, IF Mtls(c) THEN "ValueError" ELSE "RuntimeError")
              /\ UNCHANGED clients
           \/ /\ wants /\ ~Mtls(c) /\ ~managed.closed
              /\ call' = [call EXCEPT ![c].pc = "send", ![c].client = 1]
              /\ UNCHANGED clients
           \/ /\ ~wants /\ Mtls(c)
              /\ clients' = Created
              /\ call' = [call EXCEPT ![c].pc = "send", ![c].client = Len(Created),
                                      ![c].owned = Len(Created)]
           \/ /\ ~wants /\ ~Mtls(c)
              /\ Goto(c, default)
              /\ UNCHANGED clients
        /\ UNCHANGED <<shared, local, managed, closer, proofs>>

resolve_http_client(c)       == ~call[c].aio /\ Resolve(c, "local")
resolve_async_http_client(c) == call[c].aio /\ Resolve(c, "get")

get_http_client(c) ==
    /\ call[c].pc = "local"
    /\ IF local[c] = 0
       THEN /\ clients' = Created /\ local' = [local EXCEPT ![c] = Len(Created)]
       ELSE UNCHANGED <<clients, local>>
    /\ call' = [call EXCEPT ![c].pc = "send", ![c].client = local'[c]]
    /\ UNCHANGED <<shared, managed, closer, proofs>>

\* The reference is read twice: once for the test, once for the result.
get_async_http_client(c) ==
    /\ call[c].pc = "get"
    /\ Goto(c, IF shared # 0 THEN "got" ELSE "create")
    /\ UNCHANGED <<shared, local, managed, clients, closer, proofs>>

GotShared(c) ==
    /\ call[c].pc = "got"
    /\ call' = [call EXCEPT ![c].pc = "send", ![c].client = shared]
    /\ UNCHANGED <<shared, local, managed, clients, closer, proofs>>

\* Under _async_client_creation_lock.
CreateShared(c) ==
    /\ call[c].pc = "create"
    /\ IF shared # 0
       THEN Goto(c, "got") /\ UNCHANGED <<shared, clients>>
       ELSE /\ clients' = Created /\ shared' = Len(Created)
            /\ call' = [call EXCEPT ![c].pc = "send", ![c].client = shared']
    /\ UNCHANGED <<local, managed, closer, proofs>>

-----------------------------------------------------------------------------
\* The retry loop.

\* A closed client raises RuntimeError, and None has no method post: neither is
\* a RequestError, so neither is retried.
Send(c) ==
    /\ call[c].pc = "send"
    /\ IF Open(call[c].client) THEN Goto(c, "wait")
       ELSE Raises(c, IF call[c].client = 0 THEN "AttributeError" ELSE "RuntimeError")
    /\ UNCHANGED <<shared, local, managed, clients, closer, proofs>>

\* The provider handles the request; its answer arrives.  It may fail with a 5xx
\* after it has granted the request.
Deliver(c) ==
    /\ call[c].pc = "wait"
    /\ \E ans \in Answers[call[c].op], hidden \in {0, 1} :
         /\ hidden = 1 => ans.status >= 500
         /\ call' = [call EXCEPT ![c].pc = "answered", ![c].ans = ans,
                              ![c].grants = IF is_success(ans) THEN @ + 1 ELSE @ + hidden,
                              ![c].lost = @ + hidden]
    /\ UNCHANGED <<shared, local, managed, clients, closer, proofs>>

\* A RequestError, before or after the provider granted the request.
Lose(c) ==
    /\ call[c].pc = "wait"
    /\ \E granted \in {0, 1} :
         LET failed == [call[c] EXCEPT !.grants = @ + granted, !.lost = @ + 1]
         IN  call' = [call EXCEPT ![c] =
               IF call[c].attempt < Retries
               THEN [failed EXCEPT !.pc = "sleep", !.delay = calculate_delay(BaseDelay, failed.attempt)]
               ELSE [failed EXCEPT !.pc = "finally", !.res = Handle(failed.op, "RequestError")]]
    /\ UNCHANGED <<shared, local, managed, clients, closer, proofs>>

Backoff(c) ==
    /\ call[c].pc = "answered"
    /\ should_retry_response(call[c].ans, call[c].attempt, Retries)
    /\ call' = [call EXCEPT ![c].pc = "sleep", ![c].ans = None,
                   ![c].delay = resolve_retry_delay(call[c].ans, BaseDelay, call[c].attempt,
                                                    call[c].req.now)]
    /\ UNCHANGED <<shared, local, managed, clients, closer, proofs>>

\* Mutant: the loop forgets to count.
WakeUncounted(c) ==
    /\ call[c].pc = "sleep"
    /\ call' = [call EXCEPT ![c].pc = "send", ![c].delay = 0]
    /\ UNCHANGED <<shared, local, managed, clients, closer, proofs>>

\* The same request again: its proof and its assertion are not renewed.
Wake(c) ==
    /\ call[c].pc = "sleep"
    /\ call' = [call EXCEPT ![c].pc = "send", ![c].delay = 0, ![c].attempt = @ + 1]
    /\ UNCHANGED <<shared, local, managed, clients, closer, proofs>>

-----------------------------------------------------------------------------
\* The answer.

Returned(c) == /\ call[c].pc = "answered"
               /\ ~should_retry_response(call[c].ans, call[c].attempt, Retries)

Challenged(c) ==
    /\ call[c].op \in {"auth_code", "par", "userinfo"}
    /\ call[c].req.dpop.key /\ call[c].round = 1
    /\ extract_dpop_nonce(call[c].ans)

Redirected(c) ==
    /\ Returned(c) /\ ~check_no_redirect(call[c].ans)
    /\ Raises(c, "NetworkException")
    /\ UNCHANGED <<shared, local, managed, clients, closer, proofs>>

\* use_dpop_nonce: prepared anew, once.
RenewProof(c) ==
    /\ Returned(c) /\ check_no_redirect(call[c].ans) /\ Challenged(c)
    /\ proofs' = proofs + 1
    /\ call' = [call EXCEPT ![c].pc = "send", ![c].round = 2, ![c].attempt = 0,
                            ![c].nonce = TRUE, ![c].jti = proofs', ![c].ans = None]
    /\ UNCHANGED <<shared, local, managed, clients, closer>>

ProcessAnswer(c) ==
    /\ Returned(c) /\ check_no_redirect(call[c].ans) /\ ~Challenged(c)
    /\ Ends(c, Process(call[c].op, call[c].req, call[c].ans))
    /\ UNCHANGED <<shared, local, managed, clients, closer, proofs>>

\* Mutant: the owned client is closed after success only.
FinallyOnSuccess(c) ==
    /\ call[c].pc = "finally"
    /\ clients' = [i \in DOMAIN clients |->
                     IF i = call[c].owned /\ call[c].res = Success THEN "closed" ELSE clients[i]]
    /\ call' = [call EXCEPT ![c] = Idle(call[c])]
    /\ UNCHANGED <<shared, local, managed, closer, proofs>>

\* finally: the owned client is closed, whatever happened.
Finally(c) ==
    /\ call[c].pc = "finally"
    /\ clients' = [i \in DOMAIN clients |-> IF i = call[c].owned THEN "closed" ELSE clients[i]]
    /\ call' = [call EXCEPT ![c] = Idle(call[c])]
    /\ UNCHANGED <<shared, local, managed, closer, proofs>>

\* CancelledError at an await passes every except clause.
Cancel(c) ==
    /\ call[c].aio /\ call[c].pc \in {"wait", "sleep"}
    /\ Ends(c, "cancelled")
    /\ UNCHANGED <<shared, local, managed, clients, closer, proofs>>

-----------------------------------------------------------------------------
\* Closing.

close_http_client(c) ==
    /\ call[c].pc = "idle" /\ local[c] # 0
    /\ clients' = [clients EXCEPT ![local[c]] = "closed"]
    /\ local' = [local EXCEPT ![c] = 0]
    /\ UNCHANGED <<call, shared, managed, closer, proofs>>

\* close_async_http_client: the client is closed, then, after an await, the
\* reference is cleared; _cleanup_lock keeps other closers out meanwhile.  A client
\* that is closed already awaits nothing, and the reference is cleared at once.
CloseShared(k) ==
    /\ closer[k] = "idle" /\ shared # 0
    /\ \A o \in Closers : closer[o] # "closing"
    /\ \/ /\ Open(shared)
          /\ clients' = [clients EXCEPT ![shared] = "closed"]
          /\ closer' = [closer EXCEPT ![k] = "closing"]
          /\ UNCHANGED shared
       \/ /\ ~Open(shared)
          /\ shared' = 0
          /\ closer' = [closer EXCEPT ![k] = "done"]
          /\ UNCHANGED clients
    /\ UNCHANGED <<call, local, managed, proofs>>

\* The await in close_async_http_client is cancelled, or closing the connections
\* raises: no finally clears the reference to the client, which counts as closed.
CutClose(k) ==
    /\ closer[k] = "closing"
    /\ clients' = [clients EXCEPT ![shared] = "aborted"]
    /\ closer' = [closer EXCEPT ![k] = "idle"]
    /\ UNCHANGED <<call, shared, local, managed, proofs>>

\* Mutant: the reference to the closed client stays.
ClearSharedNot(k) ==
    /\ closer[k] = "closing"
    /\ closer' = [closer EXCEPT ![k] = "done"]
    /\ UNCHANGED <<call, shared, local, managed, clients, proofs>>

ClearShared(k) ==
    /\ closer[k] = "closing"
    /\ shared' = 0
    /\ closer' = [closer EXCEPT ![k] = "done"]
    /\ UNCHANGED <<call, local, managed, clients, proofs>>

\* close of a managed client: a client of its own is closed, and _closed is set
\* after the await; a wrapped client stays open.
CloseManaged ==
    /\ ~managed.closed /\ ~managed.closing
    /\ IF managed.owned
       THEN /\ managed' = [managed EXCEPT !.closing = TRUE]
            /\ clients' = [clients EXCEPT ![1] = "closed"]
       ELSE /\ managed' = [managed EXCEPT !.closed = TRUE]
            /\ UNCHANGED clients
    /\ UNCHANGED <<call, shared, local, closer, proofs>>

\* The finally of close, also when the await is cancelled; or a second close, which
\* has nothing to await.
SetClosed ==
    /\ managed.closing
    /\ managed' = [managed EXCEPT !.closing = FALSE, !.closed = TRUE]
    /\ UNCHANGED <<call, shared, local, clients, closer, proofs>>

-----------------------------------------------------------------------------
Step(c) ==
    \/ resolve_http_client(c) \/ resolve_async_http_client(c)
    \/ get_http_client(c) \/ get_async_http_client(c) \/ GotShared(c) \/ CreateShared(c)
    \/ Send(c) \/ Deliver(c) \/ Lose(c) \/ Backoff(c) \/ Wake(c)
    \/ Redirected(c) \/ RenewProof(c) \/ ProcessAnswer(c) \/ Finally(c)

Next == \/ \E c \in Callers : Wrapper(c) \/ Step(c) \/ Cancel(c) \/ close_http_client(c)
        \/ \E k \in Closers : CloseShared(k) \/ CutClose(k) \/ ClearShared(k)
        \/ CloseManaged \/ SetClosed

\* Threads and event loops go on, and a request ends by its answer or by the
\* HTTP timeout.  Nobody has to call or to close anything.
Fairness == /\ \A c \in Callers : WF_vars(Step(c))
            /\ \A k \in Closers : WF_vars(ClearShared(k))

Spec == Init /\ [][Next]_vars /\ Fairness

-----------------------------------------------------------------------------
\* Every call sends its request at most Retries + 1 times in each of its at most
\* two rounds, sleeps at most the cap or the backoff, and keeps its types.
TypeOK ==
    /\ shared \in 0..Len(clients) /\ local \in [Callers -> 0..Len(clients)]
    /\ clients \in Seq({"open", "closed", "aborted"}) /\ proofs \in Nat
    /\ closer \in [Closers -> {"idle", "closing", "done"}]
    /\ managed \in [closed : BOOLEAN, closing : BOOLEAN, owned : BOOLEAN]
    /\ \A c \in Callers :
         /\ call[c].attempt \in 0..Retries /\ call[c].round \in {1, 2}
         /\ call[c].round = 2 => call[c].req.dpop.key
         /\ call[c].delay <= MAX_RETRY_DELAY_SECONDS \/ call[c].delay <= BaseDelay * 2^Retries

\* The provider grants a request of one call again only if an answer to it was
\* lost on the way or was a 5xx that hid the grant: otherwise neither the retry of
\* 429 and 5xx answers nor the DPoP nonce round repeats what was granted
\* (should_retry_response, extract_dpop_nonce).
AtMostOnce == \A c \in Callers : call[c].grants <= 1 + call[c].lost

\* What the caller is told agrees with what the provider did.  Success means
\* that the last answer granted the request; a grant that the caller is not told
\* of was lost on the way or hidden by a 5xx, had a body of the wrong shape, or was
\* cancelled.
Honest ==
    \A c \in Callers : call[c].pc = "finally" =>
      /\ call[c].res = Success => call[c].grants > 0 /\ is_success(call[c].ans)
      /\ call[c].grants > 0 =>
           \/ call[c].res \in {Success, "cancelled"}
           \/ call[c].lost > 0
           \/ call[c].ans.body # "object"
           \/ call[c].op = "userinfo" /\ call[c].req.sub = "other"

\* An httpx client that is open is one that somebody can still close: the shared
\* client, a thread's client, the managed one, or the mTLS client of a call that
\* is still running (the finally block of every wrapper).
NoOrphan ==
    \A i \in DOMAIN clients : clients[i] = "open" =>
      \/ i = shared \/ i = 1
      \/ \E c \in Callers : i \in {local[c], call[c].owned}

\* The shared client that get_async_http_client hands out is open, unless one
\* close_async_http_client is between closing it and clearing the reference, or its
\* close was cut short: then the reference to it stays until the next close.
SharedOpen ==
    /\ shared = 0 \/ Open(shared) \/ clients[shared] = "aborted"
        \/ \E k \in Closers : closer[k] = "closing"
    /\ \A j, k \in Closers : closer[j] = "closing" /\ closer[k] = "closing" => j = k

\* Every call returns to its caller.
EveryCallReturns == \A c \in Callers : (call[c].pc # "idle") ~> (call[c].pc = "idle")
=============================================================================
