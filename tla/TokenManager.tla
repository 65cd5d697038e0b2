---------------------------- MODULE TokenManager ----------------------------
(***************************************************************************)
(* TokenManager of fastapi_identity_model (token_manager.py) with the      *)
(* refresh grant it sends (aio/token_client.py) and the retry loop around  *)
(* every request (aio/http_client.py, core/http_utils.py).                 *)
(*                                                                         *)
(* A task is one coroutine inside get_access_token.  The application       *)
(* starts families of tokens by logging in and hands them over with        *)
(* set_tokens.  The provider rotates refresh tokens: each one works once,  *)
(* and the second use of one revokes its family.                           *)
(***************************************************************************)
EXTENDS Integers, FiniteSets

CONSTANTS
    Tasks,          \* coroutines
    Families,       \* logins, numbered from 1
    Lifetimes,      \* expires_in values of token responses, or NoExpiry
    Window,         \* refresh_before_seconds
    Retries,        \* HTTP_RETRY_MAX_ATTEMPTS
    Rotation,       \* whether the provider rotates refresh tokens
    LostAnswers,    \* whether an answer may be lost after the grant was processed
    Relogin,        \* whether set_tokens may be called while a refresh is in progress
    Cancels,        \* whether tasks may be cancelled
    MaxSerial,      \* bound on the tokens of a family
    MaxTime,        \* bound on the clock
    Nobody          \* owner of the free lock

NoExpiry == -1

ASSUME ManagerAssumption ==
    /\ Families \in SUBSET (Nat \ {0}) /\ IsFiniteSet(Families)
    /\ Lifetimes \subseteq Nat \cup {NoExpiry}
    /\ Window \in Nat /\ Retries \in Nat /\ MaxSerial \in Nat /\ MaxTime \in Nat
    /\ {Rotation, LostAnswers, Relogin, Cancels} \subseteq BOOLEAN
    /\ Nobody \notin Tasks

VARIABLES
    now,      \* datetime.now(UTC)
    login,    \* the number of logins so far; the latest family
    access,   \* _access_token
    refresh,  \* _refresh_token
    expires,  \* _expires_at, or NoExpiry
    lock,     \* _refresh_lock
    used,     \* provider: refresh tokens that were exchanged
    issued,   \* provider: serial number of the latest token of each family
    revoked,  \* provider: families that were revoked
    orphaned, \* history: families with a rotated token that never reached set_tokens
    pc, job

provider == <<used, issued, revoked, orphaned>>
manager == <<access, refresh, expires>>
vars == <<now, login, manager, lock, provider, pc, job>>

-----------------------------------------------------------------------------
(* Values                                                                  *)

\* A token is the family of its login and a serial number in it.
Tokens == [family : Families, n : 0..MaxSerial]
NoToken == [family |-> 0, n |-> 0]
Token(f, n) == [family |-> f, n |-> n]

\* kind: "ok" with a new access token, "retry" for 429, 5xx and transport errors,
\* "refused" for every other answer.
Answers == [kind : {"none", "ok", "retry", "refused"}, access : Tokens \cup {NoToken},
            refresh : Tokens \cup {NoToken}, life : Lifetimes \cup {NoExpiry}]
NoAnswer == [kind |-> "none", access |-> NoToken, refresh |-> NoToken, life |-> NoExpiry]

Results == {"none", "token", "no_refresh_token", "failed", "cancelled"}

\* sent: the refresh token of the request; attempt: index of the retry loop.
Jobs == [sent : Tokens \cup {NoToken}, attempt : 0..Retries, answer : Answers,
         result : Results]
NoJob == [sent |-> NoToken, attempt |-> 0, answer |-> NoAnswer, result |-> "none"]

Locked == {"locked", "discover", "post", "answered", "apply"}
Labels == {"idle", "check", "wait", "returned"} \cup Locked

-----------------------------------------------------------------------------
(* token_manager.py                                                        *)

is_token_expired == expires # NoExpiry /\ now >= expires - Window

HasFreshToken == access # NoToken /\ ~is_token_expired

set_tokens(a, r, life) ==
    /\ access' = a
    /\ refresh' = r
    /\ expires' = IF life = NoExpiry THEN NoExpiry ELSE now + life

GoTo(c, l) == pc' = [pc EXCEPT ![c] = l]

Ends(c, r) ==
    /\ GoTo(c, "returned")
    /\ job' = [job EXCEPT ![c] = [@ EXCEPT !.result = r]]

Leave == lock' = Nobody

\* The application has logged in and hands over the tokens of a new family; it need
\* not have a refresh token.
Login(life) ==
    /\ login + 1 \in Families
    /\ Relogin \/ lock = Nobody
    /\ login' = login + 1
    /\ \E r \in {Token(login + 1, 0), NoToken} : set_tokens(Token(login + 1, 0), r, life)
    /\ UNCHANGED <<now, lock, provider, pc, job>>

Begin(c) ==
    /\ pc[c] = "idle"
    /\ GoTo(c, "check")
    /\ UNCHANGED <<now, login, manager, lock, provider, job>>

\* get_access_token: the check before the lock.
Check(c) ==
    /\ pc[c] = "check"
    /\ IF HasFreshToken THEN Ends(c, "token") ELSE GoTo(c, "wait") /\ UNCHANGED job
    /\ UNCHANGED <<now, login, manager, lock, provider>>

\* Mutant: refreshes are not serialised.
LockFreeAlways == TRUE

LockFree == lock = Nobody

Acquire(c) ==
    /\ pc[c] = "wait"
    /\ LockFree
    /\ lock' = c
    /\ GoTo(c, "locked")
    /\ UNCHANGED <<now, login, manager, provider, job>>

\* Mutant: no second check under the lock.
RecheckNot(c) ==
    /\ pc[c] = "locked"
    /\ IF refresh = NoToken THEN Ends(c, "no_refresh_token") /\ Leave
       ELSE GoTo(c, "discover") /\ UNCHANGED <<job, lock>>
    /\ UNCHANGED <<now, login, manager, provider>>

\* get_access_token: the check under the lock.
Recheck(c) ==
    /\ pc[c] = "locked"
    /\ IF HasFreshToken THEN Ends(c, "token") /\ Leave
       ELSE IF refresh = NoToken THEN Ends(c, "no_refresh_token") /\ Leave
       ELSE GoTo(c, "discover") /\ UNCHANGED <<job, lock>>
    /\ UNCHANGED <<now, login, manager, provider>>

\* Mutant: a failed discovery leaves the lock taken.
_resolve_token_endpoint_leaks(c) ==
    /\ pc[c] = "discover"
    /\ \/ /\ job' = [job EXCEPT ![c] = [@ EXCEPT !.sent = refresh]]
          /\ GoTo(c, "post")
       \/ Ends(c, "failed")
    /\ UNCHANGED <<now, login, manager, lock, provider>>

\* _resolve_token_endpoint; the request is built from _refresh_token afterwards, which a
\* login without one may have cleared: an empty refresh_token is sent then.
_resolve_token_endpoint(c) ==
    /\ pc[c] = "discover"
    /\ \/ /\ job' = [job EXCEPT ![c] = [@ EXCEPT !.sent = refresh]]
          /\ GoTo(c, "post")
          /\ UNCHANGED lock
       \/ Ends(c, "failed") /\ Leave
    /\ UNCHANGED <<now, login, manager, provider>>

-----------------------------------------------------------------------------
(* The grant: POST to the token endpoint under retry_with_backoff_async    *)

Answered(c, a) ==
    /\ job' = [job EXCEPT ![c] = [@ EXCEPT !.answer = a]]
    /\ GoTo(c, "answered")

\* The token endpoint processes the grant.
Grant(c, life) ==
    LET f == job[c].sent.family
        n == issued[f] + 1
        next == [kind |-> "ok", access |-> Token(f, n), life |-> life,
                 refresh |-> IF Rotation THEN Token(f, n) ELSE NoToken]
    IN  /\ f \in Families /\ f \notin revoked /\ n <= MaxSerial
        /\ ~(Rotation /\ job[c].sent \in used)
        /\ issued' = [issued EXCEPT ![f] = n]
        /\ used' = used \cup {job[c].sent}
        /\ UNCHANGED revoked
        /\ \/ Answered(c, next) /\ UNCHANGED orphaned
           \/ /\ LostAnswers
              /\ Answered(c, [NoAnswer EXCEPT !.kind = "retry"])
              /\ orphaned' = orphaned \cup {f}

\* The token endpoint has seen this refresh token before, revoked the family, or is sent
\* none.
Refuse(c) ==
    LET f == job[c].sent.family
    IN  /\ \/ f \notin Families \/ f \in revoked
           \/ Rotation /\ job[c].sent \in used
        /\ revoked' = IF Rotation /\ job[c].sent \in used THEN revoked \cup {f} ELSE revoked
        /\ UNCHANGED <<used, issued, orphaned>>
        /\ Answered(c, [NoAnswer EXCEPT !.kind = "refused"])

Post(c) ==
    /\ pc[c] = "post"
    /\ \/ \E life \in Lifetimes : Grant(c, life)
       \/ Refuse(c)
       \/ Answered(c, [NoAnswer EXCEPT !.kind = "retry"]) /\ UNCHANGED provider
    /\ UNCHANGED <<now, login, manager, lock>>

\* should_retry_response
ShouldRetry(c) == job[c].answer.kind = "retry" /\ job[c].attempt < Retries

\* retry_with_backoff_async: the same request once more.
Retry(c) ==
    /\ pc[c] = "answered"
    /\ ShouldRetry(c)
    /\ job' = [job EXCEPT ![c] = [@ EXCEPT !.attempt = job[c].attempt + 1, !.answer = NoAnswer]]
    /\ GoTo(c, "post")
    /\ UNCHANGED <<now, login, manager, lock, provider>>

\* The response is processed: a new access token, or an exception.
Process(c) ==
    /\ pc[c] = "answered"
    /\ ~ShouldRetry(c)
    /\ IF job[c].answer.kind = "ok"
       THEN GoTo(c, "apply") /\ UNCHANGED <<job, lock>>
       ELSE Ends(c, "failed") /\ Leave
    /\ UNCHANGED <<now, login, manager, provider>>

\* Mutant: the refresh token of the answer is not stored.
ApplyAccessOnly(c) ==
    /\ pc[c] = "apply"
    /\ set_tokens(job[c].answer.access, refresh, job[c].answer.life)
    /\ Ends(c, "token") /\ Leave
    /\ UNCHANGED <<now, login, provider>>

\* get_access_token: set_tokens with the answer, then leave the lock.
Apply(c) ==
    /\ pc[c] = "apply"
    /\ set_tokens(job[c].answer.access,
                  IF job[c].answer.refresh # NoToken THEN job[c].answer.refresh ELSE refresh,
                  job[c].answer.life)
    /\ Ends(c, "token") /\ Leave
    /\ UNCHANGED <<now, login, provider>>

\* The task is cancelled at an await.
Cancel(c) ==
    /\ Cancels
    /\ pc[c] \in {"wait", "discover", "post", "answered"}
    /\ Ends(c, "cancelled")
    /\ lock' = IF lock = c THEN Nobody ELSE lock
    /\ orphaned' = IF job[c].answer.kind = "ok" THEN orphaned \cup {job[c].sent.family}
                   ELSE orphaned
    /\ UNCHANGED <<now, login, manager, used, issued, revoked>>

Return(c) ==
    /\ pc[c] = "returned"
    /\ GoTo(c, "idle")
    /\ job' = [job EXCEPT ![c] = NoJob]
    /\ UNCHANGED <<now, login, manager, lock, provider>>

Tick ==
    /\ now < MaxTime
    /\ now' = now + 1
    /\ UNCHANGED <<login, manager, lock, provider, pc, job>>

-----------------------------------------------------------------------------

Init ==
    /\ now = 0
    /\ login = 0
    /\ access = NoToken /\ refresh = NoToken /\ expires = NoExpiry
    /\ lock = Nobody
    /\ used = {} /\ revoked = {} /\ orphaned = {}
    /\ issued = [f \in Families |-> 0]
    /\ pc = [c \in Tasks |-> "idle"]
    /\ job = [c \in Tasks |-> NoJob]

Step(c) ==
    \/ Check(c) \/ Acquire(c) \/ Recheck(c) \/ _resolve_token_endpoint(c)
    \/ Post(c) \/ Retry(c) \/ Process(c) \/ Apply(c)

Next ==
    \/ \E life \in Lifetimes : Login(life)
    \/ \E c \in Tasks : Begin(c) \/ Step(c) \/ Cancel(c) \/ Return(c)
    \/ Tick

Spec == Init /\ [][Next]_vars

\* Coroutines are scheduled and requests time out; asyncio.Lock wakes its waiters
\* in the order they came.
Fairness == \A c \in Tasks : WF_vars(Step(c)) /\ SF_vars(Acquire(c))

FairSpec == Spec /\ Fairness

-----------------------------------------------------------------------------
(* Properties                                                              *)

\* Types of the manager, the provider and the tasks; a grant never makes more than
\* Retries + 1 attempts.
TypeOK ==
    /\ now \in Nat /\ login \in Nat
    /\ access \in Tokens \cup {NoToken} /\ refresh \in Tokens \cup {NoToken}
    /\ expires \in Nat \cup {NoExpiry}
    /\ lock \in Tasks \cup {Nobody}
    /\ used \subseteq Tokens /\ revoked \subseteq Families /\ orphaned \subseteq Families
    /\ issued \in [Families -> 0..MaxSerial]
    /\ pc \in [Tasks -> Labels]
    /\ job \in [Tasks -> Jobs]

\* The comment on _refresh_lock: with refresh-token rotation, concurrent callers do
\* not make the provider revoke the family.  A family is revoked only after the
\* rotated token of one of its grants got lost, with the answer or with the task
\* that waited for it; logins during a refresh do not do it.
FamilyIntact == revoked \subseteq orphaned

\* A caller that waited while another one refreshed uses its token: no grant is sent
\* while the manager holds a token of an earlier grant outside its refresh window.
NoNeedlessGrant ==
    [][\A c \in Tasks :
        pc[c] = "discover" /\ pc'[c] = "post" /\ access.n > 0 => is_token_expired]_vars

\* If the manager holds a refresh token, it is of the same login as the access token
\* ("keeps an access/refresh token pair"), also when a login replaces both during a
\* refresh.  It needs a provider that rotates: without a refresh token in the answer,
\* Apply completes the old login's access token by the new login's refresh token.
PairConsistent == Rotation /\ refresh # NoToken => access.family = refresh.family

\* Every call of get_access_token returns or raises.
EveryCallReturns == \A c \in Tasks : pc[c] = "check" ~> pc[c] = "returned"
=============================================================================
