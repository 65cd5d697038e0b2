------------------------------- MODULE PyJwks -------------------------------
(***************************************************************************)
(* The JWKS cache of py_identity_model and the token validations that use  *)
(* it: sync/token_validation.py (threads) and aio/token_validation.py      *)
(* (coroutines on one or several event loops), with the shared rules of    *)
(* core/jwks_cache.py.                                                     *)
(*                                                                         *)
(* A caller is one thread or task inside validate_token.  A fetch lock is  *)
(* a pair of an event loop and a stripe: the sync implementation is the    *)
(* instance with one loop, the async one has a lock table for every loop   *)
(* and one process-wide cache.  The critical sections under the write lock *)
(* and the structure lock contain no blocking call and are single steps;   *)
(* the upstream request, during which only the fetch lock is held, is not. *)
(***************************************************************************)
EXTENDS Integers, FiniteSets, Recency

CONSTANTS
    Callers,        \* threads or tasks that validate tokens
    Loops,          \* event loops; a single one for the sync implementation
    LoopOf,         \* the loop a caller runs on
    Uris,           \* jwks_uri values, one per provider
    Stripes,        \* fetch lock stripes
    StripeOf,       \* hash(jwks_uri) % _JWKS_LOCK_STRIPES
    Keys,           \* records [kid, mat]: key id and key material
    KeySets,        \* the key sets a provider may publish
    Candidates,     \* _no_kid_candidates: what use, alg and kty leave of a key set
    Tokens,         \* records [kid, mat]: header kid and signing material
    MaxAges,        \* Cache-Control max-age values of answers, or NoMaxAge
    MaxEntries,     \* get_max_cache_entries()
    MinTTL, MaxTTL, \* MIN_CACHE_TTL_SECONDS, MAX_CACHE_TTL_SECONDS
    EnvTTL,         \* _get_env_ttl()
    Cooldown,       \* get_kid_miss_cooldown()
    MaxFlight,      \* the HTTP client's timeout
    MaxTime,        \* bound on the clock
    Nobody,         \* owner of a free lock
    NoEntry,        \* what .get() returns for a uri that is not cached
    NoKid           \* kid of a token whose header has none

NoMaxAge == -1

ASSUME LocksAssumption ==
    /\ LoopOf \in [Callers -> Loops]
    /\ StripeOf \in [Uris -> Stripes]
    /\ Nobody \notin Callers
    /\ Uris # {}

ASSUME KeysAssumption ==
    /\ \A k \in Keys : k = [kid |-> k.kid, mat |-> k.mat]
    /\ \A k \in Keys : k.kid # NoKid
    /\ KeySets \subseteq SUBSET Keys
    /\ {} \notin KeySets
    /\ \A S \in KeySets : \A j, k \in S : j.kid = k.kid => j = k
    /\ \A S \in SUBSET Keys : Candidates[S] \subseteq S
    /\ Tokens # {}
    /\ \A t \in Tokens : t = [kid |-> t.kid, mat |-> t.mat]

\* The environment values are clamped by _safe_env_float, max-age by resolve_ttl.
ASSUME BoundsAssumption ==
    /\ MaxEntries \in Nat \ {0}
    /\ MinTTL \in Nat \ {0} /\ MaxTTL \in Nat /\ EnvTTL \in MinTTL..MaxTTL
    /\ MinTTL <= MaxTTL
    /\ Cooldown \in Nat
    /\ MaxFlight \in Nat /\ MaxTime \in Nat
    /\ MaxAges \subseteq Nat \cup {NoMaxAge}

VARIABLES
    now,        \* time.monotonic()
    published,  \* the key set each provider serves now
    gone,       \* history: when each key was last withdrawn by its provider
    entry,      \* _jwks_cache: entry per uri, or NoEntry
    order,      \* _jwks_cache: its keys in OrderedDict order, LRU first
    stamp,      \* _kid_miss_last_attempt
    lock,       \* fetch locks: owner, or Nobody
    pc,         \* per caller: where it is in validate_token
    job,        \* per caller: what it validates and what it knows
    steady      \* history, per caller: the token's key has been published since Begin

vars == <<now, published, gone, entry, order, stamp, lock, pc, job, steady>>

-----------------------------------------------------------------------------
(* Values                                                                  *)

Time == 0..MaxTime
Locks == Loops \X Stripes
NoStamp == -1

\* JwksResponse; a failed answer (network error, 4xx/5xx, parse error) has no keys.
Responses == [ok : BOOLEAN, keys : SUBSET Keys, maxAge : MaxAges \cup {NoMaxAge}]
Failure == [ok |-> FALSE, keys |-> {}, maxAge |-> NoMaxAge]

\* JwksCacheEntry: response, cached_at and ttl.
JwksCacheEntry == [resp : Responses, cached_at : Time, ttl : MinTTL..MaxTTL]

ASSUME NoEntryAssumption == NoEntry \notin JwksCacheEntry

\* A key that was never published was withdrawn before any bound can reach.
LongAgo == -(MaxTTL + MaxFlight) - 1

Holding == {"touch_locked", "fetching", "fetched", "refreshing", "refreshed"}
InFlight == {"fetching", "fetched", "refreshing", "refreshed"}
Verdicts == {"accepted", "unavailable", "no_match", "suppressed", "bad_signature"}
Active == {"lookup", "touch", "fetch_wait", "resolve", "decode",
           "refresh_wait", "account"} \cup Holding

Origins == {"none", "hit", "fetch", "refresh", "retained", "coalesced"}

\* path: which trigger the forced refresh has; from: where resp came from;
\* began: time of the call; since: start of the current wait for a refresh or of
\* the current request, 0 when there is neither.
Jobs == [uri : Uris, token : Tokens, resp : Responses, path : {"kid", "sig"},
         from : Origins,
         began : Time, since : Time]

NoJob == [uri |-> CHOOSE u \in Uris : TRUE, token |-> CHOOSE t \in Tokens : TRUE,
          resp |-> Failure, path |-> "kid", from |-> "none", began |-> 0, since |-> 0]

\* _get_jwks_fetch_lock
FetchLock(c, u) == <<LoopOf[c], StripeOf[u]>>
MyLock(c) == FetchLock(c, job[c].uri)

-----------------------------------------------------------------------------
(* core/jwks_cache.py                                                      *)

Clamp(x) == IF x < MinTTL THEN MinTTL ELSE IF x > MaxTTL THEN MaxTTL ELSE x

\* Mutant: a provider's max-age is taken as it is.
resolve_ttl_unclamped(a) == IF a = NoMaxAge THEN EnvTTL ELSE a

resolve_ttl(a) == IF a = NoMaxAge THEN EnvTTL ELSE Clamp(a)

\* Mutant: an entry lives one tick longer than its TTL.
is_cache_expired_late(e) == now - e.cached_at > e.ttl

is_cache_expired(e) == now - e.cached_at >= e.ttl

Usable(u) == entry[u] # NoEntry /\ ~is_cache_expired(entry[u])

\* Mutant: the cooldown is consulted only when there is nothing cached.
should_attempt_inverted(u, has_cached_keys) ==
    \/ has_cached_keys
    \/ stamp[u] = NoStamp
    \/ now - stamp[u] >= Cooldown

should_attempt_kid_miss_refresh(u, has_cached_keys) ==
    \/ ~has_cached_keys
    \/ stamp[u] = NoStamp
    \/ now - stamp[u] >= Cooldown

\* Mutant: no check that the entry is still there.
touch_cache_entry_blind(u) == order' = Append(Popped(order, u), u)

\* touch_cache_entry: a no-op when the entry was evicted in between.
touch_cache_entry(u) ==
    order' = IF Contains(order, u) THEN Append(Popped(order, u), u) ELSE order

\* _enforce_size_limit: drop from the LRU end until the cache fits.
_enforce_size_limit(s) == Newest(s, MaxEntries)

\* apply_jwks_cache_outcome: failed and empty answers retain what is there.
apply_jwks_cache_outcome(u, r) ==
    IF ~r.ok \/ r.keys = {}
    THEN UNCHANGED <<entry, order, stamp>>
    ELSE LET full == Append(Popped(order, u), u)
             kept == _enforce_size_limit(full)
             evicted == {v \in ToSet(full) : v \notin ToSet(kept)}
         IN  /\ order' = kept
             /\ entry' = [v \in Uris |->
                    IF v \in evicted THEN NoEntry
                    ELSE IF v = u THEN [resp |-> r, cached_at |-> now,
                                        ttl |-> resolve_ttl(r.maxAge)]
                    ELSE entry[v]]
             /\ stamp' = [v \in Uris |-> IF v \in evicted THEN NoStamp ELSE stamp[v]]

-----------------------------------------------------------------------------
(* Key selection and signature check                                       *)

\* find_key_by_kid: with no kid header a single key must be left once
\* _no_kid_candidates has narrowed the set by use, alg and kty.
find_key_by_kid(kid, keys) ==
    IF kid = NoKid
    THEN IF Cardinality(Candidates[keys]) = 1 THEN Candidates[keys] ELSE {}
    ELSE {k \in keys : k.kid = kid}

Verifies(t, keys) == \E k \in find_key_by_kid(t.kid, keys) : k.mat = t.mat

\* validate_jwks_response
Validates(r) == r.ok /\ r.keys # {}

KidMissing(c) ==
    /\ job[c].token.kid # NoKid
    /\ find_key_by_kid(job[c].token.kid, job[c].resp.keys) = {}

-----------------------------------------------------------------------------
(* Steps of a caller                                                       *)

GoTo(c, l) == pc' = [pc EXCEPT ![c] = l]

\* c has response r in hand.
Learned(c, r, f) ==
    [job EXCEPT ![c] = [@ EXCEPT !.resp = r, !.from = f, !.since = 0]]

\* c starts to wait for a refresh of kind p, or sends its request.
Waiting(c, p) == [job EXCEPT ![c] = [@ EXCEPT !.path = p, !.since = now]]

Release(c) == lock' = [lock EXCEPT ![MyLock(c)] = Nobody]

\* Mutant: the fetch lock is not waited for.
FreeAlways(c) == TRUE

\* The fetch lock of c's URI can be acquired.
Free(c) == lock[MyLock(c)] = Nobody

\* validate_token with perform_disco: discovery has named the jwks_uri.
Begin(c, u, t) ==
    /\ pc[c] = "idle"
    /\ GoTo(c, "lookup")
    /\ job' = [job EXCEPT ![c] = [NoJob EXCEPT !.uri = u, !.token = t,
                                               !.began = now]]
    /\ steady' = [steady EXCEPT ![c] = \E k \in published[u] : k = t]
    /\ UNCHANGED <<now, published, gone, entry, order, stamp, lock>>

\* _get_cached_jwks: the read that takes no lock.
Lookup(c) ==
    /\ pc[c] = "lookup"
    /\ IF Usable(job[c].uri)
       THEN /\ GoTo(c, "touch")
            /\ job' = Learned(c, entry[job[c].uri].resp, "hit")
       ELSE GoTo(c, "fetch_wait") /\ UNCHANGED job
    /\ UNCHANGED <<now, published, gone, entry, order, stamp, lock, steady>>

Touch(c) ==
    /\ pc[c] = "touch"
    /\ touch_cache_entry(job[c].uri)
    /\ GoTo(c, "resolve")
    /\ UNCHANGED <<now, published, gone, entry, stamp, lock, job, steady>>

\* _get_cached_jwks: take the fetch lock and look again.
AcquireFetch(c) ==
    /\ pc[c] = "fetch_wait"
    /\ Free(c)
    /\ lock' = [lock EXCEPT ![MyLock(c)] = c]
    /\ IF Usable(job[c].uri)
       THEN /\ GoTo(c, "touch_locked")
            /\ job' = Learned(c, entry[job[c].uri].resp, "hit")
       ELSE /\ GoTo(c, "fetching")
            /\ job' = Waiting(c, job[c].path)
    /\ UNCHANGED <<now, published, gone, entry, order, stamp, steady>>

\* Mutant: the early return of the second look keeps the fetch lock.
TouchLockedLeak(c) ==
    /\ pc[c] = "touch_locked"
    /\ touch_cache_entry(job[c].uri)
    /\ GoTo(c, "resolve")
    /\ UNCHANGED <<now, published, gone, entry, stamp, lock, job, steady>>

TouchLocked(c) ==
    /\ pc[c] = "touch_locked"
    /\ touch_cache_entry(job[c].uri)
    /\ Release(c)
    /\ GoTo(c, "resolve")
    /\ UNCHANGED <<now, published, gone, entry, stamp, job, steady>>

\* get_jwks: the provider answers with its keys, with none, or the request fails.
Answers(u) ==
    [ok : {TRUE}, keys : {published[u], {}}, maxAge : MaxAges] \cup {Failure}

Answer(c, r) ==
    /\ pc[c] \in {"fetching", "refreshing"}
    /\ job' = [job EXCEPT ![c] = [@ EXCEPT !.resp = r]]
    /\ GoTo(c, IF pc[c] = "fetching" THEN "fetched" ELSE "refreshed")
    /\ UNCHANGED <<now, published, gone, entry, order, stamp, lock, steady>>

\* _get_cached_jwks: write the outcome, release the fetch lock.
ApplyFetch(c) ==
    /\ pc[c] = "fetched"
    /\ apply_jwks_cache_outcome(job[c].uri, job[c].resp)
    /\ Release(c)
    /\ job' = Learned(c, job[c].resp, "fetch")
    /\ GoTo(c, "resolve")
    /\ UNCHANGED <<now, published, gone, steady>>

\* _discover_and_resolve_key: is the kid among the keys, and if it is not,
\* does the cooldown allow a forced refresh?
Resolve(c) ==
    /\ pc[c] = "resolve"
    /\ IF ~Validates(job[c].resp) THEN GoTo(c, "unavailable") /\ UNCHANGED job
       ELSE IF ~KidMissing(c) THEN GoTo(c, "decode") /\ UNCHANGED job
       ELSE IF should_attempt_kid_miss_refresh(job[c].uri, job[c].resp.keys # {})
       THEN /\ GoTo(c, "refresh_wait")
            /\ job' = Waiting(c, "kid")
       ELSE GoTo(c, "suppressed") /\ UNCHANGED job
    /\ UNCHANGED <<now, published, gone, entry, order, stamp, lock, steady>>

\* Mutant: a bad signature is final.
DecodeOnce(c) ==
    /\ pc[c] = "decode"
    /\ GoTo(c, IF find_key_by_kid(job[c].token.kid, job[c].resp.keys) = {} THEN "no_match"
               ELSE IF Verifies(job[c].token, job[c].resp.keys) THEN "accepted"
               ELSE "bad_signature")
    /\ UNCHANGED <<now, published, gone, entry, order, stamp, lock, job, steady>>

\* decode_with_config, and on a bad signature _retry_with_refreshed_jwks up to
\* its cooldown gate.
Decode(c) ==
    /\ pc[c] = "decode"
    /\ IF find_key_by_kid(job[c].token.kid, job[c].resp.keys) = {}
       THEN GoTo(c, "no_match") /\ UNCHANGED job
       ELSE IF Verifies(job[c].token, job[c].resp.keys)
       THEN GoTo(c, "accepted") /\ UNCHANGED job
       ELSE IF should_attempt_kid_miss_refresh(job[c].uri, TRUE)
       THEN /\ GoTo(c, "refresh_wait")
            /\ job' = Waiting(c, "sig")
       ELSE GoTo(c, "suppressed") /\ UNCHANGED job
    /\ UNCHANGED <<now, published, gone, entry, order, stamp, lock, steady>>

\* _refresh_jwks: request_time is read after the lock is taken.
AcquireRefresh(c) ==
    /\ pc[c] = "refresh_wait"
    /\ Free(c)
    /\ LET e == entry[job[c].uri]
           request_time == now
       IN  IF e # NoEntry /\ e.cached_at >= request_time
           THEN /\ GoTo(c, "account")
                /\ job' = Learned(c, e.resp, "coalesced")
                /\ UNCHANGED lock
           ELSE /\ lock' = [lock EXCEPT ![MyLock(c)] = c]
                /\ GoTo(c, "refreshing")
                /\ job' = Waiting(c, job[c].path)
    /\ UNCHANGED <<now, published, gone, entry, order, stamp, steady>>

\* _refresh_jwks: write the outcome; an empty answer surfaces the retained entry.
ApplyRefresh(c) ==
    /\ pc[c] = "refreshed"
    /\ LET u == job[c].uri
           r == job[c].resp
       IN  /\ apply_jwks_cache_outcome(u, r)
           /\ job' = IF r.ok /\ r.keys = {} /\ entry[u] # NoEntry
                     THEN Learned(c, entry[u].resp, "retained")
                     ELSE Learned(c, r, "refresh")
    /\ Release(c)
    /\ GoTo(c, "account")
    /\ UNCHANGED <<now, published, gone, steady>>

\* The stamp is dropped when the refresh helped and set when it did not; an
\* answer that was not a new one leaves it alone.
Stamped(c, helped) ==
    IF job[c].from = "retained" THEN stamp
    ELSE [stamp EXCEPT ![job[c].uri] = IF helped THEN NoStamp ELSE now]

\* _discover_and_resolve_key, after the refresh.
AccountKidMiss(c) ==
    /\ pc[c] = "account" /\ job[c].path = "kid"
    /\ stamp' = IF job[c].resp.ok THEN Stamped(c, ~KidMissing(c)) ELSE stamp
    /\ GoTo(c, IF Validates(job[c].resp) THEN "decode" ELSE "unavailable")
    /\ UNCHANGED <<now, published, gone, entry, order, lock, job, steady>>

\* _retry_with_refreshed_jwks, after the refresh.
AccountSignature(c) ==
    /\ pc[c] = "account" /\ job[c].path = "sig"
    /\ IF ~Validates(job[c].resp)
       THEN GoTo(c, "unavailable") /\ UNCHANGED stamp
       ELSE LET good == Verifies(job[c].token, job[c].resp.keys)
            IN  /\ stamp' = Stamped(c, good)
                /\ GoTo(c, IF good THEN "accepted"
                           ELSE IF find_key_by_kid(job[c].token.kid, job[c].resp.keys) = {}
                           THEN "no_match" ELSE "bad_signature")
    /\ UNCHANGED <<now, published, gone, entry, order, lock, job, steady>>

\* validate_token returns or raises.
Return(c) ==
    /\ pc[c] \in Verdicts
    /\ GoTo(c, "idle")
    /\ job' = [job EXCEPT ![c] = NoJob]
    /\ steady' = [steady EXCEPT ![c] = FALSE]
    /\ UNCHANGED <<now, published, gone, entry, order, stamp, lock>>

-----------------------------------------------------------------------------
(* Administration and environment                                          *)

\* clear_jwks_cache
clear_jwks_cache ==
    /\ entry' = [u \in Uris |-> NoEntry]
    /\ order' = <<>>
    /\ stamp' = [u \in Uris |-> NoStamp]
    /\ UNCHANGED <<now, published, gone, lock, pc, job, steady>>

\* The provider publishes another key set; keys it withdrew do not come back,
\* which bounds the rotations.
Rotate(u, S) ==
    /\ S # published[u]
    /\ \A k \in S : k \in published[u] \/ gone[u][k] = LongAgo
    /\ published' = [published EXCEPT ![u] = S]
    /\ gone' = [gone EXCEPT ![u] = [k \in Keys |->
                    IF k \in published[u] THEN now ELSE gone[u][k]]]
    /\ steady' = [c \in Callers |->
                    steady[c] /\ (job[c].uri = u => job[c].token \in S)]
    /\ UNCHANGED <<now, entry, order, stamp, lock, pc, job>>

\* Time passes, but no request outlives the HTTP client's timeout.
Tick ==
    /\ now < MaxTime
    /\ \A c \in Callers : pc[c] \in InFlight => now - job[c].since < MaxFlight
    /\ now' = now + 1
    /\ UNCHANGED <<published, gone, entry, order, stamp, lock, pc, job, steady>>

-----------------------------------------------------------------------------

Init ==
    /\ now = 0
    /\ published \in [Uris -> KeySets]
    /\ gone = [u \in Uris |-> [k \in Keys |-> LongAgo]]
    /\ entry = [u \in Uris |-> NoEntry]
    /\ order = <<>>
    /\ stamp = [u \in Uris |-> NoStamp]
    /\ lock = [l \in Locks |-> Nobody]
    /\ pc = [c \in Callers |-> "idle"]
    /\ job = [c \in Callers |-> NoJob]
    /\ steady = [c \in Callers |-> FALSE]

Step(c) ==
    \/ Lookup(c) \/ Touch(c)
    \/ AcquireFetch(c) \/ TouchLocked(c)
    \/ \E r \in Answers(job[c].uri) : Answer(c, r)
    \/ ApplyFetch(c) \/ Resolve(c) \/ Decode(c)
    \/ AcquireRefresh(c) \/ ApplyRefresh(c)
    \/ AccountKidMiss(c) \/ AccountSignature(c)
    \/ Return(c)

Next ==
    \/ \E c \in Callers : Step(c)
    \/ \E c \in Callers, u \in Uris, t \in Tokens : Begin(c, u, t)
    \/ clear_jwks_cache
    \/ \E u \in Uris, S \in KeySets : Rotate(u, S)
    \/ Tick

Spec == Init /\ [][Next]_vars

\* Every caller keeps running (the scheduler runs it, the HTTP client times out)
\* and a caller that waits for a fetch lock gets it in the end: asyncio.Lock
\* wakes its waiters in the order they came.
Fairness ==
    \A c \in Callers :
        /\ WF_vars(Step(c))
        /\ SF_vars(AcquireFetch(c) \/ AcquireRefresh(c))

FairSpec == Spec /\ Fairness

-----------------------------------------------------------------------------
(* Properties                                                              *)

\* Every variable has its type: what the cache, the cooldown sidecar, the locks
\* and the callers of sync/aio token_validation.py may hold.
TypeOK ==
    /\ now \in Time
    /\ published \in [Uris -> KeySets]
    /\ gone \in [Uris -> [Keys -> Time \cup {LongAgo}]]
    /\ entry \in [Uris -> JwksCacheEntry \cup {NoEntry}]
    /\ order \in Seq(Uris)
    /\ stamp \in [Uris -> Time \cup {NoStamp}]
    /\ lock \in [Locks -> Callers \cup {Nobody}]
    /\ pc \in [Callers -> {"idle"} \cup Active \cup Verdicts]
    /\ job \in [Callers -> Jobs]
    /\ steady \in [Callers -> BOOLEAN]

\* The OrderedDict stays within get_max_cache_entries() whatever callers of
\* other URIs do between a lock-free read, its touch and a write: its keys are
\* distinct, are exactly the cached URIs and are at most MaxEntries.
CacheWellFormed ==
    /\ Len(order) <= MaxEntries
    /\ \A i, j \in DOMAIN order : order[i] = order[j] => i = j
    /\ ToSet(order) = {u \in Uris : entry[u] # NoEntry}

\* Single flight (_get_cached_jwks, _refresh_jwks): two upstream requests that
\* share a fetch lock are never in progress together.
SingleFlight ==
    \A c, d \in Callers :
        c # d /\ pc[c] \in InFlight /\ pc[d] \in InFlight => MyLock(c) # MyLock(d)

\* Every caller between acquire and release owns the fetch lock of its URI.
LockInv == \A c \in Callers : pc[c] \in Holding => lock[MyLock(c)] = c

\* When a key of uri u was last published.
LastPublished(u, k) == IF k \in published[u] THEN now ELSE gone[u][k]

\* Revocation bound: validate_token accepts a signature only by a key its
\* provider still published less than one TTL and one HTTP timeout before the
\* call began, whatever was hit, fetched, coalesced or retained on the way.
RevokedKeyBound ==
    \A c \in Callers : pc[c] = "accepted" =>
        \E k \in Keys :
            /\ k.mat = job[c].token.mat
            /\ LastPublished(job[c].uri, k) > job[c].began - MaxTTL - MaxFlight

\* The strengthening that makes RevokedKeyBound inductive.  Keys that were served
\* at time t or later:
KeysSince(u, K, t) == \A k \in K : LastPublished(u, k) >= t

\* A withdrawal lies in the past, and an entry holds keys that were served at most
\* one HTTP timeout before it was cached.
EntryInv ==
    /\ \A u \in Uris, k \in Keys : gone[u][k] <= now
    /\ \A u \in Uris : entry[u] # NoEntry =>
            KeysSince(u, entry[u].resp.keys, entry[u].cached_at - MaxFlight)

\* The keys c has in hand may be used until its call ends.
InHand == {"touch", "touch_locked", "resolve", "decode", "account"} \cup Verdicts

\* c may still surface the retained entry: it has seen usable keys in this call.
Relies(c) ==
    \/ pc[c] \in {"touch", "touch_locked", "decode", "refresh_wait", "refreshing",
                  "refreshed", "account"}
    \/ pc[c] = "resolve" /\ Validates(job[c].resp)

CallerInv(c) ==
    LET j == job[c] IN
    /\ j.began <= now
    /\ pc[c] \in InFlight => /\ j.began <= j.since /\ j.since <= now
                             /\ now - j.since <= MaxFlight
    /\ pc[c] \in {"fetched", "refreshed"} => KeysSince(j.uri, j.resp.keys, j.since)
    /\ pc[c] \in InHand => KeysSince(j.uri, j.resp.keys, j.began - MaxTTL - MaxFlight + 1)
    /\ Relies(c) /\ entry[j.uri] # NoEntry
            => entry[j.uri].cached_at + entry[j.uri].ttl > j.began
    /\ pc[c] = "accepted" => Verifies(j.token, j.resp.keys)

FreshInv == EntryInv /\ \A c \in Callers : CallerInv(c)

\* Rotation is absorbed (_discover_and_resolve_key, _retry_with_refreshed_jwks):
\* a token whose key the provider published during the whole call is refused as
\* unknown or badly signed only if no answer to a request of this call decided:
\* either the refresh surfaced an older answer (one retained over an empty body,
\* or one cached at the very same clock reading), or the keys came from the cache
\* and the cooldown that an earlier unhelpful refresh armed forbade the refresh.
RotationAbsorbed ==
    \A c \in Callers :
        /\ steady[c]
        /\ job[c].token.kid # NoKid
        /\ pc[c] \in {"no_match", "bad_signature", "suppressed"}
        => \/ job[c].from \in {"retained", "coalesced"}
           \/ pc[c] = "suppressed" /\ job[c].from = "hit"

\* With one event loop an answer never replaces an entry that is newer than the
\* request: the fetch lock orders requests and writes (_get_cached_jwks,
\* _refresh_jwks).
NoLateOverwrite ==
    \A c \in Callers :
        pc[c] \in InFlight /\ entry[job[c].uri] # NoEntry
            => entry[job[c].uri].cached_at <= job[c].since

\* The claim of _refresh_jwks' docstring that its guard catches the case where
\* another caller for this URI completed a refresh while this one was blocked:
\* no request is sent when an entry was cached after the decision to refresh.
RefreshCoalesced ==
    [][\A c \in Callers :
        pc[c] = "refresh_wait" /\ pc'[c] = "refreshing"
            => \/ entry[job[c].uri] = NoEntry
               \/ entry[job[c].uri].cached_at <= job[c].since]_vars

\* Every call of validate_token returns or raises: no caller waits for ever for
\* a fetch lock that is held across a request.
EveryCallReturns == \A c \in Callers : pc[c] # "idle" ~> pc[c] = "idle"

=============================================================================
