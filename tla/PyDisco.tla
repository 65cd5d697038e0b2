------------------------------- MODULE PyDisco -------------------------------
(***************************************************************************)
(* The discovery cache of the Python library: _get_disco_response of       *)
(* sync/token_validation.py (threads) and of aio/token_validation.py       *)
(* (coroutines on one or several event loops), over the rules of           *)
(* core/jwks_cache.py, with the counters of core/cache_metrics.py.         *)
(*                                                                         *)
(* Each side has its own process-wide cache.  A caller's home is "sync" or *)
(* an event loop; a fetch lock is a home and a stripe, held from Acquire   *)
(* until the answer is applied.                                            *)
(***************************************************************************)
EXTENDS DiscoLogic, Recency

CONSTANTS Callers,
          Work,         \* bound: placement of the callers -> their calls and the last time
          Wants,        \* [address, policy]: what callers may ask for
          Answers,      \* address -> the answers of the provider
          StripeOf,     \* hash(cache_key) % _DISCO_LOCK_STRIPES
          RawTTL, RawEntries,        \* DISCO_CACHE_TTL, JWKS_CACHE_MAX_ENTRIES
          DefaultTTL, DefaultEntries, MinTTL, MaxTTL,
          MaxFlight     \* the HTTP client's timeout

ASSUME PyDiscoAssumption ==
    /\ MinTTL \in Nat /\ MaxTTL \in Nat /\ MinTTL <= MaxTTL
    /\ DefaultTTL \in MinTTL..MaxTTL /\ DefaultEntries \in Nat \ {0}
    /\ MaxFlight \in Nat /\ IsFiniteSet(Callers)
    /\ RawTTL.kind = "number" => RawTTL.value \in Int
    /\ RawEntries.kind = "number" => RawEntries.value \in Int
    /\ \A h \in DOMAIN Work : \A c \in Callers : Work[h].calls[c] \in Nat /\ Work[h].time \in Nat

\* A policy has the fields of DiscoveryPolicy; a Cache-Control header has an integral
\* max-age, and the issuer of a document is a string.
ASSUME WantsAssumption ==
    \A w \in Wants :
      /\ w = [address |-> w.address, policy |-> w.policy]
      /\ w.policy = [f \in DOMAIN DiscoveryPolicy |-> w.policy[f]]
      /\ \A a \in Answers[w.address] : a.cache_control.max_age \in Int /\ a.issuer.host # None

VARIABLES now,      \* time.monotonic()
          home,     \* caller -> home
          cache,    \* side -> _disco_cache: entries in OrderedDict order, LRU first
          task,     \* caller -> its call
          stats,    \* disco_hits and disco_misses of CACHE_COUNTERS
          seen,     \* history: async calls served from the cache, requests sent, requests cancelled
          log       \* history: the answers that may still be shared (see DiscoStore)

vars == <<now, home, cache, task, stats, seen, log>>

_get_disco_env_ttl == _safe_env_float(RawTTL, DefaultTTL, MinTTL, MaxTTL)
_max_cache_entries == get_max_cache_entries(RawEntries, DefaultEntries)

Side(c) == IF home[c] = "sync" THEN "sync" ELSE "aio"
Async(c) == Side(c) = "aio"

KeyOf(want) == <<want.address, cache_key(want.policy)>>
_get_disco_fetch_lock(c) == <<home[c], StripeOf[task[c].want]>>

Holding == {"touch_locked", "fetching", "fetched"}
Free(lock) == \A o \in Callers : task[o].pc \in Holding => _get_disco_fetch_lock(o) # lock

NoWant == CHOOSE w \in Wants : TRUE
Idle(left) == [pc |-> "idle", left |-> left, want |-> NoWant, resp |-> DiscoFailed("none"), since |-> 0]

Init == /\ now = 0
        /\ home \in DOMAIN Work
        /\ cache = [s \in {"sync", "aio"} |-> <<>>]
        /\ task = [c \in Callers |-> Idle(Work[home].calls[c])]
        /\ stats = [hits |-> 0, misses |-> 0]
        /\ seen = [shared |-> 0, sent |-> 0, dropped |-> 0]
        /\ log = {}

-----------------------------------------------------------------------------
\* core/jwks_cache.py

\* An OrderedDict holds at most one entry of a key.
Has(entries, key) == \E e \in Members(entries) : e.key = key
Entry(entries, key) == CHOOSE e \in Members(entries) : e.key = key
Without(entries, key) == IF Has(entries, key) THEN Popped(entries, Entry(entries, key)) ELSE entries

is_cache_expired(entry) == now - entry.cached_at >= entry.ttl

touch_cache_entry(entries, key) ==
    IF Has(entries, key) THEN Append(Without(entries, key), Entry(entries, key)) ELSE entries

\* The first entries go until the bound is met.
_enforce_size_limit(entries) == Newest(entries, _max_cache_entries)

DiscoCacheEntry(key, resp) ==
    [key |-> key, resp |-> resp, cached_at |-> now,
     ttl |-> resolve_disco_ttl(resp.cache_control, _get_disco_env_ttl, MinTTL, MaxTTL)]

\* Mutant: what may not be stored is stored.
apply_disco_cache_outcome_always(entries, key, resp) ==
    IF ~resp.ok THEN entries
    ELSE _enforce_size_limit(Append(Without(entries, key), DiscoCacheEntry(key, resp)))

\* A failure keeps what is cached; an uncacheable answer drops it.
apply_disco_cache_outcome(entries, key, resp) ==
    IF ~resp.ok THEN entries
    ELSE IF is_uncacheable(resp.cache_control) THEN Without(entries, key)
    ELSE _enforce_size_limit(Append(Without(entries, key), DiscoCacheEntry(key, resp)))

-----------------------------------------------------------------------------
\* _get_disco_response

Mine(c) == Entry(cache[Side(c)], KeyOf(task[c].want))
Usable(c) == Has(cache[Side(c)], KeyOf(task[c].want)) /\ ~is_cache_expired(Mine(c))

Begin(c, want) ==
    /\ task[c].pc = "idle" /\ task[c].left > 0
    /\ task' = [task EXCEPT ![c].pc = "lookup", ![c].want = want, ![c].left = @ - 1]
    /\ UNCHANGED <<now, home, cache, stats, seen, log>>

Served(c, pc) ==
    /\ task' = [task EXCEPT ![c].pc = pc, ![c].resp = Mine(c).resp]
    /\ seen' = IF Async(c) THEN [seen EXCEPT !.shared = @ + 1] ELSE seen

\* The lookup without a lock.
Lookup(c) ==
    /\ task[c].pc = "lookup"
    /\ IF Usable(c) THEN Served(c, "touch")
       ELSE task' = [task EXCEPT ![c].pc = "wait"] /\ UNCHANGED seen
    /\ UNCHANGED <<now, home, cache, stats, log>>

\* The recency of a hit, and record_disco_hit: the sync side counts nothing.
Touch(c) ==
    /\ task[c].pc \in {"touch", "touch_locked"}
    /\ cache' = [cache EXCEPT ![Side(c)] = touch_cache_entry(@, KeyOf(task[c].want))]
    /\ stats' = IF Async(c) THEN [stats EXCEPT !.hits = @ + 1] ELSE stats
    /\ task' = [task EXCEPT ![c].pc = "done"]
    /\ UNCHANGED <<now, home, seen, log>>

\* Preflight of get_discovery_document, asked again by _upstream_fetch_attempted.
_upstream_fetch_attempted(want) == validate_url_scheme(want.address, want.policy) = "ok"

\* The fetch lock, and the second lookup under it.
Acquire(c) ==
    /\ task[c].pc = "wait" /\ Free(_get_disco_fetch_lock(c))
    /\ LET want == task[c].want
       IN  \/ /\ Usable(c)
              /\ Served(c, "touch_locked")
           \/ /\ ~Usable(c) /\ _upstream_fetch_attempted(want)
              /\ task' = [task EXCEPT ![c].pc = "fetching", ![c].since = now]
              /\ seen' = IF Async(c) THEN [seen EXCEPT !.sent = @ + 1] ELSE seen
           \/ /\ ~Usable(c) /\ ~_upstream_fetch_attempted(want)
              /\ task' = [task EXCEPT ![c].pc = "fetched", ![c].since = now, ![c].resp =
                            handle_discovery_error(validate_url_scheme(want.address, want.policy))]
              /\ UNCHANGED seen
    /\ UNCHANGED <<now, home, cache, stats, log>>

TtlOf(resp) == resolve_disco_ttl(resp.cache_control, _get_disco_env_ttl, MinTTL, MaxTTL)

Record(c, resp) == [want |-> task[c].want, resp |-> resp, at |-> task[c].since, ttl |-> TtlOf(resp)]

\* get_discovery_document: an answer of the provider, or a RequestError.
get_discovery_document ==
    [want \in Wants |->
       {process_discovery_response(a, want.policy, want.address) : a \in Answers[want.address]}
       \cup {handle_discovery_error("RequestError")}]

Fetched(c) ==
    /\ task[c].pc = "fetching"
    /\ \E resp \in get_discovery_document[task[c].want] :
         /\ task' = [task EXCEPT ![c].pc = "fetched", ![c].resp = resp]
         /\ log' = IF resp.ok /\ ~is_uncacheable(resp.cache_control)
                   THEN log \cup {Record(c, resp)} ELSE log
    /\ UNCHANGED <<now, home, cache, stats, seen>>

\* Mutant: only successful requests count.
RecordMissOnSuccess(c) ==
    IF Async(c) /\ task[c].resp.ok THEN [stats EXCEPT !.misses = @ + 1] ELSE stats

RecordMiss(c) ==
    IF Async(c) /\ _upstream_fetch_attempted(task[c].want)
    THEN [stats EXCEPT !.misses = @ + 1] ELSE stats

Apply(c) ==
    /\ task[c].pc = "fetched"
    /\ stats' = RecordMiss(c)
    /\ cache' = [cache EXCEPT ![Side(c)] =
                   apply_disco_cache_outcome(@, KeyOf(task[c].want), task[c].resp)]
    /\ task' = [task EXCEPT ![c].pc = "done", ![c].since = 0]
    /\ UNCHANGED <<now, home, seen, log>>

\* CancelledError in an await: the lock is released, nothing is counted.
Cancel(c) ==
    /\ Async(c) /\ task[c].pc \in {"wait", "fetching"}
    /\ task' = [task EXCEPT ![c] = Idle(task[c].left)]
    /\ seen' = IF task[c].pc = "fetching" THEN [seen EXCEPT !.dropped = @ + 1] ELSE seen
    /\ UNCHANGED <<now, home, cache, stats, log>>

Return(c) ==
    /\ task[c].pc = "done"
    /\ task' = [task EXCEPT ![c] = Idle(task[c].left)]
    /\ UNCHANGED <<now, home, cache, stats, seen, log>>

clear_discovery_cache(side) ==
    /\ cache[side] # <<>>
    /\ cache' = [cache EXCEPT ![side] = <<>>]
    /\ UNCHANGED <<now, home, task, stats, seen, log>>

\* A request, and what is done with its answer, takes at most MaxFlight.
Tick ==
    /\ now < Work[home].time
    /\ \A c \in Callers : task[c].pc \in {"fetching", "fetched"} => now < task[c].since + MaxFlight
    /\ now' = now + 1
    /\ log' = {rec \in log : now' < rec.at + rec.ttl + MaxFlight}
    /\ UNCHANGED <<home, cache, task, stats, seen>>

Step(c) == Lookup(c) \/ Touch(c) \/ Acquire(c) \/ Fetched(c) \/ Apply(c)

-----------------------------------------------------------------------------
\* A caller is given its answer when it reads it in the cache or gets it from
\* the provider.
Phase(c) == CASE task[c].pc = "idle" -> "idle"
              [] task[c].pc \in {"lookup", "wait"} -> "asked"
              [] task[c].pc = "fetching" -> "sent"
              [] OTHER -> "given"

Admits(want, resp) == resp \in get_discovery_document[want]

Store == INSTANCE DiscoStore WITH
             Flight <- MaxFlight,
             Admits <- Admits,
             phase <- [c \in Callers |-> Phase(c)],
             want  <- [c \in Callers |-> task[c].want],
             got   <- [c \in Callers |-> task[c].resp]

\* The cache is invisible but for its age: whatever the callers, the evictions
\* and the clears do, each caller is given what DiscoStore allows.  No answer
\* admitted under one policy reaches a caller with another, no failure is
\* cached, and no stored answer outlives its lifetime (_get_disco_response).
ImplementsStore == Store!Spec

\* A document that a caller is given passes the caller's own policy, whoever
\* fetched it (the policy part of the cache key).
PolicyObeyed ==
    \A c \in Callers : Phase(c) = "given" /\ task[c].resp.ok =>
      process_discovery_response(task[c].resp.doc[1], task[c].want.policy,
                                 task[c].want.address).ok

\* The counters agree with what happened: a hit for every async call that was
\* served from the cache, a miss for every request that was sent, unless it was
\* cancelled (cache_metrics.py, _upstream_fetch_attempted).
CountersExact ==
    LET Pending(pcs) == Cardinality({c \in Callers : Async(c) /\ task[c].pc \in pcs
                                       /\ _upstream_fetch_attempted(task[c].want)})
    IN  /\ stats.hits + Pending({"touch", "touch_locked"}) = seen.shared
        /\ stats.misses + Pending({"fetching", "fetched"}) + seen.dropped = seen.sent
=============================================================================
