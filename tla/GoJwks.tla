------------------------------- MODULE GoJwks -------------------------------
(***************************************************************************)
(* The JWKS client of the Go module: go/pkg/jwks/cache.go (TTL cache with  *)
(* an LRU bound, refresh cooldown, singleflight) and jwks.go (FetchKeySet, *)
(* handles, ResolveKeyWithRefresh, ForceRefresh, ClearCache).              *)
(*                                                                         *)
(* A caller is one goroutine inside one of those operations.  A flight is  *)
(* the goroutine that singleflight runs for a URI: it outlives the caller  *)
(* that started it.  Every method of the cache holds c.mu for its whole    *)
(* body and is one step; between two of them anything may happen.          *)
(***************************************************************************)
EXTENDS Integers, FiniteSets, Recency

CONSTANTS
    Callers,      \* goroutines
    Uris,         \* jwks_uri values
    Handles,      \* *JSONWebKeySet values that FetchKeySet may return
    UriOf,        \* the uri of a handle
    Kids,         \* key ids
    KeySets,      \* the sets of kids a provider may publish
    Ops,          \* the operations callers use, among "open", "resolve", "force"
    MaxEntries,   \* cfg.maxEntries; 0 disables the bounds
    TTL,          \* cfg.cacheTTL
    Cooldown,     \* cfg.refreshCooldown; 0 disables the throttle
    MaxFlight,    \* the request timeout
    Outages,      \* the uris whose requests may fail
    Clears,       \* whether ClearCache is called
    MaxTime,      \* bound on the clock
    NoEntry       \* a uri that is not in c.entries

ASSUME GoConstantsAssumption ==
    /\ UriOf \in [Handles -> Uris]
    /\ KeySets \subseteq SUBSET Kids /\ {} \notin KeySets
    /\ Ops \subseteq {"open", "resolve", "force"}
    /\ MaxEntries \in Nat /\ TTL \in Nat \ {0} /\ Cooldown \in Nat
    /\ MaxFlight \in Nat /\ MaxTime \in Nat
    /\ Outages \subseteq Uris /\ Clears \in BOOLEAN
    /\ Handles # {} /\ Kids # {}

VARIABLES
    now,          \* c.now()
    published,    \* the keys each provider serves now
    entry,        \* c.entries
    order,        \* the keys of c.entries by lastAccess, smallest tick first
    lastRefresh,  \* c.lastRefresh, NoMark where it has no record
    flight,       \* c.group: the call in progress for a uri
    handle,       \* s.Keys of every handle, {} before FetchKeySet returned it
    pc, job       \* per caller: where it is, and what it knows

vars == <<now, published, entry, order, lastRefresh, flight, handle, pc, job>>

-----------------------------------------------------------------------------
(* Values                                                                  *)

Time == 0..MaxTime
NoMark == -1

\* A parsed key set; at is a history of when the provider served it.
Answered == [keys : SUBSET Kids, at : Time]
NoKeys == [keys |-> {}, at |-> 0]

cacheEntry == [got : [keys : (SUBSET Kids) \ {{}}, at : Time], expiresAt : 0..(MaxTime + TTL)]

ASSUME GoNoEntryAssumption == NoEntry \notin cacheEntry

Stages == {"none", "recheck", "request", "store", "deliver"}

Flights == [stage : Stages, ok : BOOLEAN, got : Answered, since : Time]
NoFlight == [stage |-> "none", ok |-> FALSE, got |-> NoKeys, since |-> 0]

Results == {"none", "opened", "found", "not_found", "refreshed", "error", "cancelled"}
Labels == {"idle", "throttle", "invalidate", "lookup", "join", "wait", "fetched",
           "swap", "again", "returned"}

\* began: time of the call; quiet: history, no request for the uri was in
\* progress when the call invalidated the entry.
Jobs == [op : {"open", "resolve", "force"}, h : Handles, kid : Kids, began : Time,
         got : Answered, quiet : BOOLEAN, result : Results]

NoJob == [op |-> "open", h |-> CHOOSE h \in Handles : TRUE,
          kid |-> CHOOSE k \in Kids : TRUE, began |-> 0, got |-> NoKeys,
          quiet |-> FALSE, result |-> "none"]

Uri(c) == UriOf[job[c].h]

-----------------------------------------------------------------------------
(* cache.go                                                                *)

\* delete(c.entries, key), seen in the recency order.
Without(s, u) == Popped(s, u)

\* A read hit or a store takes the next tick.
nextTick(u) == Append(Without(order, u), u)

\* Mutant: an entry is served at the instant it expires, and after.
lookupStale(u) == entry[u] # NoEntry

\* lookup: present and unexpired.
lookup(u) == entry[u] # NoEntry /\ now < entry[u].expiresAt

\* evictLocked: drop the smallest ticks until the bound holds.
evictLocked(s) ==
    IF MaxEntries > 0 THEN Newest(s, MaxEntries) ELSE s

store(u, a) ==
    LET full == nextTick(u)
        kept == evictLocked(full)
        gone == {v \in ToSet(full) : v \notin ToSet(kept)}
    IN  /\ order' = kept
        /\ entry' = [v \in Uris |->
              IF v \in gone THEN NoEntry
              ELSE IF v = u THEN [got |-> a, expiresAt |-> now + TTL]
              ELSE entry[v]]
        /\ lastRefresh' = [v \in Uris |-> IF v \in gone THEN NoMark ELSE lastRefresh[v]]

Marked(m) == {v \in Uris : m[v] # NoMark}

\* Mutant: the records are left to evictLocked alone.
OldestNone(m) == {{}}

\* The sets of records that markRefresh may delete: the oldest ones above the
\* bound, in the map's iteration order where their times are equal.
Oldest(m) ==
    IF MaxEntries = 0 \/ Cardinality(Marked(m)) <= MaxEntries THEN {{}}
    ELSE {V \in SUBSET Marked(m) :
            /\ Cardinality(V) = Cardinality(Marked(m)) - MaxEntries
            /\ \A v \in V : \A w \in Marked(m) \ V : m[v] <= m[w]}

markRefresh(u) ==
    LET m == [lastRefresh EXCEPT ![u] = now]
    IN  \E V \in Oldest(m) :
            lastRefresh' = [v \in Uris |-> IF v \in V THEN NoMark ELSE m[v]]

refreshThrottled(u) ==
    /\ Cooldown > 0
    /\ lastRefresh[u] # NoMark
    /\ now - lastRefresh[u] < Cooldown

-----------------------------------------------------------------------------
(* Steps of a caller                                                       *)

GoTo(c, l) == pc' = [pc EXCEPT ![c] = l]

Done(c, r) ==
    /\ GoTo(c, "returned")
    /\ job' = [job EXCEPT ![c] = [@ EXCEPT !.result = r]]

\* c's fetch has returned a, or is about to be looked up.
Got(c, a) == [job EXCEPT ![c] = [@ EXCEPT !.got = a]]

\* The program has dropped handle h, or never had it.
Unused(h) == \A d \in Callers : pc[d] = "idle" \/ job[d].h # h

\* FetchKeySet is called for a new handle, ResolveKeyWithRefresh or ForceRefresh
\* on a handle that the goroutines share.
Begin(c, op, h, kid) ==
    /\ pc[c] = "idle"
    /\ IF op = "open" THEN Unused(h) /\ handle' = [handle EXCEPT ![h] = {}]
       ELSE handle[h] # {} /\ UNCHANGED handle
    /\ job' = [job EXCEPT ![c] = [NoJob EXCEPT !.op = op, !.h = h,
            !.kid = IF op = "resolve" THEN kid ELSE NoJob.kid, !.began = now,
            !.result = IF op = "resolve" /\ kid \in handle[h] THEN "found" ELSE "none"]]
    /\ GoTo(c, IF op = "open" THEN "lookup"
               ELSE IF op = "force" THEN "invalidate"
               ELSE IF kid \in handle[h] THEN "returned" ELSE "throttle")
    /\ UNCHANGED <<now, published, entry, order, lastRefresh, flight>>

\* ResolveKeyWithRefresh: the automatic refresh is rate-limited.
Throttle(c) ==
    /\ pc[c] = "throttle"
    /\ IF refreshThrottled(Uri(c)) THEN Done(c, "not_found")
       ELSE GoTo(c, "invalidate") /\ UNCHANGED job
    /\ UNCHANGED <<now, published, entry, order, lastRefresh, flight, handle>>

\* Mutant: the refresh leaves the cached entry where it is.
InvalidateNot(c) ==
    /\ pc[c] = "invalidate"
    /\ job' = [job EXCEPT ![c] = [@ EXCEPT !.quiet = flight[Uri(c)] = NoFlight]]
    /\ GoTo(c, "lookup")
    /\ UNCHANGED <<now, published, entry, order, lastRefresh, flight, handle>>

\* ForceRefresh: invalidate.
Invalidate(c) ==
    /\ pc[c] = "invalidate"
    /\ entry' = [entry EXCEPT ![Uri(c)] = NoEntry]
    /\ order' = Without(order, Uri(c))
    /\ job' = [job EXCEPT ![c] = [@ EXCEPT !.quiet = flight[Uri(c)] = NoFlight]]
    /\ GoTo(c, "lookup")
    /\ UNCHANGED <<now, published, lastRefresh, flight, handle>>

\* fetch: a fresh entry is served without a request.
Lookup(c) ==
    /\ pc[c] = "lookup"
    /\ IF lookup(Uri(c))
       THEN /\ job' = Got(c, entry[Uri(c)].got)
            /\ order' = nextTick(Uri(c))
            /\ GoTo(c, "fetched")
       ELSE GoTo(c, "join") /\ UNCHANGED <<job, order>>
    /\ UNCHANGED <<now, published, entry, lastRefresh, flight, handle>>

\* fetch: DoChan starts a flight or joins the one in progress.
Join(c) ==
    /\ pc[c] = "join"
    /\ flight' = IF flight[Uri(c)] = NoFlight
                 THEN [flight EXCEPT ![Uri(c)] =
                        [NoFlight EXCEPT !.stage = "recheck", !.since = now]]
                 ELSE flight
    /\ GoTo(c, "wait")
    /\ UNCHANGED <<now, published, entry, order, lastRefresh, handle, job>>

\* Mutant: the request is made with the context of the caller that started it.
CancelPoisons(c) ==
    /\ pc[c] = "wait"
    /\ flight' = [flight EXCEPT ![Uri(c)] =
            [@ EXCEPT !.stage = "deliver", !.ok = FALSE]]
    /\ Done(c, "cancelled")
    /\ UNCHANGED <<now, published, entry, order, lastRefresh, handle>>

\* fetch: ctx.Done() of the caller; the flight goes on.
Cancel(c) ==
    /\ pc[c] = "wait"
    /\ Done(c, "cancelled")
    /\ UNCHANGED <<now, published, entry, order, lastRefresh, flight, handle>>

\* FetchKeySet returns a handle; ForceRefresh starts the cooldown.
Fetched(c) ==
    /\ pc[c] = "fetched"
    /\ IF job[c].op = "open"
       THEN /\ handle' = [handle EXCEPT ![job[c].h] = job[c].got.keys]
            /\ Done(c, "opened")
            /\ UNCHANGED lastRefresh
       ELSE /\ markRefresh(Uri(c))
            /\ GoTo(c, "swap")
            /\ UNCHANGED <<handle, job>>
    /\ UNCHANGED <<now, published, entry, order, flight>>

\* ForceRefresh: s.Keys = keys.
Swap(c) ==
    /\ pc[c] = "swap"
    /\ handle' = [handle EXCEPT ![job[c].h] = job[c].got.keys]
    /\ IF job[c].op = "force" THEN Done(c, "refreshed")
       ELSE GoTo(c, "again") /\ UNCHANGED job
    /\ UNCHANGED <<now, published, entry, order, lastRefresh, flight>>

\* ResolveKeyWithRefresh: ResolveKey after the refresh.
Again(c) ==
    /\ pc[c] = "again"
    /\ Done(c, IF job[c].kid \in handle[job[c].h] THEN "found" ELSE "not_found")
    /\ UNCHANGED <<now, published, entry, order, lastRefresh, flight, handle>>

Return(c) ==
    /\ pc[c] = "returned"
    /\ GoTo(c, "idle")
    /\ job' = [job EXCEPT ![c] = NoJob]
    /\ UNCHANGED <<now, published, entry, order, lastRefresh, flight, handle>>

-----------------------------------------------------------------------------
(* Steps of a flight                                                       *)

Flying(u, s) == flight' = [flight EXCEPT ![u] = [@ EXCEPT !.stage = s]]

Landed(u, ok, a, s) ==
    flight' = [flight EXCEPT ![u] = [@ EXCEPT !.stage = s, !.ok = ok, !.got = a]]

\* Look again under the flight.
Recheck(u) ==
    /\ flight[u].stage = "recheck"
    /\ IF lookup(u)
       THEN /\ Landed(u, TRUE, entry[u].got, "deliver")
            /\ order' = nextTick(u)
       ELSE Flying(u, "request") /\ UNCHANGED order
    /\ UNCHANGED <<now, published, entry, lastRefresh, handle, pc, job>>

\* fetchAndParse: a usable key set, or an error (transport, status, size, parse,
\* no usable key).
fetchAndParse(u) ==
    /\ flight[u].stage = "request"
    /\ \/ Landed(u, TRUE, [keys |-> published[u], at |-> now], "store")
       \/ u \in Outages /\ Landed(u, FALSE, NoKeys, "deliver")
    /\ UNCHANGED <<now, published, entry, order, lastRefresh, handle, pc, job>>

Store(u) ==
    /\ flight[u].stage = "store"
    /\ store(u, flight[u].got)
    /\ Flying(u, "deliver")
    /\ UNCHANGED <<now, published, handle, pc, job>>

Waiters(u) == {c \in Callers : pc[c] = "wait" /\ Uri(c) = u}

\* singleflight forgets the key and answers every waiter.
Deliver(u) ==
    /\ flight[u].stage = "deliver"
    /\ flight' = [flight EXCEPT ![u] = NoFlight]
    /\ pc' = [c \in Callers |-> IF c \notin Waiters(u) THEN pc[c]
                ELSE IF flight[u].ok THEN "fetched" ELSE "returned"]
    /\ job' = [c \in Callers |-> IF c \notin Waiters(u) THEN job[c]
                ELSE IF flight[u].ok THEN [job[c] EXCEPT !.got = flight[u].got]
                ELSE [job[c] EXCEPT !.result = "error"]]
    /\ UNCHANGED <<now, published, entry, order, lastRefresh, handle>>

-----------------------------------------------------------------------------
(* The rest of the process, the providers and the clock                    *)

ClearCache ==
    /\ Clears
    /\ entry' = [u \in Uris |-> NoEntry]
    /\ order' = <<>>
    /\ lastRefresh' = [u \in Uris |-> NoMark]
    /\ UNCHANGED <<now, published, flight, handle, pc, job>>

Rotate(u, S) ==
    /\ S # published[u]
    /\ published' = [published EXCEPT ![u] = S]
    /\ UNCHANGED <<now, entry, order, lastRefresh, flight, handle, pc, job>>

\* A flight ends within its timeout.
Tick ==
    /\ now < MaxTime
    /\ \A u \in Uris : flight[u] # NoFlight => now < flight[u].since + MaxFlight
    /\ now' = now + 1
    /\ UNCHANGED <<published, entry, order, lastRefresh, flight, handle, pc, job>>

-----------------------------------------------------------------------------

Init ==
    /\ now = 0
    /\ published \in [Uris -> KeySets]
    /\ entry = [u \in Uris |-> NoEntry]
    /\ order = <<>>
    /\ lastRefresh = [u \in Uris |-> NoMark]
    /\ flight = [u \in Uris |-> NoFlight]
    /\ handle = [h \in Handles |-> {}]
    /\ pc = [c \in Callers |-> "idle"]
    /\ job = [c \in Callers |-> NoJob]

CallerStep(c) ==
    \/ Throttle(c) \/ Invalidate(c) \/ Lookup(c) \/ Join(c)
    \/ Fetched(c) \/ Swap(c) \/ Again(c)

FlightStep(u) == Recheck(u) \/ fetchAndParse(u) \/ Store(u) \/ Deliver(u)

Next ==
    \/ \E c \in Callers :
        \/ \E op \in Ops, h \in Handles, kid \in Kids : Begin(c, op, h, kid)
        \/ CallerStep(c)
        \/ Cancel(c)
        \/ Return(c)
    \/ \E u \in Uris : FlightStep(u)
    \/ ClearCache
    \/ \E u \in Uris, S \in KeySets : Rotate(u, S)
    \/ Tick

Spec == Init /\ [][Next]_vars

-----------------------------------------------------------------------------
(* Properties                                                              *)

\* Types of the cache, the cooldown records, the flights, the handles and the
\* callers.
TypeOK ==
    /\ now \in Time
    /\ published \in [Uris -> KeySets]
    /\ entry \in [Uris -> cacheEntry \cup {NoEntry}]
    /\ order \in Seq(Uris)
    /\ lastRefresh \in [Uris -> Time \cup {NoMark}]
    /\ flight \in [Uris -> Flights]
    /\ handle \in [Handles -> SUBSET Kids]
    /\ pc \in [Callers -> Labels]
    /\ job \in [Callers -> Jobs]

\* The bound of evictLocked and markRefresh: whatever interleaving of reads,
\* stores, evictions, failed refreshes, late marks and clears, the entries and the
\* cooldown records stay within maxEntries, and the recency ticks are those of the
\* entries.
Bounded ==
    /\ {u \in Uris : entry[u] # NoEntry} = ToSet(order)
    /\ IsInjective(order)
    /\ MaxEntries > 0 => /\ Len(order) <= MaxEntries
                         /\ Cardinality(Marked(lastRefresh)) <= MaxEntries

\* FetchKeySet returns keys that the provider served less than one TTL and two
\* flights before the call: one flight may have stored them late, a second one may
\* have found them just before they expired and be joined just after.
FetchedFresh ==
    \A c \in Callers :
        pc[c] \in {"fetched", "swap", "again"} \/ job[c].result \in {"opened", "refreshed"}
            => job[c].got.at > job[c].began - TTL - 2 * MaxFlight

\* ForceRefresh called while no request for its URI is in progress installs keys
\* served after the call.
QuietRefresh ==
    \A c \in Callers :
        (/\ pc[c] \in {"fetched", "swap", "again"} \/ job[c].result = "refreshed"
         /\ job[c].quiet)
        => job[c].got.at >= job[c].began

\* The comment of fetch: one caller that cancels cannot poison the request that
\* others depend on.  While the provider of a URI answers, nobody who asked for its
\* keys is given an error.
NotPoisoned ==
    \A c \in Callers : Uri(c) \notin Outages => job[c].result # "error"

=============================================================================
