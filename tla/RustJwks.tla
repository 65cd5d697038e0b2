------------------------------ MODULE RustJwks ------------------------------
(***************************************************************************)
(* The JWKS client of the Rust crate: rust/src/jwks/cache.rs (TTL cache    *)
(* with an LRU bound, refresh cooldown, single-flight gates released by an *)
(* RAII guard) and client.rs (fetch, force_refresh, resolve_key).          *)
(*                                                                         *)
(* A task is one future that runs one of those operations.  It may be      *)
(* dropped at any await.  A gate is the Arc<Mutex<()>> that serialises the *)
(* fetches of a URI: the map in_flight names at most one per URI, tasks    *)
(* that hold a clone keep it alive after it has left the map.              *)
(***************************************************************************)
EXTENDS Integers, FiniteSets, Recency

CONSTANTS
    Tasks,        \* futures
    Uris,         \* jwks_uri values
    Gates,        \* identities of gates
    Kids,         \* key ids
    KeySets,      \* the sets of kids a provider may publish
    Ops,          \* the operations tasks use, among "fetch", "resolve", "force"
    MaxEntries,   \* max_entries; 0 disables the bounds
    TTL,          \* cache_ttl
    Cooldown,     \* refresh_cooldown; 0 disables the throttle
    MaxFlight,    \* timeout of the request
    Outages,      \* whether requests may fail
    Cancels,      \* whether futures are dropped
    MaxTime,      \* bound on the clock
    Nobody,       \* owner of an unlocked gate
    NoGate,       \* no gate for a uri, or none held by a task
    NoEntry       \* a uri that is not in entries

ASSUME RustConstantsAssumption ==
    /\ KeySets \subseteq SUBSET Kids /\ {} \notin KeySets
    /\ Ops \subseteq {"fetch", "resolve", "force"}
    /\ MaxEntries \in Nat /\ TTL \in Nat \ {0} /\ Cooldown \in Nat
    /\ MaxFlight \in Nat /\ MaxTime \in Nat
    /\ Outages \in BOOLEAN /\ Cancels \in BOOLEAN
    /\ Nobody \notin Tasks /\ NoGate \notin Gates
    /\ Uris # {} /\ Kids # {}

VARIABLES
    now,           \* Instant::now()
    published,     \* the keys each provider serves now
    entry,         \* entries
    order,         \* the keys of entries by last_access, smallest tick first
    last_refresh,  \* last_refresh, NoMark where it has no record
    in_flight,     \* in_flight: the gate of a uri, or NoGate
    owner,         \* which task has locked a gate
    pc, job        \* per task: where it is, and what it knows

vars == <<now, published, entry, order, last_refresh, in_flight, owner, pc, job>>

-----------------------------------------------------------------------------
(* Values                                                                  *)

Time == 0..MaxTime
NoMark == -1

\* A parsed JsonWebKeySet; at is a history of when the provider served it.
Answered == [keys : SUBSET Kids, at : Time]
NoKeys == [keys |-> {}, at |-> 0]

CacheEntry == [got : [keys : (SUBSET Kids) \ {{}}, at : Time], expires_at : 0..(MaxTime + TTL)]

ASSUME RustNoEntryAssumption == NoEntry \notin CacheEntry

Requesting == {"request", "put"}
Locking == {"recheck", "unlock"} \cup Requesting
Labels == {"idle", "get", "gate", "lock", "release", "throttle", "invalidate", "mark",
           "returned"} \cup Locking
Results == {"none", "fetched", "found", "not_found", "refreshed", "error", "cancelled"}

\* refresh: the current fetch is the one of force_refresh; began: time of the call;
\* since: time of its request; quiet: history, no request for the uri was in
\* progress when the call invalidated the entry.
Jobs == [op : {"fetch", "resolve", "force"}, uri : Uris, kid : Kids, refresh : BOOLEAN,
         gate : Gates \cup {NoGate}, got : Answered, began : Time, since : Time,
         quiet : BOOLEAN, result : Results]

NoJob == [op |-> "fetch", uri |-> CHOOSE u \in Uris : TRUE, kid |-> CHOOSE k \in Kids : TRUE,
          refresh |-> FALSE, gate |-> NoGate, got |-> NoKeys, began |-> 0, since |-> 0,
          quiet |-> FALSE, result |-> "none"]

Uri(c) == job[c].uri

-----------------------------------------------------------------------------
(* cache.rs                                                                *)

Without(s, u) == Popped(s, u)

\* A read hit or a put takes the next tick.
next_tick(u) == Append(Without(order, u), u)

\* get: present and unexpired.
fresh(u) == entry[u] # NoEntry /\ now < entry[u].expires_at

evict_lru(s) ==
    IF MaxEntries > 0 THEN Newest(s, MaxEntries) ELSE s

Evicted(u) == {v \in ToSet(next_tick(u)) : v \notin ToSet(evict_lru(next_tick(u)))}

\* put: insert and evict, under the write lock of entries.
insert(u, a) ==
    /\ order' = evict_lru(next_tick(u))
    /\ entry' = [v \in Uris |->
          IF v \in Evicted(u) THEN NoEntry
          ELSE IF v = u THEN [got |-> a, expires_at |-> now + TTL]
          ELSE entry[v]]

\* put: the records of evicted uris go with them.
prune(u) ==
    last_refresh' = [v \in Uris |-> IF v \in Evicted(u) THEN NoMark ELSE last_refresh[v]]

Marked(m) == {v \in Uris : m[v] # NoMark}

\* Mutant: the records are left to put alone.
oldest_none(m) == {{}}

\* The sets of records that mark_refresh may remove: the oldest ones above the
\* bound, in the map's iteration order where their times are equal.
oldest(m) ==
    IF MaxEntries = 0 \/ Cardinality(Marked(m)) <= MaxEntries THEN {{}}
    ELSE {V \in SUBSET Marked(m) :
            /\ Cardinality(V) = Cardinality(Marked(m)) - MaxEntries
            /\ \A v \in V : \A w \in Marked(m) \ V : m[v] <= m[w]}

mark_refresh(u) ==
    LET m == [last_refresh EXCEPT ![u] = now]
    IN  \E V \in oldest(m) :
            last_refresh' = [v \in Uris |-> IF v \in V THEN NoMark ELSE m[v]]

refresh_throttled(u) ==
    /\ Cooldown > 0
    /\ last_refresh[u] # NoMark
    /\ now - last_refresh[u] < Cooldown

\* Gates that neither the map nor a task refers to.
NewGates ==
    {g \in Gates : /\ \A u \in Uris : in_flight[u] # g
                   /\ \A c \in Tasks : job[c].gate # g}

\* flight_gate: the gate in the map, or a new one.
flight_gate(u) == IF in_flight[u] # NoGate THEN {in_flight[u]} ELSE NewGates

\* release_flight: remove the gate from the map if it is still this one.
release_flight(u, g) == IF in_flight[u] = g THEN NoGate ELSE in_flight[u]

-----------------------------------------------------------------------------
(* client.rs                                                               *)

GoTo(c, l) == pc' = [pc EXCEPT ![c] = l]

Ends(c, r) ==
    /\ GoTo(c, "returned")
    /\ job' = [job EXCEPT ![c] = [@ EXCEPT !.result = r]]

\* Where fetch returns to: its caller, resolve_key, or force_refresh.
AfterFetch(j) ==
    IF j.result # "none" THEN [l |-> "returned", r |-> j.result]
    ELSE IF j.refresh THEN [l |-> "mark", r |-> "none"]
    ELSE IF j.op = "fetch" THEN [l |-> "returned", r |-> "fetched"]
    ELSE IF j.kid \in j.got.keys THEN [l |-> "returned", r |-> "found"]
    ELSE [l |-> "throttle", r |-> "none"]

\* fetch, resolve_key or force_refresh is polled for the first time.
Begin(c, op, u, kid) ==
    /\ pc[c] = "idle"
    /\ job' = [job EXCEPT ![c] = [NoJob EXCEPT !.op = op, !.uri = u, !.began = now,
            !.kid = IF op = "resolve" THEN kid ELSE NoJob.kid]]
    /\ GoTo(c, IF op = "force" THEN "invalidate" ELSE "get")
    /\ UNCHANGED <<now, published, entry, order, last_refresh, in_flight, owner>>

\* fetch: a fresh entry is served without a request.
Get(c) ==
    /\ pc[c] = "get"
    /\ IF fresh(Uri(c))
       THEN LET j == [job[c] EXCEPT !.got = entry[Uri(c)].got]
            IN  /\ order' = next_tick(Uri(c))
                /\ job' = [job EXCEPT ![c] = [j EXCEPT !.result = AfterFetch(j).r]]
                /\ GoTo(c, AfterFetch(j).l)
       ELSE GoTo(c, "gate") /\ UNCHANGED <<job, order>>
    /\ UNCHANGED <<now, published, entry, last_refresh, in_flight, owner>>

\* fetch: flight_gate.
Gate(c) ==
    /\ pc[c] = "gate"
    /\ \E g \in flight_gate(Uri(c)) :
        /\ in_flight' = [in_flight EXCEPT ![Uri(c)] = g]
        /\ job' = [job EXCEPT ![c] = [@ EXCEPT !.gate = g]]
    /\ GoTo(c, "lock")
    /\ UNCHANGED <<now, published, entry, order, last_refresh, owner>>

\* fetch: flight.gate().lock().await
Lock(c) ==
    /\ pc[c] = "lock"
    /\ owner[job[c].gate] = Nobody
    /\ owner' = [owner EXCEPT ![job[c].gate] = c]
    /\ GoTo(c, "recheck")
    /\ UNCHANGED <<now, published, entry, order, last_refresh, in_flight, job>>

\* fetch: look again under the gate.
Recheck(c) ==
    /\ pc[c] = "recheck"
    /\ IF fresh(Uri(c))
       THEN /\ order' = next_tick(Uri(c))
            /\ job' = [job EXCEPT ![c] = [@ EXCEPT !.got = entry[Uri(c)].got]]
            /\ GoTo(c, "unlock")
       ELSE /\ job' = [job EXCEPT ![c] = [@ EXCEPT !.since = now]]
            /\ GoTo(c, "request")
            /\ UNCHANGED order
    /\ UNCHANGED <<now, published, entry, last_refresh, in_flight, owner>>

\* fetch_and_parse: a usable key set, or an error (transport, status, size, parse,
\* no usable key).
fetch_and_parse(c) ==
    /\ pc[c] = "request"
    /\ \/ /\ job' = [job EXCEPT ![c] =
                [@ EXCEPT !.got = [keys |-> published[Uri(c)], at |-> now]]]
          /\ GoTo(c, "put")
       \/ /\ Outages
          /\ job' = [job EXCEPT ![c] = [@ EXCEPT !.result = "error"]]
          /\ GoTo(c, "unlock")
    /\ UNCHANGED <<now, published, entry, order, last_refresh, in_flight, owner>>

Put(c) ==
    /\ pc[c] = "put"
    /\ insert(Uri(c), job[c].got)
    /\ prune(Uri(c))
    /\ GoTo(c, "unlock")
    /\ UNCHANGED <<now, published, in_flight, owner, job>>

\* put awaits the lock of last_refresh between the eviction and the pruning: a
\* future dropped there has done the one and not the other.
PutDropped(c) ==
    /\ Cancels
    /\ pc[c] = "put"
    /\ insert(Uri(c), job[c].got)
    /\ Evicted(Uri(c)) # {}
    /\ job' = [job EXCEPT ![c] = [@ EXCEPT !.result = "cancelled"]]
    /\ GoTo(c, "unlock")
    /\ UNCHANGED <<now, published, last_refresh, in_flight, owner>>

\* The lock guard is dropped first.
Unlock(c) ==
    /\ pc[c] = "unlock"
    /\ owner' = [owner EXCEPT ![job[c].gate] = Nobody]
    /\ GoTo(c, "release")
    /\ UNCHANGED <<now, published, entry, order, last_refresh, in_flight, job>>

\* Then the FlightGuard; fetch returns.
Release(c) ==
    /\ pc[c] = "release"
    /\ in_flight' = [in_flight EXCEPT ![Uri(c)] = release_flight(Uri(c), job[c].gate)]
    /\ job' = [job EXCEPT ![c] = [@ EXCEPT !.gate = NoGate, !.result = AfterFetch(job[c]).r]]
    /\ GoTo(c, AfterFetch(job[c]).l)
    /\ UNCHANGED <<now, published, entry, order, last_refresh, owner>>

\* resolve_key: the automatic refresh is rate-limited.
Throttle(c) ==
    /\ pc[c] = "throttle"
    /\ IF refresh_throttled(Uri(c)) THEN Ends(c, "not_found")
       ELSE GoTo(c, "invalidate") /\ UNCHANGED job
    /\ UNCHANGED <<now, published, entry, order, last_refresh, in_flight, owner>>

InProgress(u) == \E d \in Tasks : pc[d] \in Requesting /\ Uri(d) = u

\* Mutant: the refresh leaves the cached entry where it is.
InvalidateNot(c) ==
    /\ pc[c] = "invalidate"
    /\ job' = [job EXCEPT ![c] = [@ EXCEPT !.refresh = TRUE, !.quiet = ~InProgress(Uri(c))]]
    /\ GoTo(c, "get")
    /\ UNCHANGED <<now, published, entry, order, last_refresh, in_flight, owner>>

\* force_refresh: invalidate.
Invalidate(c) ==
    /\ pc[c] = "invalidate"
    /\ entry' = [entry EXCEPT ![Uri(c)] = NoEntry]
    /\ order' = Without(order, Uri(c))
    /\ job' = [job EXCEPT ![c] = [@ EXCEPT !.refresh = TRUE, !.quiet = ~InProgress(Uri(c))]]
    /\ GoTo(c, "get")
    /\ UNCHANGED <<now, published, last_refresh, in_flight, owner>>

\* force_refresh: mark_refresh; resolve_key looks for the kid once more.
Mark(c) ==
    /\ pc[c] = "mark"
    /\ mark_refresh(Uri(c))
    /\ Ends(c, IF job[c].op = "force" THEN "refreshed"
               ELSE IF job[c].kid \in job[c].got.keys THEN "found" ELSE "not_found")
    /\ UNCHANGED <<now, published, entry, order, in_flight, owner>>

\* Mutant: the gate is released on the normal path only.
DropLeaks(c) ==
    /\ Cancels
    /\ pc[c] \in {"get", "lock", "recheck", "request", "put", "throttle", "invalidate", "mark"}
    /\ GoTo(c, "returned")
    /\ owner' = [g \in Gates |-> IF owner[g] = c THEN Nobody ELSE owner[g]]
    /\ job' = [job EXCEPT ![c] = [@ EXCEPT !.gate = NoGate, !.result = "cancelled"]]
    /\ UNCHANGED <<now, published, entry, order, last_refresh, in_flight>>

\* The future is dropped at an await; its guards are dropped with it.
Drop(c) ==
    /\ Cancels
    /\ pc[c] \in {"get", "lock", "recheck", "request", "put", "throttle", "invalidate", "mark"}
    /\ job' = [job EXCEPT ![c] = [@ EXCEPT !.result = "cancelled"]]
    /\ GoTo(c, IF pc[c] \in Locking THEN "unlock"
               ELSE IF pc[c] = "lock" THEN "release" ELSE "returned")
    /\ UNCHANGED <<now, published, entry, order, last_refresh, in_flight, owner>>

Return(c) ==
    /\ pc[c] = "returned"
    /\ GoTo(c, "idle")
    /\ job' = [job EXCEPT ![c] = NoJob]
    /\ UNCHANGED <<now, published, entry, order, last_refresh, in_flight, owner>>

-----------------------------------------------------------------------------
(* The providers and the clock                                             *)

Rotate(u, S) ==
    /\ S # published[u]
    /\ published' = [published EXCEPT ![u] = S]
    /\ UNCHANGED <<now, entry, order, last_refresh, in_flight, owner, pc, job>>

\* A request ends within its timeout.
Tick ==
    /\ now < MaxTime
    /\ \A c \in Tasks : pc[c] \in Requesting => now < job[c].since + MaxFlight
    /\ now' = now + 1
    /\ UNCHANGED <<published, entry, order, last_refresh, in_flight, owner, pc, job>>

-----------------------------------------------------------------------------

Init ==
    /\ now = 0
    /\ published \in [Uris -> KeySets]
    /\ entry = [u \in Uris |-> NoEntry]
    /\ order = <<>>
    /\ last_refresh = [u \in Uris |-> NoMark]
    /\ in_flight = [u \in Uris |-> NoGate]
    /\ owner = [g \in Gates |-> Nobody]
    /\ pc = [c \in Tasks |-> "idle"]
    /\ job = [c \in Tasks |-> NoJob]

Step(c) ==
    \/ Get(c) \/ Gate(c) \/ Lock(c) \/ Recheck(c) \/ fetch_and_parse(c) \/ Put(c)
    \/ Unlock(c) \/ Release(c) \/ Throttle(c) \/ Invalidate(c) \/ Mark(c)

Next ==
    \/ \E c \in Tasks :
        \/ \E op \in Ops, u \in Uris, kid \in Kids : Begin(c, op, u, kid)
        \/ Step(c)
        \/ PutDropped(c)
        \/ Drop(c)
        \/ Return(c)
    \/ \E u \in Uris, S \in KeySets : Rotate(u, S)
    \/ Tick

Spec == Init /\ [][Next]_vars

\* The executor polls every task; tokio's Mutex serves its waiters in order.
Fairness ==
    \A c \in Tasks : WF_vars(Step(c)) /\ SF_vars(Lock(c))

FairSpec == Spec /\ Fairness

-----------------------------------------------------------------------------
(* Properties                                                              *)

\* Types of the cache, the cooldown records, the gates and the tasks.
TypeOK ==
    /\ now \in Time
    /\ published \in [Uris -> KeySets]
    /\ entry \in [Uris -> CacheEntry \cup {NoEntry}]
    /\ order \in Seq(Uris)
    /\ last_refresh \in [Uris -> Time \cup {NoMark}]
    /\ in_flight \in [Uris -> Gates \cup {NoGate}]
    /\ owner \in [Gates -> Tasks \cup {Nobody}]
    /\ pc \in [Tasks -> Labels]
    /\ job \in [Tasks -> Jobs]

\* Entries and cooldown records stay within max_entries, also when a future is
\* dropped between the eviction and the pruning or a refresh fails after it was
\* invalidated; the ticks are those of the entries.
Bounded ==
    /\ {u \in Uris : entry[u] # NoEntry} = ToSet(order)
    /\ IsInjective(order)
    /\ MaxEntries > 0 => /\ Len(order) <= MaxEntries
                         /\ Cardinality(Marked(last_refresh)) <= MaxEntries

\* FlightGuard and the lock guard: a gate in the map belongs to a task that is still
\* inside fetch for that URI, and a gate is locked by a task that is between its lock
\* and its unlock, so neither errors nor dropped futures strand a gate or those who
\* wait for it.
GatesReclaimed ==
    /\ \A u \in Uris : in_flight[u] # NoGate =>
            \E c \in Tasks : job[c].gate = in_flight[u] /\ Uri(c) = u
    /\ \A g \in Gates : owner[g] # Nobody =>
            pc[owner[g]] \in Locking /\ job[owner[g]].gate = g

\* A refresh that began while no request for its URI was in progress returns keys
\* served after the call.
QuietRefresh ==
    \A c \in Tasks :
        pc[c] \in {"mark", "returned"} /\ job[c].quiet /\ job[c].result \notin {"error", "cancelled"}
            => job[c].got.at >= job[c].began

\* Concurrent misses for one URI collapse to a single request.
SingleFlight ==
    \A c, d \in Tasks :
        c # d /\ pc[c] = "request" /\ pc[d] = "request" => Uri(c) # Uri(d)
=============================================================================
