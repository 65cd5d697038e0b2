---------------------------- MODULE GoJwks_proofs ----------------------------
(***************************************************************************)
(* Proofs about GoJwks, for any number of goroutines, URIs and handles,    *)
(* any TTL, cooldown, bound and timeout: the types, what a flight, an      *)
(* entry and a caller know of the age of the keys they hold, and the       *)
(* bounds of the cache.                                                    *)
(***************************************************************************)
EXTENDS GoJwks, Recency_proofs, TLAPS

\* The constants as the arithmetic of the proofs needs them.
LEMMA Numbers ==
    /\ MaxTime \in Nat /\ TTL \in Nat /\ TTL > 0 /\ MaxFlight \in Nat /\ MaxEntries \in Nat
    /\ \A t \in Time : t \in Nat /\ t <= MaxTime
    /\ NoMark \notin Time
  BY GoConstantsAssumption DEF Time, NoMark

\* The record of an idle caller, and the empty key set, are well typed.
LEMMA NoJobType == NoJob \in Jobs /\ NoKeys \in Answered
  <1>1. (CHOOSE h \in Handles : TRUE) \in Handles /\ (CHOOSE k \in Kids : TRUE) \in Kids
    BY GoConstantsAssumption
  <1>2. NoKeys \in Answered
    BY Numbers DEF NoKeys, Answered, Time
  <1>3. 0 \in Time
    BY Numbers DEF Time
  <1> QED BY <1>1, <1>2, <1>3 DEF NoJob, Jobs, Results

\* The record of no flight is well typed and carries nothing.
LEMMA NoFlightType ==
    /\ NoFlight \in Flights
    /\ NoFlight.stage = "none" /\ ~NoFlight.ok
  BY NoJobType, Numbers DEF NoFlight, Flights, Stages, Time

-----------------------------------------------------------------------------
(* The inductive invariant                                                 *)

\* What a flight carries: a fetched key set is about to be stored and is not empty,
\* only an outage makes a flight fail, a flight ends within its timeout, and what it
\* delivers was served less than one TTL and one flight before it began.
FlightInv(u) ==
    LET f == flight[u] IN
    /\ f.stage = "store" => f.ok /\ f.got.keys # {} /\ f.got.at >= f.since
    /\ f.stage = "deliver" /\ ~f.ok => u \in Outages
    /\ f # NoFlight => f.since <= now /\ now <= f.since + MaxFlight
    /\ f.stage \in {"store", "deliver"} /\ f.ok => f.got.at > f.since - TTL - MaxFlight

\* An entry was served at most one flight before it was stored.
EntryInv(u) ==
    entry[u] # NoEntry => entry[u].got.at >= entry[u].expiresAt - TTL - MaxFlight

\* What the cache or a flight may answer for u was served at t or later.
FreshSince(u, t) ==
    /\ entry[u] # NoEntry => entry[u].got.at >= t
    /\ flight[u].stage \in {"store", "deliver"} /\ flight[u].ok => flight[u].got.at >= t

Held == {"fetched", "swap", "again"}

\* What a caller knows: the three properties for c alone, and, while it is on its way
\* to an answer after it found no request in progress, that nothing older than its
\* call can reach it.
CallerInv(c) ==
    LET j == job[c] IN
    /\ j.began <= now
    /\ pc[c] # "returned" => j.result = "none"
    /\ pc[c] \in {"lookup", "join", "wait"} /\ j.quiet => FreshSince(Uri(c), j.began)
    /\ (pc[c] \in Held \/ j.result = "refreshed") /\ j.quiet => j.got.at >= j.began
    /\ pc[c] \in Held \/ j.result \in {"opened", "refreshed"}
            => j.got.at > j.began - TTL - 2 * MaxFlight
    /\ Uri(c) \notin Outages => j.result # "error"

AgeInv ==
    /\ \A u \in Uris : FlightInv(u) /\ EntryInv(u)
    /\ \A c \in Callers : CallerInv(c)

\* The recency order is that of the entries, and the records are finitely many, which
\* counting them takes for granted.
SizeInv == Bounded /\ IsFiniteSet(Marked(lastRefresh))
-----------------------------------------------------------------------------
(* What the operators of the model do                                      *)

\* A caller asks for a URI that there is.
LEMMA UriType == ASSUME TypeOK, NEW c \in Callers PROVE Uri(c) \in Uris
  BY GoConstantsAssumption DEF TypeOK, Jobs, Uri

\* Moving one caller moves no other.
LEMMA GoToFields ==
    ASSUME TypeOK, NEW c \in Callers, NEW l, GoTo(c, l)
    PROVE  pc'[c] = l /\ \A d \in Callers \ {c} : pc'[d] = pc[d]
  BY DEF GoTo, TypeOK

\* Returning sets the result of one caller and leaves the rest of its record alone.
LEMMA DoneFields ==
    ASSUME TypeOK, NEW c \in Callers, NEW r, Done(c, r)
    PROVE  /\ pc'[c] = "returned"
           /\ job'[c].result = r /\ job'[c].h = job[c].h /\ job'[c].began = job[c].began
           /\ job'[c].got = job[c].got /\ job'[c].quiet = job[c].quiet
           /\ \A d \in Callers \ {c} : pc'[d] = pc[d] /\ job'[d] = job[d]
  <1>1. job' = [job EXCEPT ![c] = [job[c] EXCEPT !.result = r]]
    BY DEF Done
  <1>2. pc'[c] = "returned" /\ \A d \in Callers \ {c} : pc'[d] = pc[d]
    BY GoToFields DEF Done
  <1>3. job[c] \in Jobs /\ job'[c] = [job[c] EXCEPT !.result = r]
        /\ \A d \in Callers \ {c} : job'[d] = job[d]
    BY <1>1 DEF TypeOK
  <1> QED BY <1>2, <1>3 DEF Jobs

\* Handing keys to one caller leaves the rest of its record, and all others, alone.
LEMMA GotFields ==
    ASSUME TypeOK, NEW c \in Callers, NEW a, job' = Got(c, a)
    PROVE  /\ job'[c].result = job[c].result /\ job'[c].h = job[c].h
           /\ job'[c].began = job[c].began
           /\ job'[c].got = a /\ job'[c].quiet = job[c].quiet
           /\ \A d \in Callers \ {c} : job'[d] = job[d]
  <1>1. job[c] \in Jobs /\ job'[c] = [job[c] EXCEPT !.got = a]
        /\ \A d \in Callers \ {c} : job'[d] = job[d]
    BY DEF TypeOK, Got
  <1> QED BY <1>1 DEF Jobs

\* A flight that goes on keeps what it carries.
LEMMA FlyingFields ==
    ASSUME TypeOK, NEW u \in Uris, NEW s, Flying(u, s)
    PROVE  /\ flight'[u].stage = s /\ flight'[u].ok = flight[u].ok
           /\ flight'[u].got = flight[u].got /\ flight'[u].since = flight[u].since
           /\ \A v \in Uris \ {u} : flight'[v] = flight[v]
  <1>1. flight[u] \in Flights /\ flight'[u] = [flight[u] EXCEPT !.stage = s]
        /\ \A v \in Uris \ {u} : flight'[v] = flight[v]
    BY DEF TypeOK, Flying
  <1> QED BY <1>1 DEF Flights

\* A flight that has its answer keeps the time it began.
LEMMA LandedFields ==
    ASSUME TypeOK, NEW u \in Uris, NEW ok, NEW a, NEW s, Landed(u, ok, a, s)
    PROVE  /\ flight'[u].stage = s /\ flight'[u].ok = ok
           /\ flight'[u].got = a /\ flight'[u].since = flight[u].since
           /\ \A v \in Uris \ {u} : flight'[v] = flight[v]
  <1>1. flight[u] \in Flights
        /\ flight'[u] = [flight[u] EXCEPT !.stage = s, !.ok = ok, !.got = a]
        /\ \A v \in Uris \ {u} : flight'[v] = flight[v]
    BY DEF TypeOK, Landed
  <1> QED BY <1>1 DEF Flights

\* A store puts the new entry, or evicts, and touches nothing else.
LEMMA StoreEntries ==
    ASSUME NEW u \in Uris, NEW a, store(u, a)
    PROVE  \A v \in Uris :
             \/ entry'[v] = NoEntry
             \/ entry'[v] = entry[v]
             \/ v = u /\ entry'[v] = [got |-> a, expiresAt |-> now + TTL]
  BY DEF store

\* Invalidation.
LEMMA InvalidateFields ==
    ASSUME TypeOK, NEW c \in Callers, Invalidate(c)
    PROVE  /\ pc'[c] = "lookup"
           /\ job'[c].result = job[c].result /\ job'[c].h = job[c].h
           /\ job'[c].began = job[c].began /\ job'[c].got = job[c].got
           /\ job'[c].quiet = (flight[Uri(c)] = NoFlight)
           /\ \A d \in Callers \ {c} : pc'[d] = pc[d] /\ job'[d] = job[d]
           /\ entry'[Uri(c)] = NoEntry
           /\ \A v \in Uris \ {Uri(c)} : entry'[v] = entry[v]
  <1>1. job[c] \in Jobs /\ job'[c] = [job[c] EXCEPT !.quiet = (flight[Uri(c)] = NoFlight)]
        /\ \A d \in Callers \ {c} : job'[d] = job[d]
    BY DEF TypeOK, Invalidate
  <1>2. pc'[c] = "lookup" /\ \A d \in Callers \ {c} : pc'[d] = pc[d]
    BY GoToFields DEF Invalidate
  <1>3. entry'[Uri(c)] = NoEntry /\ \A v \in Uris \ {Uri(c)} : entry'[v] = entry[v]
    BY UriType DEF Invalidate, TypeOK
  <1> QED BY <1>1, <1>2, <1>3 DEF Jobs

\* The answer of a flight reaches those who wait for it and nobody else.
LEMMA DeliverFields ==
    ASSUME TypeOK, NEW u \in Uris, Deliver(u), NEW c \in Callers
    PROVE  IF pc[c] = "wait" /\ Uri(c) = u
           THEN /\ pc'[c] = IF flight[u].ok THEN "fetched" ELSE "returned"
                /\ job'[c].got = IF flight[u].ok THEN flight[u].got ELSE job[c].got
                /\ job'[c].result = IF flight[u].ok THEN job[c].result ELSE "error"
                /\ job'[c].h = job[c].h /\ job'[c].began = job[c].began
                /\ job'[c].quiet = job[c].quiet
           ELSE pc'[c] = pc[c] /\ job'[c] = job[c]
  <1>1. job[c] \in Jobs
    BY DEF TypeOK
  <1>2. CASE pc[c] = "wait" /\ Uri(c) = u
    <2>1. c \in Waiters(u)
      BY <1>2 DEF Waiters
    <2>2. /\ pc'[c] = IF flight[u].ok THEN "fetched" ELSE "returned"
          /\ job'[c] = IF flight[u].ok THEN [job[c] EXCEPT !.got = flight[u].got]
                       ELSE [job[c] EXCEPT !.result = "error"]
      BY <2>1 DEF Deliver
    <2> QED BY <1>1, <1>2, <2>2 DEF Jobs
  <1>3. CASE ~(pc[c] = "wait" /\ Uri(c) = u)
    <2>1. c \notin Waiters(u)
      BY <1>3 DEF Waiters
    <2> QED BY <1>3, <2>1 DEF Deliver
  <1> QED BY <1>2, <1>3

-----------------------------------------------------------------------------
(* The bounds of the cache                                                 *)

\* evictLocked leaves a suffix of the order that keeps the newest key.
LEMMA EvictFacts ==
    ASSUME NEW s \in Seq(Uris), IsInjective(s)
    PROVE  /\ evictLocked(s) \in Seq(Uris)
           /\ IsInjective(evictLocked(s))
           /\ ToSet(evictLocked(s)) \subseteq ToSet(s)
           /\ MaxEntries > 0 => Len(evictLocked(s)) <= MaxEntries
           /\ Len(s) > 0 => s[Len(s)] \in ToSet(evictLocked(s))
  <1>1. CASE MaxEntries > 0
    <2>1. evictLocked(s) = Newest(s, MaxEntries)
      BY <1>1 DEF evictLocked
    <2> QED BY <1>1, <2>1, Numbers, NewestFacts
  <1>2. CASE ~(MaxEntries > 0)
    <2>1. evictLocked(s) = s
      BY <1>2 DEF evictLocked
    <2>2. Len(s) > 0 => s[Len(s)] \in ToSet(s)
      BY DEF ToSet
    <2> QED BY <1>2, <2>1, <2>2
  <1> QED BY <1>1, <1>2

\* A read hit keeps the entries and reorders them.
LEMMA TouchBounded ==
    ASSUME TypeOK, SizeInv, NEW u \in Uris, entry[u] # NoEntry,
           order' = nextTick(u), UNCHANGED <<entry, lastRefresh>>
    PROVE  SizeInv' /\ order' \in Seq(Uris)
  <1>1. order \in Seq(Uris) /\ IsInjective(order) /\ u \in ToSet(order)
    BY DEF TypeOK, SizeInv, Bounded
  <1>2. /\ order' \in Seq(Uris) /\ IsInjective(order')
        /\ ToSet(order') = ToSet(order) \cup {u} /\ Len(order') = Len(order)
    BY <1>1, TouchFacts DEF nextTick, Without
  <1>3. ToSet(order') = ToSet(order)
    BY <1>1, <1>2
  <1> QED BY <1>2, <1>3 DEF SizeInv, Bounded, Marked

\* A store keeps the bound, and the entries and the order in step.
LEMMA StoreBounded ==
    ASSUME TypeOK, SizeInv, NEW u \in Uris, NEW a \in [keys : (SUBSET Kids) \ {{}}, at : Time],
           store(u, a)
    PROVE  SizeInv' /\ order' \in Seq(Uris)
  <1> DEFINE full == nextTick(u)
             kept == evictLocked(full)
             gone == {v \in ToSet(full) : v \notin ToSet(kept)}
             new == [got |-> a, expiresAt |-> now + TTL]
  <1>1. order \in Seq(Uris) /\ IsInjective(order) /\ now \in Time
        /\ {v \in Uris : entry[v] # NoEntry} = ToSet(order)
    BY DEF TypeOK, SizeInv, Bounded
  <1>2. /\ full \in Seq(Uris) /\ IsInjective(full)
        /\ ToSet(full) = ToSet(order) \cup {u} /\ Len(full) > 0 /\ full[Len(full)] = u
    BY <1>1, TouchFacts DEF nextTick, Without
  <1> HIDE DEF full
  <1>3. /\ kept \in Seq(Uris) /\ IsInjective(kept) /\ ToSet(kept) \subseteq ToSet(full)
        /\ (MaxEntries > 0 => Len(kept) <= MaxEntries) /\ u \in ToSet(kept)
    BY <1>2, EvictFacts
  <1> HIDE DEF kept
  <1>4. /\ order' = kept
        /\ entry' = [v \in Uris |-> IF v \in gone THEN NoEntry
                                    ELSE IF v = u THEN new ELSE entry[v]]
        /\ lastRefresh' = [v \in Uris |-> IF v \in gone THEN NoMark ELSE lastRefresh[v]]
    BY DEF store, full, kept
  <1>5. new # NoEntry
    <2>1. new \in cacheEntry
      BY <1>1, Numbers DEF cacheEntry, Time
    <2> QED BY <2>1, GoNoEntryAssumption
  <1> HIDE DEF new
  <1>6. ASSUME NEW v \in Uris PROVE entry'[v] # NoEntry <=> v \in ToSet(order')
    <2>1. CASE v \in gone
      BY <1>4, <2>1
    <2>2. CASE v \notin gone /\ v = u
      BY <1>3, <1>4, <1>5, <2>2
    <2>3. CASE v \notin gone /\ v # u
      <3>1. entry'[v] = entry[v]
        BY <1>4, <2>3
      <3>2. v \in ToSet(order) <=> v \in ToSet(kept)
        BY <1>2, <1>3, <2>3
      <3> QED BY <1>1, <1>4, <3>1, <3>2
    <2> QED BY <2>1, <2>2, <2>3
  <1>7. {v \in Uris : entry'[v] # NoEntry} = ToSet(order')
    <2>1. ToSet(order') \subseteq Uris
      BY <1>3, <1>4 DEF ToSet
    <2> QED BY <1>6, <2>1
  <1>8. Marked(lastRefresh') \subseteq Marked(lastRefresh)
    BY <1>4 DEF Marked
  <1>9. /\ IsFiniteSet(Marked(lastRefresh'))
        /\ Cardinality(Marked(lastRefresh')) <= Cardinality(Marked(lastRefresh))
    BY <1>8, FS_Subset DEF SizeInv
  <1>10. MaxEntries > 0 => Cardinality(Marked(lastRefresh')) <= MaxEntries
    <2>1. Cardinality(Marked(lastRefresh)) \in Nat /\ Cardinality(Marked(lastRefresh')) \in Nat
      BY <1>9, FS_CardinalityType DEF SizeInv
    <2> QED BY <1>9, <2>1, Numbers DEF SizeInv, Bounded
  <1>11. Marked(lastRefresh)' = Marked(lastRefresh')
    BY DEF Marked
  <1> QED BY <1>3, <1>4, <1>7, <1>9, <1>10, <1>11 DEF SizeInv, Bounded

\* An invalidation removes the entry and its tick.
LEMMA InvalidateBounded ==
    ASSUME TypeOK, SizeInv, NEW c \in Callers, Invalidate(c)
    PROVE  SizeInv' /\ order' \in Seq(Uris)
  <1>1. order \in Seq(Uris) /\ IsInjective(order)
        /\ {v \in Uris : entry[v] # NoEntry} = ToSet(order)
    BY DEF TypeOK, SizeInv, Bounded
  <1>2. order' = Popped(order, Uri(c)) /\ lastRefresh' = lastRefresh
    BY DEF Invalidate, Without
  <1>3. /\ order' \in Seq(Uris) /\ IsInjective(order')
        /\ ToSet(order') = ToSet(order) \ {Uri(c)} /\ Len(order') <= Len(order)
    BY <1>1, <1>2, PoppedFacts
  <1>4. {v \in Uris : entry'[v] # NoEntry} = ToSet(order')
    BY <1>1, <1>3, InvalidateFields, UriType
  <1>5. MaxEntries > 0 => Len(order') <= MaxEntries
    <2>1. Len(order) \in Nat /\ Len(order') \in Nat
      BY <1>1, <1>3
    <2> QED BY <1>3, <2>1, Numbers DEF SizeInv, Bounded
  <1> QED BY <1>2, <1>3, <1>4, <1>5 DEF SizeInv, Bounded, Marked

\* markRefresh adds one record and drops what is above the bound.
LEMMA MarkBounded ==
    ASSUME TypeOK, SizeInv, NEW u \in Uris, markRefresh(u), UNCHANGED <<entry, order>>
    PROVE  SizeInv'
  <1> DEFINE m == [lastRefresh EXCEPT ![u] = now]
             M == Marked(m)
  <1>1. PICK V \in Oldest(m) : lastRefresh' = [v \in Uris |-> IF v \in V THEN NoMark ELSE m[v]]
    BY DEF markRefresh
  <1>2. Marked(lastRefresh') = M \ V
    BY <1>1 DEF Marked
  <1>3. M = Marked(lastRefresh) \cup {u}
    <2>1. now # NoMark
      BY Numbers DEF TypeOK
    <2>2. m[u] = now /\ \A v \in Uris \ {u} : m[v] = lastRefresh[v]
      BY DEF TypeOK
    <2> QED BY <2>1, <2>2 DEF Marked
  <1>4. IsFiniteSet(M) /\ Cardinality(M) \in Nat
    <2>1. IsFiniteSet(M)
      BY <1>3, FS_AddElement DEF SizeInv
    <2> QED BY <2>1, FS_CardinalityType
  <1> HIDE DEF m
  <1>5. /\ IsFiniteSet(M \ V)
        /\ MaxEntries > 0 => Cardinality(M \ V) <= MaxEntries
    <2>1. CASE MaxEntries = 0 \/ Cardinality(M) <= MaxEntries
      <3>1. V = {}
        BY <1>1, <2>1 DEF Oldest
      <3>2. M \ V = M
        BY <3>1
      <3> QED BY <1>4, <2>1, <3>2, Numbers
    <2>2. CASE ~(MaxEntries = 0 \/ Cardinality(M) <= MaxEntries)
      <3>1. V \in SUBSET M /\ Cardinality(V) = Cardinality(M) - MaxEntries
        BY <1>1, <2>2 DEF Oldest
      <3>2. IsFiniteSet(M \ V) /\ Cardinality(M \ V) = MaxEntries
        BY <1>4, <3>1, Numbers, PruneFacts
      <3> QED BY <3>2, Numbers
    <2> QED BY <2>1, <2>2
  <1>6. Marked(lastRefresh)' = Marked(lastRefresh')
    BY DEF Marked
  <1> QED BY <1>2, <1>5, <1>6 DEF SizeInv, Bounded

\* Every step keeps the bounds: stores evict, refreshes drop, a clear empties.
LEMMA SizeStep ==
    ASSUME TypeOK, SizeInv, \A u \in Uris : FlightInv(u), [Next]_vars
    PROVE  SizeInv' /\ order' \in Seq(Uris)
  <1>u. ASSUME UNCHANGED <<entry, order, lastRefresh>> PROVE SizeInv' /\ order' \in Seq(Uris)
    BY <1>u DEF TypeOK, SizeInv, Bounded, Marked
  <1>1. ASSUME NEW c \in Callers, NEW op \in Ops, NEW h \in Handles, NEW kid \in Kids,
               Begin(c, op, h, kid)
        PROVE  SizeInv' /\ order' \in Seq(Uris)
    BY <1>1, <1>u DEF Begin
  <1>2. ASSUME NEW c \in Callers, Lookup(c) PROVE SizeInv' /\ order' \in Seq(Uris)
    <2>1. CASE lookup(Uri(c))
      <3>1. /\ entry[Uri(c)] # NoEntry /\ order' = nextTick(Uri(c))
            /\ UNCHANGED <<entry, lastRefresh>>
        BY <1>2, <2>1 DEF Lookup, lookup
      <3> QED BY <3>1, UriType, TouchBounded
    <2>2. CASE ~lookup(Uri(c))
      BY <1>2, <1>u, <2>2 DEF Lookup
    <2> QED BY <2>1, <2>2
  <1>3. ASSUME NEW c \in Callers, Fetched(c) PROVE SizeInv' /\ order' \in Seq(Uris)
    <2>1. CASE job[c].op = "open"
      BY <1>3, <1>u, <2>1 DEF Fetched
    <2>2. CASE job[c].op # "open"
      <3>1. markRefresh(Uri(c)) /\ UNCHANGED <<entry, order>>
        BY <1>3, <2>2 DEF Fetched
      <3> QED BY <3>1, UriType, MarkBounded DEF TypeOK
    <2> QED BY <2>1, <2>2
  <1>4. ASSUME NEW c \in Callers,
               Throttle(c) \/ Join(c) \/ Swap(c) \/ Again(c) \/ Cancel(c) \/ Return(c)
        PROVE  SizeInv' /\ order' \in Seq(Uris)
    BY <1>4, <1>u DEF Throttle, Join, Swap, Again, Cancel, Return
  <1>5. ASSUME NEW u \in Uris, Recheck(u) PROVE SizeInv' /\ order' \in Seq(Uris)
    <2>1. CASE lookup(u)
      <3>1. entry[u] # NoEntry /\ order' = nextTick(u) /\ UNCHANGED <<entry, lastRefresh>>
        BY <1>5, <2>1 DEF Recheck, lookup
      <3> QED BY <3>1, TouchBounded
    <2>2. CASE ~lookup(u)
      BY <1>5, <1>u, <2>2 DEF Recheck
    <2> QED BY <2>1, <2>2
  <1>6. ASSUME NEW u \in Uris, Store(u) PROVE SizeInv' /\ order' \in Seq(Uris)
    <2>1. flight[u].got \in [keys : (SUBSET Kids) \ {{}}, at : Time]
      <3>1. flight[u].got \in Answered /\ flight[u].got.keys # {}
        BY <1>6 DEF Store, FlightInv, TypeOK, Flights
      <3> QED BY <3>1 DEF Answered
    <2>2. store(u, flight[u].got)
      BY <1>6 DEF Store
    <2> QED BY <2>1, <2>2, StoreBounded
  <1>7. ASSUME NEW u \in Uris, fetchAndParse(u) \/ Deliver(u)
        PROVE  SizeInv' /\ order' \in Seq(Uris)
    BY <1>7, <1>u DEF fetchAndParse, Deliver
  <1>8. CASE ClearCache
    <2>1. /\ entry' = [u \in Uris |-> NoEntry] /\ order' = <<>>
          /\ lastRefresh' = [u \in Uris |-> NoMark]
      BY <1>8 DEF ClearCache
    <2>2. ToSet(order') = {} /\ IsInjective(order') /\ Len(order') = 0 /\ order' \in Seq(Uris)
      BY <2>1 DEF ToSet, IsInjective
    <2>3. Marked(lastRefresh)' = {} /\ {u \in Uris : entry'[u] # NoEntry} = {}
      BY <2>1 DEF Marked
    <2> QED BY <2>2, <2>3, FS_EmptySet, Numbers DEF SizeInv, Bounded
  <1>9. CASE Tick \/ UNCHANGED vars
    BY <1>9, <1>u DEF Tick, vars
  <1>10. ASSUME NEW u \in Uris, NEW S \in KeySets, Rotate(u, S)
         PROVE  SizeInv' /\ order' \in Seq(Uris)
    BY <1>10, <1>u DEF Rotate
  <1> QED BY <1>1, <1>2, <1>3, <1>4, <1>5, <1>6, <1>7, <1>8, <1>9, <1>10, InvalidateBounded
          DEF Next, CallerStep, FlightStep

-----------------------------------------------------------------------------
(* Types                                                                   *)

\* Every step keeps the types.
LEMMA TypeStep ==
    ASSUME TypeOK, SizeInv, \A u \in Uris : FlightInv(u), [Next]_vars
    PROVE  TypeOK'
  <1>o. order' \in Seq(Uris)
    BY SizeStep
  \* One caller moves.
  <1>c. ASSUME NEW c \in Callers, NEW l \in Labels, GoTo(c, l),
               NEW j \in Jobs, job' = [job EXCEPT ![c] = j],
               UNCHANGED <<now, published, entry, flight>>,
               lastRefresh' \in [Uris -> Time \cup {NoMark}],
               handle' \in [Handles -> SUBSET Kids]
        PROVE  TypeOK'
    <2>1. pc' \in [Callers -> Labels] /\ job' \in [Callers -> Jobs]
      BY <1>c DEF TypeOK, GoTo
    <2> QED BY <1>c, <1>o, <2>1 DEF TypeOK
  \* One caller moves and learns nothing.
  <1>m. ASSUME NEW c \in Callers, NEW l \in Labels, GoTo(c, l),
               UNCHANGED <<now, published, entry, job, lastRefresh, handle>>,
               flight' \in [Uris -> Flights]
        PROVE  TypeOK'
    <2>1. pc' \in [Callers -> Labels]
      BY <1>m DEF TypeOK, GoTo
    <2> QED BY <1>m, <1>o, <2>1 DEF TypeOK
  \* One caller ends.
  <1>d. ASSUME NEW c \in Callers, NEW r \in Results, Done(c, r),
               UNCHANGED <<now, published, entry, flight, lastRefresh>>,
               handle' \in [Handles -> SUBSET Kids]
        PROVE  TypeOK'
    <2> DEFINE j == [job[c] EXCEPT !.result = r]
    <2>1. j \in Jobs
      BY DEF TypeOK, Jobs
    <2>2. job' = [job EXCEPT ![c] = j] /\ GoTo(c, "returned") /\ "returned" \in Labels
      BY <1>d DEF Done, Labels
    <2>3. lastRefresh' \in [Uris -> Time \cup {NoMark}]
      BY <1>d DEF TypeOK
    <2> HIDE DEF j
    <2> QED BY <1>c, <1>d, <2>1, <2>2, <2>3
  \* One flight moves.
  <1>f. ASSUME NEW u \in Uris, NEW f \in Flights, flight' = [flight EXCEPT ![u] = f],
               UNCHANGED <<now, published, handle, pc, job>>,
               entry' \in [Uris -> cacheEntry \cup {NoEntry}],
               lastRefresh' \in [Uris -> Time \cup {NoMark}]
        PROVE  TypeOK'
    <2>1. flight' \in [Uris -> Flights]
      BY <1>f DEF TypeOK
    <2> QED BY <1>f, <1>o, <2>1 DEF TypeOK
  <1>1. ASSUME NEW c \in Callers, NEW op \in Ops, NEW h \in Handles, NEW kid \in Kids,
               Begin(c, op, h, kid)
        PROVE  TypeOK'
    <2> DEFINE j == [NoJob EXCEPT !.op = op, !.h = h,
                        !.kid = IF op = "resolve" THEN kid ELSE NoJob.kid, !.began = now,
                        !.result = IF op = "resolve" /\ kid \in handle[h] THEN "found"
                                   ELSE "none"]
               l == IF op = "open" THEN "lookup"
                    ELSE IF op = "force" THEN "invalidate"
                    ELSE IF kid \in handle[h] THEN "returned" ELSE "throttle"
    <2>1. job' = [job EXCEPT ![c] = j] /\ GoTo(c, l)
          /\ UNCHANGED <<now, published, entry, lastRefresh, flight>>
      BY <1>1 DEF Begin
    <2>2. j \in Jobs
      <3>1. op \in {"open", "resolve", "force"} /\ now \in Time
        BY GoConstantsAssumption DEF TypeOK
      <3> QED BY <3>1, NoJobType DEF Jobs, Results
    <2>3. l \in Labels
      BY DEF Labels
    <2>4. handle' \in [Handles -> SUBSET Kids] /\ lastRefresh' \in [Uris -> Time \cup {NoMark}]
      BY <1>1, <2>1 DEF Begin, TypeOK
    <2> HIDE DEF j, l
    <2> QED BY <1>c, <2>1, <2>2, <2>3, <2>4
  <1>2. ASSUME NEW c \in Callers, Throttle(c) PROVE TypeOK'
    <2>1. CASE refreshThrottled(Uri(c))
      BY <1>2, <1>d, <2>1 DEF Throttle, TypeOK, Results
    <2>2. CASE ~refreshThrottled(Uri(c))
      BY <1>2, <1>m, <2>2 DEF Throttle, TypeOK, Labels
    <2> QED BY <2>1, <2>2
  <1>3. ASSUME NEW c \in Callers, Invalidate(c) PROVE TypeOK'
    <2> DEFINE j == [job[c] EXCEPT !.quiet = flight[Uri(c)] = NoFlight]
    <2>1. j \in Jobs
      BY DEF TypeOK, Jobs
    <2>2. job' = [job EXCEPT ![c] = j] /\ GoTo(c, "lookup")
          /\ UNCHANGED <<now, published, lastRefresh, flight, handle>>
      BY <1>3 DEF Invalidate
    <2> HIDE DEF j
    <2>3. pc' \in [Callers -> Labels] /\ job' \in [Callers -> Jobs]
      BY <2>1, <2>2 DEF TypeOK, GoTo, Labels
    <2>4. entry' \in [Uris -> cacheEntry \cup {NoEntry}]
      BY <1>3 DEF Invalidate, TypeOK
    <2> QED BY <1>o, <2>2, <2>3, <2>4 DEF TypeOK
  <1>4. ASSUME NEW c \in Callers, Lookup(c) PROVE TypeOK'
    <2>1. CASE lookup(Uri(c))
      <3> DEFINE j == [job[c] EXCEPT !.got = entry[Uri(c)].got]
      <3>1. entry[Uri(c)] \in cacheEntry
        BY <2>1, UriType DEF lookup, TypeOK
      <3>2. entry[Uri(c)].got \in Answered
        BY <3>1 DEF cacheEntry, Answered
      <3>3. j \in Jobs
        BY <3>2 DEF TypeOK, Jobs
      <3>4. job' = [job EXCEPT ![c] = j] /\ GoTo(c, "fetched")
            /\ UNCHANGED <<now, published, entry, lastRefresh, flight, handle>>
        BY <1>4, <2>1 DEF Lookup, Got
      <3> HIDE DEF j
      <3>5. "fetched" \in Labels /\ lastRefresh' \in [Uris -> Time \cup {NoMark}]
            /\ handle' \in [Handles -> SUBSET Kids]
        BY <3>4 DEF Labels, TypeOK
      <3> QED BY <1>c, <3>3, <3>4, <3>5
    <2>2. CASE ~lookup(Uri(c))
      BY <1>4, <1>m, <2>2 DEF Lookup, TypeOK, Labels
    <2> QED BY <2>1, <2>2
  <1>5. ASSUME NEW c \in Callers, Join(c) PROVE TypeOK'
    <2> DEFINE f == [NoFlight EXCEPT !.stage = "recheck", !.since = now]
    <2>1. f \in Flights
      BY NoFlightType DEF TypeOK, Flights, Stages
    <2>2. flight' = [flight EXCEPT ![Uri(c)] = f] \/ flight' = flight
      BY <1>5 DEF Join
    <2> HIDE DEF f
    <2>3. flight' \in [Uris -> Flights]
      BY <2>1, <2>2 DEF TypeOK
    <2> QED BY <1>5, <1>m, <2>3 DEF Join, Labels
  <1>6. ASSUME NEW c \in Callers, Cancel(c) PROVE TypeOK'
    BY <1>6, <1>d DEF Cancel, TypeOK, Results
  <1>7. ASSUME NEW c \in Callers, Fetched(c) PROVE TypeOK'
    <2>1. CASE job[c].op = "open"
      <3>1. handle' \in [Handles -> SUBSET Kids]
        BY <1>7, <2>1 DEF Fetched, TypeOK, Jobs, Answered
      <3> QED BY <1>7, <1>d, <2>1, <3>1 DEF Fetched, Results
    <2>2. CASE job[c].op # "open"
      <3>1. /\ markRefresh(Uri(c)) /\ GoTo(c, "swap")
            /\ UNCHANGED <<now, published, entry, flight, handle, job>>
        BY <1>7, <2>2 DEF Fetched
      <3>2. lastRefresh' \in [Uris -> Time \cup {NoMark}]
        BY <3>1 DEF markRefresh, TypeOK
      <3>3. pc' \in [Callers -> Labels]
        BY <3>1 DEF TypeOK, GoTo, Labels
      <3> QED BY <1>o, <3>1, <3>2, <3>3 DEF TypeOK
    <2> QED BY <2>1, <2>2
  <1>8. ASSUME NEW c \in Callers, Swap(c) PROVE TypeOK'
    <2>1. handle' \in [Handles -> SUBSET Kids]
      BY <1>8 DEF Swap, TypeOK, Jobs, Answered
    <2>2. CASE job[c].op = "force"
      BY <1>8, <1>d, <2>1, <2>2 DEF Swap, Results
    <2>3. CASE job[c].op # "force"
      <3>1. GoTo(c, "again") /\ UNCHANGED <<now, published, entry, lastRefresh, flight, job>>
        BY <1>8, <2>3 DEF Swap
      <3>2. pc' \in [Callers -> Labels]
        BY <3>1 DEF TypeOK, GoTo, Labels
      <3> QED BY <1>o, <2>1, <3>1, <3>2 DEF TypeOK
    <2> QED BY <2>2, <2>3
  <1>9. ASSUME NEW c \in Callers, Again(c) PROVE TypeOK'
    <2>1. PICK r \in Results : Done(c, r)
      BY <1>9 DEF Again, Results
    <2> QED BY <1>9, <1>d, <2>1 DEF Again, TypeOK
  <1>10. ASSUME NEW c \in Callers, Return(c) PROVE TypeOK'
    <2>1. lastRefresh' \in [Uris -> Time \cup {NoMark}] /\ handle' \in [Handles -> SUBSET Kids]
      BY <1>10 DEF Return, TypeOK
    <2> QED BY <1>10, <1>c, <2>1, NoJobType DEF Return, Labels
  <1>11. ASSUME NEW u \in Uris, Recheck(u) PROVE TypeOK'
    <2>0. /\ UNCHANGED <<now, published, entry, lastRefresh, handle, pc, job>>
          /\ flight[u] \in Flights
      BY <1>11 DEF Recheck, TypeOK
    <2>1. CASE lookup(u)
      <3>1. entry[u].got \in Answered
        BY <2>1 DEF lookup, TypeOK, cacheEntry, Answered
      <3> DEFINE f == [flight[u] EXCEPT !.stage = "deliver", !.ok = TRUE, !.got = entry[u].got]
      <3>2. flight' = [flight EXCEPT ![u] = f]
        BY <1>11, <2>1 DEF Recheck, Landed
      <3>3. f \in Flights
        BY <2>0, <3>1 DEF Flights, Stages
      <3> HIDE DEF f
      <3> QED BY <1>f, <2>0, <3>2, <3>3 DEF TypeOK
    <2>2. CASE ~lookup(u)
      <3> DEFINE f == [flight[u] EXCEPT !.stage = "request"]
      <3>2. flight' = [flight EXCEPT ![u] = f]
        BY <1>11, <2>2 DEF Recheck, Flying
      <3>3. f \in Flights
        BY <2>0 DEF Flights, Stages
      <3> HIDE DEF f
      <3> QED BY <1>f, <2>0, <3>2, <3>3 DEF TypeOK
    <2> QED BY <2>1, <2>2
  <1>12. ASSUME NEW u \in Uris, fetchAndParse(u) PROVE TypeOK'
    <2>0. /\ UNCHANGED <<now, published, entry, lastRefresh, handle, pc, job>>
          /\ flight[u] \in Flights /\ published[u] \in KeySets /\ now \in Time
      BY <1>12 DEF fetchAndParse, TypeOK
    <2>1. CASE Landed(u, TRUE, [keys |-> published[u], at |-> now], "store")
      <3> DEFINE a == [keys |-> published[u], at |-> now]
                 f == [flight[u] EXCEPT !.stage = "store", !.ok = TRUE, !.got = a]
      <3>1. a \in Answered
        BY <2>0, GoConstantsAssumption DEF Answered
      <3>2. flight' = [flight EXCEPT ![u] = f]
        BY <2>1 DEF Landed
      <3> HIDE DEF a
      <3>3. f \in Flights
        BY <2>0, <3>1 DEF Flights, Stages
      <3> HIDE DEF f
      <3> QED BY <1>f, <2>0, <3>2, <3>3 DEF TypeOK
    <2>2. CASE Landed(u, FALSE, NoKeys, "deliver")
      <3> DEFINE f == [flight[u] EXCEPT !.stage = "deliver", !.ok = FALSE, !.got = NoKeys]
      <3>2. flight' = [flight EXCEPT ![u] = f]
        BY <2>2 DEF Landed
      <3>3. f \in Flights
        BY <2>0, NoJobType DEF Flights, Stages
      <3> HIDE DEF f
      <3> QED BY <1>f, <2>0, <3>2, <3>3 DEF TypeOK
    <2> QED BY <1>12, <2>1, <2>2 DEF fetchAndParse
  <1>13. ASSUME NEW u \in Uris, Store(u) PROVE TypeOK'
    <2> DEFINE a == flight[u].got
               f == [flight[u] EXCEPT !.stage = "deliver"]
               new == [got |-> a, expiresAt |-> now + TTL]
    <2>0. /\ UNCHANGED <<now, published, handle, pc, job>>
          /\ flight[u] \in Flights /\ store(u, a) /\ now \in Time
          /\ a \in Answered /\ a.keys # {}
      BY <1>13 DEF Store, TypeOK, FlightInv, Flights
    <2>1. flight' = [flight EXCEPT ![u] = f]
      BY <1>13 DEF Store, Flying
    <2>2. f \in Flights
      BY <2>0 DEF Flights, Stages
    <2>3. new \in cacheEntry
      <3>1. a \in [keys : (SUBSET Kids) \ {{}}, at : Time]
        BY <2>0 DEF Answered
      <3> HIDE DEF a
      <3> QED BY <2>0, <3>1, Numbers DEF cacheEntry, Time
    <2> HIDE DEF new, f
    <2>4. entry' \in [Uris -> cacheEntry \cup {NoEntry}]
      BY <2>0, <2>3 DEF store, TypeOK, new
    <2>5. lastRefresh' \in [Uris -> Time \cup {NoMark}]
      BY <2>0 DEF store, TypeOK
    <2> QED BY <1>f, <2>0, <2>1, <2>2, <2>4, <2>5
  <1>14. ASSUME NEW u \in Uris, Deliver(u) PROVE TypeOK'
    <2>0. /\ UNCHANGED <<now, published, entry, lastRefresh, handle>>
          /\ flight[u] \in Flights
      BY <1>14 DEF Deliver, TypeOK
    <2>1. flight' \in [Uris -> Flights]
      BY <1>14, NoFlightType DEF Deliver, TypeOK
    <2>2. pc' \in [Callers -> Labels]
      BY <1>14 DEF Deliver, TypeOK, Labels
    <2>3. job' \in [Callers -> Jobs]
      <3>1. ASSUME NEW c \in Callers
            PROVE  /\ [job[c] EXCEPT !.got = flight[u].got] \in Jobs
                   /\ [job[c] EXCEPT !.result = "error"] \in Jobs
        <4>1. job[c] \in Jobs /\ flight[u].got \in Answered
          BY <2>0 DEF TypeOK, Flights
        <4> QED BY <4>1 DEF Jobs, Results
      <3> QED BY <1>14, <3>1 DEF Deliver, TypeOK
    <2> QED BY <1>o, <2>0, <2>1, <2>2, <2>3 DEF TypeOK
  <1>15. CASE ClearCache
    BY <1>15, <1>o DEF ClearCache, TypeOK
  <1>16. ASSUME NEW u \in Uris, NEW S \in KeySets, Rotate(u, S) PROVE TypeOK'
    BY <1>16, <1>o DEF Rotate, TypeOK
  <1>17. CASE Tick
    <2>1. now' \in Time
      BY <1>17, Numbers DEF Tick, TypeOK, Time
    <2> QED BY <1>17, <1>o, <2>1 DEF Tick, TypeOK
  <1>18. CASE UNCHANGED vars
    BY <1>18 DEF vars, TypeOK
  <1> QED BY <1>1, <1>2, <1>3, <1>4, <1>5, <1>6, <1>7, <1>8, <1>9, <1>10, <1>11, <1>12, <1>13,
             <1>14, <1>15, <1>16, <1>17, <1>18
          DEF Next, CallerStep, FlightStep

-----------------------------------------------------------------------------
(* The age of the keys                                                     *)

\* The numbers of a state in Nat.
LEMMA Instants ==
    ASSUME TypeOK
    PROVE  /\ now \in Nat
           /\ \A u \in Uris : flight[u].since \in Nat /\ flight[u].got.at \in Nat
           /\ \A u \in Uris : entry[u] # NoEntry =>
                /\ entry[u].got.at \in Nat /\ entry[u].expiresAt \in Nat
           /\ \A c \in Callers : job[c].began \in Nat /\ job[c].got.at \in Nat
  <1>1. now \in Nat
    BY Numbers DEF TypeOK
  <1>2. ASSUME NEW u \in Uris PROVE flight[u].since \in Nat /\ flight[u].got.at \in Nat
    <2>1. flight[u].since \in Time /\ flight[u].got.at \in Time
      BY DEF TypeOK, Flights, Answered
    <2> QED BY <2>1, Numbers
  <1>3. ASSUME NEW u \in Uris, entry[u] # NoEntry
        PROVE  entry[u].got.at \in Nat /\ entry[u].expiresAt \in Nat
    <2>1. entry[u] \in cacheEntry
      BY <1>3 DEF TypeOK
    <2>2. entry[u].got.at \in Time /\ entry[u].expiresAt \in 0..(MaxTime + TTL)
      BY <2>1 DEF cacheEntry
    <2> QED BY <2>2, Numbers
  <1>4. ASSUME NEW c \in Callers PROVE job[c].began \in Nat /\ job[c].got.at \in Nat
    <2>1. job[c].began \in Time /\ job[c].got.at \in Time
      BY DEF TypeOK, Jobs, Answered
    <2> QED BY <2>1, Numbers
  <1> QED BY <1>1, <1>2, <1>3, <1>4

\* What a hit returns was served less than one TTL and one flight ago.
LEMMA HitAge ==
    ASSUME TypeOK, NEW u \in Uris, EntryInv(u), lookup(u)
    PROVE  entry[u].got.at > now - TTL - MaxFlight
  <1>1. /\ now < entry[u].expiresAt /\ entry[u] # NoEntry
        /\ entry[u].got.at >= entry[u].expiresAt - TTL - MaxFlight
    BY DEF EntryInv, lookup
  <1>2. entry[u].got.at \in Nat /\ entry[u].expiresAt \in Nat /\ now \in Nat
    BY <1>1, Instants
  <1> QED BY <1>1, <1>2, Numbers

\* Every step keeps what flights carry.
LEMMA FlightInvStep ==
    ASSUME TypeOK, AgeInv, [Next]_vars
    PROVE  \A v \in Uris : FlightInv(v)'
  <1>n. \A u \in Uris : FlightInv(u) /\ EntryInv(u)
    BY DEF AgeInv
  <1>f. ASSUME NEW v \in Uris, flight'[v] = flight[v], now' = now PROVE FlightInv(v)'
    BY <1>n, <1>f DEF FlightInv
  <1>u. ASSUME UNCHANGED <<flight, now>> PROVE \A v \in Uris : FlightInv(v)'
    BY <1>u, <1>f
  <1>1. ASSUME NEW c \in Callers, NEW op \in Ops, NEW h \in Handles, NEW kid \in Kids,
               Begin(c, op, h, kid)
        PROVE  \A v \in Uris : FlightInv(v)'
    BY <1>1, <1>u DEF Begin
  <1>2. ASSUME NEW c \in Callers,
               Throttle(c) \/ Invalidate(c) \/ Lookup(c) \/ Cancel(c) \/ Fetched(c) \/ Swap(c)
               \/ Again(c) \/ Return(c)
        PROVE  \A v \in Uris : FlightInv(v)'
    BY <1>2, <1>u
    DEF Throttle, Invalidate, Lookup, Cancel, Fetched, Swap, Again, Return
  <1>3. ASSUME NEW c \in Callers, Join(c) PROVE \A v \in Uris : FlightInv(v)'
    <2> DEFINE f == [NoFlight EXCEPT !.stage = "recheck", !.since = now]
    <2>1. CASE flight[Uri(c)] = NoFlight
      <3>1. flight' = [flight EXCEPT ![Uri(c)] = f] /\ now' = now
        BY <1>3, <2>1 DEF Join
      <3>2. f.stage = "recheck" /\ f.since = now
        BY DEF NoFlight
      <3> HIDE DEF f
      <3>3. flight'[Uri(c)] = f /\ \A v \in Uris \ {Uri(c)} : flight'[v] = flight[v]
        BY <3>1, UriType DEF TypeOK
      <3>4. FlightInv(Uri(c))'
        <4>1. now <= now + MaxFlight /\ now <= now
          BY Instants, Numbers
        <4>2. Uri(c)' = Uri(c)
          BY <1>3 DEF Join, Uri
        <4>3. flight'[Uri(c)].stage = "recheck" /\ flight'[Uri(c)].since = now
          BY <3>2, <3>3
        <4> QED BY <3>1, <4>1, <4>2, <4>3 DEF FlightInv
      <3>5. \A v \in Uris : v = Uri(c) \/ flight'[v] = flight[v]
        BY <3>3
      <3>6. Uri(c)' = Uri(c)
        BY <1>3 DEF Join, Uri
      <3> QED BY <1>f, <3>1, <3>4, <3>5, <3>6
    <2>2. CASE flight[Uri(c)] # NoFlight
      BY <1>3, <1>u, <2>2 DEF Join
    <2> QED BY <2>1, <2>2
  <1>4. ASSUME NEW u \in Uris, Recheck(u) PROVE \A v \in Uris : FlightInv(v)'
    <2>0. now' = now /\ flight[u].stage = "recheck" /\ flight[u] # NoFlight
      BY <1>4, NoFlightType DEF Recheck
    <2>s. flight[u].since <= now /\ now <= flight[u].since + MaxFlight
      BY <1>n, <2>0 DEF FlightInv
    <2>1. CASE lookup(u)
      <3>1. Landed(u, TRUE, entry[u].got, "deliver")
        BY <1>4, <2>1 DEF Recheck
      <3>2. entry[u].got.at > now - TTL - MaxFlight /\ entry[u].got.at \in Nat
        BY <1>n, <2>1, HitAge, Instants DEF lookup
      <3>3. entry[u].got.at > flight[u].since - TTL - MaxFlight
        BY <2>s, <3>2, Instants, Numbers
      <3>4. FlightInv(u)'
        <4>1. /\ flight'[u].stage = "deliver" /\ flight'[u].since = flight[u].since
              /\ flight'[u].got = entry[u].got /\ flight'[u].ok = TRUE
          BY <3>1, LandedFields, ZenonT(30)
        <4>2. flight'[u].ok
          BY <4>1
        <4> QED BY <2>0, <2>s, <3>3, <4>1, <4>2 DEF FlightInv
      <3> QED BY <1>f, <2>0, <3>1, <3>4, LandedFields
    <2>2. CASE ~lookup(u)
      <3>1. Flying(u, "request")
        BY <1>4, <2>2 DEF Recheck
      <3>2. FlightInv(u)'
        BY <2>0, <2>s, <3>1, FlyingFields DEF FlightInv
      <3> QED BY <1>f, <2>0, <3>1, <3>2, FlyingFields
    <2> QED BY <2>1, <2>2
  <1>5. ASSUME NEW u \in Uris, fetchAndParse(u) PROVE \A v \in Uris : FlightInv(v)'
    <2>0. now' = now /\ flight[u].stage = "request" /\ flight[u] # NoFlight
      BY <1>5, NoFlightType DEF fetchAndParse
    <2>s. flight[u].since <= now /\ now <= flight[u].since + MaxFlight
      BY <1>n, <2>0 DEF FlightInv
    <2> DEFINE a == [keys |-> published[u], at |-> now]
    <2>1. CASE Landed(u, TRUE, a, "store")
      <3>1. a.keys # {} /\ a.at = now
        <4>1. published[u] \in KeySets
          BY DEF TypeOK
        <4>2. published[u] # {}
          BY <4>1, GoConstantsAssumption
        <4> QED BY <4>2
      <3>2. now >= flight[u].since /\ now > flight[u].since - TTL - MaxFlight
        BY <2>s, Instants, Numbers
      <3> HIDE DEF a
      <3>4. FlightInv(u)'
        BY <2>0, <2>s, <2>1, <3>1, <3>2, LandedFields DEF FlightInv
      <3> QED BY <1>f, <2>0, <2>1, <3>4, LandedFields
    <2>2. CASE u \in Outages /\ Landed(u, FALSE, NoKeys, "deliver")
      <3>1. FlightInv(u)'
        <4>1. /\ flight'[u].stage = "deliver" /\ flight'[u].since = flight[u].since
              /\ flight'[u].ok = FALSE
          BY <2>2, LandedFields, ZenonT(30)
        <4>2. ~flight'[u].ok
          BY <4>1
        <4> QED BY <2>0, <2>s, <2>2, <4>1, <4>2 DEF FlightInv
      <3> QED BY <1>f, <2>0, <2>2, <3>1, LandedFields
    <2> QED BY <1>5, <2>1, <2>2 DEF fetchAndParse
  <1>6. ASSUME NEW u \in Uris, Store(u) PROVE \A v \in Uris : FlightInv(v)'
    <2>0. now' = now /\ flight[u].stage = "store" /\ flight[u] # NoFlight /\ Flying(u, "deliver")
      BY <1>6, NoFlightType DEF Store
    <2>1. /\ flight[u].since <= now /\ now <= flight[u].since + MaxFlight
          /\ flight[u].ok /\ flight[u].got.at > flight[u].since - TTL - MaxFlight
      BY <1>n, <2>0 DEF FlightInv
    <2>2. FlightInv(u)'
      BY <2>0, <2>1, FlyingFields DEF FlightInv
    <2> QED BY <1>f, <2>0, <2>2, FlyingFields
  <1>7. ASSUME NEW u \in Uris, Deliver(u) PROVE \A v \in Uris : FlightInv(v)'
    <2>1. flight'[u] = NoFlight /\ now' = now /\ \A v \in Uris \ {u} : flight'[v] = flight[v]
      BY <1>7 DEF Deliver, TypeOK
    <2>2. FlightInv(u)'
      BY <2>1, NoFlightType DEF FlightInv
    <2> QED BY <1>f, <2>1, <2>2
  <1>8. ASSUME NEW u \in Uris, NEW S \in KeySets, Rotate(u, S)
        PROVE  \A v \in Uris : FlightInv(v)'
    BY <1>8, <1>u DEF Rotate
  <1>9. CASE Tick
    <2> SUFFICES ASSUME NEW v \in Uris PROVE FlightInv(v)'
      OBVIOUS
    <2>1. flight' = flight /\ now' = now + 1
          /\ (flight[v] # NoFlight => now < flight[v].since + MaxFlight)
      BY <1>9 DEF Tick
    <2>2. flight[v] # NoFlight => flight[v].since <= now'
                                  /\ now' <= flight[v].since + MaxFlight
      BY <1>n, <2>1, Instants, Numbers DEF FlightInv
    <2> QED BY <1>n, <2>1, <2>2 DEF FlightInv
  <1>10. CASE ClearCache \/ UNCHANGED vars
    BY <1>10, <1>u DEF ClearCache, vars
  <1> QED BY <1>1, <1>2, <1>3, <1>4, <1>5, <1>6, <1>7, <1>8, <1>9, <1>10
          DEF Next, CallerStep, FlightStep

\* Only Store, Invalidate and ClearCache change entries.
LEMMA EntryChanges ==
    ASSUME TypeOK, [Next]_vars, NEW v \in Uris
    PROVE  \/ entry'[v] = entry[v]
           \/ entry'[v] = NoEntry
           \/ /\ Store(v)
              /\ entry'[v].got = flight[v].got /\ entry'[v].expiresAt = now + TTL
  <1>1. ASSUME NEW c \in Callers, Invalidate(c)
        PROVE  entry'[v] = entry[v] \/ entry'[v] = NoEntry
    BY <1>1, InvalidateFields
  <1>2. ASSUME NEW u \in Uris, Store(u)
        PROVE  \/ entry'[v] = entry[v]
               \/ entry'[v] = NoEntry
               \/ /\ u = v
                  /\ entry'[v].got = flight[v].got /\ entry'[v].expiresAt = now + TTL
    <2>1. store(u, flight[u].got)
      BY <1>2 DEF Store
    <2>2. \/ entry'[v] = NoEntry
          \/ entry'[v] = entry[v]
          \/ v = u /\ entry'[v] = [got |-> flight[u].got, expiresAt |-> now + TTL]
      BY <2>1, StoreEntries
    <2> QED BY <2>2
  <1>3. ASSUME NEW c \in Callers, NEW op \in Ops, NEW h \in Handles, NEW kid \in Kids,
               Begin(c, op, h, kid)
        PROVE  entry' = entry
    BY <1>3 DEF Begin
  <1>4. ASSUME NEW c \in Callers,
               Throttle(c) \/ Lookup(c) \/ Join(c) \/ Cancel(c) \/ Fetched(c) \/ Swap(c)
               \/ Again(c) \/ Return(c)
        PROVE  entry' = entry
    BY <1>4 DEF Throttle, Lookup, Join, Cancel, Fetched, Swap, Again, Return
  <1>5. ASSUME NEW u \in Uris, Recheck(u) \/ fetchAndParse(u) \/ Deliver(u)
        PROVE  entry' = entry
    BY <1>5 DEF Recheck, fetchAndParse, Deliver
  <1>6. CASE ClearCache
    BY <1>6 DEF ClearCache
  <1>7. ASSUME NEW u \in Uris, NEW S \in KeySets, Rotate(u, S) PROVE entry' = entry
    BY <1>7 DEF Rotate
  <1>8. CASE Tick \/ UNCHANGED vars
    BY <1>8 DEF Tick, vars
  <1> QED BY <1>1, <1>2, <1>3, <1>4, <1>5, <1>6, <1>7, <1>8
          DEF Next, CallerStep, FlightStep

\* Every step keeps the age of the entries.
LEMMA EntryInvStep ==
    ASSUME TypeOK, AgeInv, [Next]_vars
    PROVE  \A v \in Uris : EntryInv(v)'
  <1> SUFFICES ASSUME NEW v \in Uris PROVE EntryInv(v)'
    OBVIOUS
  <1>n. FlightInv(v) /\ EntryInv(v)
    BY DEF AgeInv
  <1>1. CASE entry'[v] = entry[v] \/ entry'[v] = NoEntry
    BY <1>n, <1>1 DEF EntryInv
  <1>2. CASE Store(v) /\ entry'[v].got = flight[v].got /\ entry'[v].expiresAt = now + TTL
    <2>1. flight[v].got.at >= flight[v].since /\ now <= flight[v].since + MaxFlight
      BY <1>n, <1>2, NoFlightType DEF Store, FlightInv
    <2>2. flight[v].got.at >= now - MaxFlight
      BY <2>1, Instants, Numbers
    <2>3. entry'[v].got.at >= entry'[v].expiresAt - TTL - MaxFlight
      BY <1>2, <2>2, Instants, Numbers
    <2> QED BY <2>3 DEF EntryInv
  <1> QED BY <1>1, <1>2, EntryChanges

\* Whatever can answer for a URI stays as recent as it is: what enters the cache comes
\* from a flight, and what enters a flight comes from the cache or from the provider.
LEMMA FreshKept ==
    ASSUME TypeOK, AgeInv, [Next]_vars, NEW v \in Uris, NEW t \in Nat, t <= now,
           FreshSince(v, t)
    PROVE  FreshSince(v, t)'
  <1>n. FlightInv(v)
    BY DEF AgeInv
  <1>e. entry'[v] # NoEntry => entry'[v].got.at >= t
    <2>1. CASE entry'[v] = entry[v] \/ entry'[v] = NoEntry
      BY <2>1 DEF FreshSince
    <2>2. CASE Store(v) /\ entry'[v].got = flight[v].got
      BY <1>n, <2>2 DEF FreshSince, Store, FlightInv
    <2> QED BY <2>1, <2>2, EntryChanges
  <1>f. ASSUME \/ flight'[v] = flight[v]
               \/ flight'[v].stage \notin {"store", "deliver"}
               \/ ~flight'[v].ok
               \/ flight'[v].got.at >= t
        PROVE  FreshSince(v, t)'
    BY <1>e, <1>f DEF FreshSince
  <1>u. ASSUME flight' = flight PROVE FreshSince(v, t)'
    BY <1>u, <1>f
  <1>1. ASSUME NEW c \in Callers, NEW op \in Ops, NEW h \in Handles, NEW kid \in Kids,
               Begin(c, op, h, kid)
        PROVE  FreshSince(v, t)'
    BY <1>1, <1>u DEF Begin
  <1>2. ASSUME NEW c \in Callers,
               Throttle(c) \/ Invalidate(c) \/ Lookup(c) \/ Cancel(c) \/ Fetched(c) \/ Swap(c)
               \/ Again(c) \/ Return(c)
        PROVE  FreshSince(v, t)'
    BY <1>2, <1>u
    DEF Throttle, Invalidate, Lookup, Cancel, Fetched, Swap, Again, Return
  <1>3. ASSUME NEW c \in Callers, Join(c) PROVE FreshSince(v, t)'
    <2> DEFINE f == [NoFlight EXCEPT !.stage = "recheck", !.since = now]
    <2>1. flight' = [flight EXCEPT ![Uri(c)] = f] \/ flight' = flight
      BY <1>3 DEF Join
    <2>2. f.stage = "recheck"
      BY DEF NoFlight
    <2> HIDE DEF f
    <2>3. flight'[v] = flight[v] \/ flight'[v].stage = "recheck"
      BY <2>1, <2>2 DEF TypeOK
    <2> QED BY <1>f, <2>3
  <1>4. ASSUME NEW u \in Uris, Recheck(u) PROVE FreshSince(v, t)'
    <2>1. CASE lookup(u)
      <3>1. Landed(u, TRUE, entry[u].got, "deliver")
        BY <1>4, <2>1 DEF Recheck
      <3>2. flight'[v] = flight[v] \/ flight'[v].got.at >= t
        <4>1. flight'[u].got = entry[u].got
          BY <3>1 DEF Landed, TypeOK, Flights
        <4>3. v # u => flight'[v] = flight[v]
          BY <3>1 DEF Landed, TypeOK
        <4>2. u = v => entry[v].got.at >= t
          BY <2>1 DEF FreshSince, lookup
        <4> QED BY <4>1, <4>2, <4>3
      <3> QED BY <1>f, <3>2
    <2>2. CASE ~lookup(u)
      <3>1. Flying(u, "request")
        BY <1>4, <2>2 DEF Recheck
      <3>2. flight'[v] = flight[v] \/ flight'[v].stage = "request"
        BY <3>1, FlyingFields
      <3> QED BY <1>f, <3>2
    <2> QED BY <2>1, <2>2
  <1>5. ASSUME NEW u \in Uris, fetchAndParse(u) PROVE FreshSince(v, t)'
    <2> DEFINE a == [keys |-> published[u], at |-> now]
    <2>1. CASE Landed(u, TRUE, a, "store")
      <3>1. a.at >= t
        OBVIOUS
      <3> HIDE DEF a
      <3>2. flight'[v] = flight[v] \/ flight'[v].got.at >= t
        BY <2>1, <3>1, LandedFields
      <3> QED BY <1>f, <3>2
    <2>2. CASE Landed(u, FALSE, NoKeys, "deliver")
      <3>1. flight'[v] = flight[v] \/ flight'[v].ok = FALSE
        BY <2>2, LandedFields
      <3> QED BY <1>f, <3>1
    <2> QED BY <1>5, <2>1, <2>2 DEF fetchAndParse
  <1>6. ASSUME NEW u \in Uris, Store(u) PROVE FreshSince(v, t)'
    <2>1. Flying(u, "deliver") /\ flight[u].stage = "store"
      BY <1>6 DEF Store
    <2>2. CASE u = v
      <3>1. flight[v].got.at >= t
        BY <1>n, <2>1, <2>2 DEF FreshSince, FlightInv
      <3>2. flight'[v].got.at >= t
        BY <2>1, <2>2, <3>1, FlyingFields
      <3> QED BY <1>f, <3>2
    <2>3. CASE u # v
      BY <1>f, <2>1, <2>3, FlyingFields
    <2> QED BY <2>2, <2>3
  <1>7. ASSUME NEW u \in Uris, Deliver(u) PROVE FreshSince(v, t)'
    <2>1. flight'[v] = flight[v] \/ flight'[v].stage = "none"
      BY <1>7, NoFlightType DEF Deliver, TypeOK
    <2> QED BY <1>f, <2>1
  <1>8. ASSUME NEW u \in Uris, NEW S \in KeySets, Rotate(u, S) PROVE FreshSince(v, t)'
    BY <1>8, <1>u DEF Rotate
  <1>9. CASE ClearCache \/ Tick \/ UNCHANGED vars
    BY <1>9, <1>u DEF ClearCache, Tick, vars
  <1> QED BY <1>1, <1>2, <1>3, <1>4, <1>5, <1>6, <1>7, <1>8, <1>9
          DEF Next, CallerStep, FlightStep

\* A caller that does not move keeps what it knows.
LEMMA CallerFrame ==
    ASSUME TypeOK, AgeInv, [Next]_vars, NEW d \in Callers,
           pc'[d] = pc[d], job'[d] = job[d], now <= now', now' \in Nat
    PROVE  CallerInv(d)'
  <1>1. CallerInv(d)
    BY DEF AgeInv
  <1>2. Uri(d)' = Uri(d) /\ Uri(d) \in Uris
    BY UriType DEF Uri
  <1>3. job[d].began \in Nat /\ now \in Nat /\ job[d].began <= now
    BY <1>1, Instants DEF CallerInv
  <1>4. job'[d].began <= now'
    BY <1>3
  <1>5. FreshSince(Uri(d), job[d].began) => FreshSince(Uri(d), job[d].began)'
    <2>1. ASSUME NEW v \in Uris, NEW t \in Nat, t <= now, v = Uri(d), t = job[d].began,
                 FreshSince(Uri(d), job[d].began)
          PROVE  FreshSince(Uri(d), job[d].began)'
      <3>1. FreshSince(v, t)'
        BY <2>1, FreshKept
      <3> QED BY <1>2, <2>1, <3>1 DEF FreshSince
    <2> QED BY <1>2, <1>3, <2>1
  <1> QED BY <1>1, <1>2, <1>4, <1>5 DEF CallerInv

\* Every step keeps what callers know.
LEMMA CallerInvStep ==
    ASSUME TypeOK, AgeInv, [Next]_vars
    PROVE  \A d \in Callers : CallerInv(d)'
  <1>n. /\ \A d \in Callers : CallerInv(d) /\ job[d].began <= now
        /\ \A u \in Uris : FlightInv(u) /\ EntryInv(u)
        /\ now \in Nat
    BY Instants DEF AgeInv, CallerInv
  <1>u. ASSUME UNCHANGED <<pc, job>>, now' \in Nat, now <= now'
        PROVE  \A d \in Callers : CallerInv(d)'
    BY <1>u, CallerFrame
  \* Only c moves.
  <1>m. ASSUME NEW c \in Callers, now' = now, CallerInv(c)',
               \A d \in Callers \ {c} : pc'[d] = pc[d] /\ job'[d] = job[d]
        PROVE  \A d \in Callers : CallerInv(d)'
    <2>1. ASSUME NEW d \in Callers, d # c PROVE CallerInv(d)'
      BY <1>m, <1>n, <2>1, CallerFrame
    <2> QED BY <1>m, <2>1
  \* c ends.
  <1>d. ASSUME NEW c \in Callers, NEW r \in Results \ {"error"}, Done(c, r), now' = now,
               r \in {"opened", "refreshed"} => pc[c] \in Held
        PROVE  \A d \in Callers : CallerInv(d)'
    <2>1. CallerInv(c)
      BY <1>n
    <2>2. CallerInv(c)'
      BY <1>d, <1>n, <2>1, DoneFields DEF CallerInv, Held
    <2> QED BY <1>d, <1>m, <2>2, DoneFields
  \* c moves on with what it has, to a place where nothing more is known.
  <1>g. ASSUME NEW c \in Callers, NEW l \in Labels, GoTo(c, l), now' = now, job' = job,
               pc[c] # "returned",
               l \in Held => pc[c] \in Held,
               l \notin {"lookup", "join", "wait", "returned"}
        PROVE  \A d \in Callers : CallerInv(d)'
    <2>1. CallerInv(c) /\ Uri(c)' = Uri(c)
      BY <1>g, <1>n DEF Uri
    <2>2. CallerInv(c)'
      BY <1>g, <2>1, GoToFields DEF CallerInv
    <2> QED BY <1>g, <1>m, <2>2, GoToFields
  \* c is on its way to an answer.
  <1>w. ASSUME NEW c \in Callers, NEW l \in {"join", "wait"}, GoTo(c, l), now' = now, job' = job,
               pc[c] \in {"lookup", "join"}
        PROVE  \A d \in Callers : CallerInv(d)'
    <2>1. CallerInv(c) /\ Uri(c)' = Uri(c) /\ Uri(c) \in Uris /\ job[c].began \in Nat
      BY <1>w, <1>n, UriType, Instants DEF Uri
    <2>2. FreshSince(Uri(c), job[c].began) => FreshSince(Uri(c), job[c].began)'
      <3>1. ASSUME NEW v \in Uris, NEW t \in Nat, t <= now, v = Uri(c), t = job[c].began,
                   FreshSince(Uri(c), job[c].began)
            PROVE  FreshSince(Uri(c), job[c].began)'
        <4>1. FreshSince(v, t)'
          BY <3>1, FreshKept
        <4> QED BY <1>w, <2>1, <3>1, <4>1 DEF FreshSince
      <3> QED BY <1>n, <2>1, <3>1
    <2>3. CallerInv(c)'
      BY <1>w, <2>1, <2>2, GoToFields DEF CallerInv, Held
    <2> QED BY <1>w, <1>m, <2>3, GoToFields
  <1>1. ASSUME NEW c \in Callers, NEW op \in Ops, NEW h \in Handles, NEW kid \in Kids,
               Begin(c, op, h, kid)
        PROVE  \A d \in Callers : CallerInv(d)'
    <2> DEFINE j == [NoJob EXCEPT !.op = op, !.h = h,
                        !.kid = IF op = "resolve" THEN kid ELSE NoJob.kid, !.began = now,
                        !.result = IF op = "resolve" /\ kid \in handle[h] THEN "found"
                                   ELSE "none"]
               l == IF op = "open" THEN "lookup"
                    ELSE IF op = "force" THEN "invalidate"
                    ELSE IF kid \in handle[h] THEN "returned" ELSE "throttle"
    <2>1. job' = [job EXCEPT ![c] = j] /\ GoTo(c, l) /\ now' = now
      BY <1>1 DEF Begin
    <2>2. /\ j.began = now /\ j.quiet = FALSE
          /\ j.result = IF op = "resolve" /\ kid \in handle[h] THEN "found" ELSE "none"
      BY DEF NoJob
    <2>3. l # "returned" => j.result = "none"
      BY <2>2, GoConstantsAssumption
    <2>4. l \notin Held /\ j.result \in {"none", "found"}
      BY <2>2 DEF Held
    <2> HIDE DEF j, l
    <2>5. job'[c] = j /\ pc'[c] = l
          /\ \A d \in Callers \ {c} : pc'[d] = pc[d] /\ job'[d] = job[d]
      BY <2>1, GoToFields DEF TypeOK
    <2>6. CallerInv(c)'
      BY <1>n, <2>1, <2>2, <2>3, <2>4, <2>5 DEF CallerInv
    <2> QED BY <1>m, <2>1, <2>5, <2>6
  <1>2. ASSUME NEW c \in Callers, Throttle(c) PROVE \A d \in Callers : CallerInv(d)'
    <2>1. CASE refreshThrottled(Uri(c))
      BY <1>2, <1>d, <2>1 DEF Throttle, Results
    <2>2. CASE ~refreshThrottled(Uri(c))
      BY <1>2, <1>g, <2>2 DEF Throttle, Labels, Held
    <2> QED BY <2>1, <2>2
  <1>3. ASSUME NEW c \in Callers, Invalidate(c) PROVE \A d \in Callers : CallerInv(d)'
    <2>0. pc[c] = "invalidate" /\ now' = now /\ flight' = flight /\ CallerInv(c)
      BY <1>3, <1>n DEF Invalidate
    <2>1. Uri(c)' = Uri(c) /\ Uri(c) \in Uris
      BY <1>3, UriType, InvalidateFields DEF Uri
    <2>2. job'[c].quiet => FreshSince(Uri(c), job[c].began)'
      BY <1>3, <2>0, <2>1, NoFlightType, InvalidateFields, ZenonT(30) DEF FreshSince
    <2>3. CallerInv(c)'
      BY <1>3, <2>0, <2>1, <2>2, InvalidateFields DEF CallerInv, Held
    <2> QED BY <1>3, <1>m, <2>0, <2>3, InvalidateFields
  <1>4. ASSUME NEW c \in Callers, Lookup(c) PROVE \A d \in Callers : CallerInv(d)'
    <2>0. pc[c] = "lookup" /\ now' = now /\ CallerInv(c) /\ Uri(c) \in Uris
      BY <1>4, <1>n, UriType DEF Lookup
    <2>1. CASE lookup(Uri(c))
      <3> DEFINE a == entry[Uri(c)].got
      <3>1. job' = Got(c, a) /\ GoTo(c, "fetched") /\ entry[Uri(c)] # NoEntry
        BY <1>4, <2>1 DEF Lookup, lookup
      <3>2. a.at > now - TTL - MaxFlight /\ a.at \in Nat /\ job[c].began \in Nat
        BY <1>n, <2>0, <2>1, <3>1, HitAge, Instants
      <3>3. a.at > job[c].began - TTL - 2 * MaxFlight
        BY <1>n, <2>0, <3>2, Numbers
      <3>4. job[c].quiet => a.at >= job[c].began
        BY <2>0, <3>1 DEF CallerInv, FreshSince
      <3> HIDE DEF a
      <3>5. CallerInv(c)'
        <4>1. Uri(c)' = Uri(c)
          BY <3>1, GotFields DEF Uri
        <4> QED BY <2>0, <3>1, <3>3, <3>4, <4>1, GotFields, GoToFields DEF CallerInv, Held
      <3> QED BY <1>m, <2>0, <3>1, <3>5, GotFields, GoToFields
    <2>2. CASE ~lookup(Uri(c))
      BY <1>4, <1>w, <2>0, <2>2 DEF Lookup
    <2> QED BY <2>1, <2>2
  <1>5. ASSUME NEW c \in Callers, Join(c) PROVE \A d \in Callers : CallerInv(d)'
    BY <1>5, <1>w DEF Join
  <1>6. ASSUME NEW c \in Callers, Cancel(c) PROVE \A d \in Callers : CallerInv(d)'
    BY <1>6, <1>d DEF Cancel, Results
  <1>7. ASSUME NEW c \in Callers, Fetched(c) PROVE \A d \in Callers : CallerInv(d)'
    <2>1. CASE job[c].op = "open"
      BY <1>7, <1>d, <2>1 DEF Fetched, Results, Held
    <2>2. CASE job[c].op # "open"
      BY <1>7, <1>g, <2>2 DEF Fetched, Labels, Held
    <2> QED BY <2>1, <2>2
  <1>8. ASSUME NEW c \in Callers, Swap(c) PROVE \A d \in Callers : CallerInv(d)'
    <2>1. CASE job[c].op = "force"
      BY <1>8, <1>d, <2>1 DEF Swap, Results, Held
    <2>2. CASE job[c].op # "force"
      BY <1>8, <1>g, <2>2 DEF Swap, Labels, Held
    <2> QED BY <2>1, <2>2
  <1>9. ASSUME NEW c \in Callers, Again(c) PROVE \A d \in Callers : CallerInv(d)'
    <2>1. PICK r \in {"found", "not_found"} : Done(c, r)
      BY <1>9 DEF Again
    <2>2. r \in Results \ {"error"} /\ now' = now
      BY <1>9 DEF Again, Results
    <2> QED BY <1>d, <2>1, <2>2
  <1>10. ASSUME NEW c \in Callers, Return(c) PROVE \A d \in Callers : CallerInv(d)'
    <2>1. /\ pc'[c] = "idle" /\ job'[c] = NoJob /\ now' = now
          /\ \A d \in Callers \ {c} : pc'[d] = pc[d] /\ job'[d] = job[d]
      BY <1>10, GoToFields DEF Return, TypeOK
    <2>2. NoJob.began = 0 /\ NoJob.result = "none"
      BY DEF NoJob
    <2>3. CallerInv(c)'
      BY <1>n, <2>1, <2>2 DEF CallerInv, Held
    <2> QED BY <1>m, <2>1, <2>3
  <1>11. ASSUME NEW u \in Uris, Recheck(u) \/ fetchAndParse(u) \/ Store(u)
         PROVE  \A d \in Callers : CallerInv(d)'
    <2>1. UNCHANGED <<pc, job>> /\ now' = now
      BY <1>11 DEF Recheck, fetchAndParse, Store
    <2>2. now' \in Nat /\ now <= now'
      BY <1>n, <2>1
    <2> QED BY <1>u, <2>1, <2>2
  <1>12. ASSUME NEW u \in Uris, Deliver(u) PROVE \A d \in Callers : CallerInv(d)'
    <2> SUFFICES ASSUME NEW c \in Callers PROVE CallerInv(c)'
      OBVIOUS
    <2>0. /\ now' = now /\ CallerInv(c) /\ FlightInv(u) /\ flight[u].stage = "deliver"
          /\ flight[u] # NoFlight
      BY <1>12, <1>n, NoFlightType DEF Deliver
    <2>1. CASE ~(pc[c] = "wait" /\ Uri(c) = u)
      BY <1>12, <1>n, <2>0, <2>1, DeliverFields, CallerFrame
    <2>2. CASE pc[c] = "wait" /\ Uri(c) = u /\ flight[u].ok
      <3>1. /\ pc'[c] = "fetched" /\ job'[c].got = flight[u].got
            /\ job'[c].result = job[c].result /\ job'[c].h = job[c].h
            /\ job'[c].began = job[c].began /\ job'[c].quiet = job[c].quiet
        BY <1>12, <2>2, DeliverFields
      <3>2. flight[u].got.at > job[c].began - TTL - 2 * MaxFlight
        <4>1. /\ flight[u].got.at > flight[u].since - TTL - MaxFlight
              /\ now <= flight[u].since + MaxFlight
              /\ flight[u].since <= now /\ job[c].began <= now
          BY <1>n, <2>0, <2>2 DEF FlightInv
        <4>2. \/ flight[u].since >= job[c].began - MaxFlight
          BY <4>1, Instants, Numbers
        <4> QED BY <4>1, <4>2, Instants, Numbers
      <3>3. job[c].quiet => flight[u].got.at >= job[c].began
        BY <2>0, <2>2 DEF CallerInv, FreshSince
      <3>4. Uri(c)' = Uri(c)
        BY <3>1 DEF Uri
      <3> QED BY <2>0, <2>2, <3>1, <3>2, <3>3, <3>4 DEF CallerInv, Held
    <2>3. CASE pc[c] = "wait" /\ Uri(c) = u /\ ~flight[u].ok
      <3>1. /\ pc'[c] = "returned" /\ job'[c].result = "error" /\ job'[c].h = job[c].h
            /\ job'[c].began = job[c].began
        BY <1>12, <2>3, DeliverFields
      <3>2. Uri(c)' = Uri(c) /\ u \in Outages
        BY <2>0, <2>3, <3>1 DEF Uri, FlightInv
      <3> QED BY <2>0, <2>3, <3>1, <3>2 DEF CallerInv, Held
    <2> QED BY <2>1, <2>2, <2>3
  <1>13. ASSUME NEW u \in Uris, NEW S \in KeySets, Rotate(u, S)
         PROVE  \A d \in Callers : CallerInv(d)'
    BY <1>13, <1>n, <1>u DEF Rotate
  <1>14. CASE ClearCache \/ Tick \/ UNCHANGED vars
    BY <1>14, <1>n, <1>u DEF ClearCache, Tick, vars
  <1> QED BY <1>1, <1>2, <1>3, <1>4, <1>5, <1>6, <1>7, <1>8, <1>9, <1>10, <1>11, <1>12, <1>13,
             <1>14
          DEF Next, CallerStep, FlightStep

-----------------------------------------------------------------------------
(* Results                                                                 *)

IndInv == TypeOK /\ SizeInv /\ AgeInv

\* An empty cache without callers or flights satisfies the invariant.
LEMMA IndInit == Init => IndInv
  <1> SUFFICES ASSUME Init PROVE IndInv
    OBVIOUS
  <1>1. TypeOK
    <2>1. 0 \in Time
      BY Numbers DEF Time
    <2> QED BY <2>1, NoJobType, NoFlightType DEF Init, TypeOK, Labels
  <1>2. SizeInv
    <2>1. ToSet(order) = {} /\ IsInjective(order) /\ Len(order) = 0
      BY DEF Init, ToSet, IsInjective
    <2>2. Marked(lastRefresh) = {} /\ {u \in Uris : entry[u] # NoEntry} = {}
      BY DEF Init, Marked
    <2> QED BY <2>1, <2>2, FS_EmptySet, Numbers DEF SizeInv, Bounded
  <1>3. ASSUME NEW u \in Uris PROVE FlightInv(u) /\ EntryInv(u)
    BY NoFlightType DEF Init, FlightInv, EntryInv
  <1>4. ASSUME NEW c \in Callers PROVE CallerInv(c)
    <2>1. pc[c] = "idle" /\ job[c] = NoJob /\ now = 0
      BY DEF Init
    <2>2. NoJob.began = 0 /\ NoJob.result = "none"
      BY DEF NoJob
    <2> QED BY <2>1, <2>2 DEF CallerInv, Held
  <1> QED BY <1>1, <1>2, <1>3, <1>4 DEF IndInv, AgeInv

\* Every step keeps the invariant.
LEMMA IndStep == IndInv /\ [Next]_vars => IndInv'
  <1> SUFFICES ASSUME IndInv, [Next]_vars PROVE IndInv'
    OBVIOUS
  <1>1. TypeOK /\ SizeInv /\ AgeInv /\ \A u \in Uris : FlightInv(u)
    BY DEF IndInv, AgeInv
  <1>2. TypeOK' /\ SizeInv'
    BY <1>1, TypeStep, SizeStep
  <1>3. AgeInv'
    BY <1>1, FlightInvStep, EntryInvStep, CallerInvStep DEF AgeInv
  <1> QED BY <1>2, <1>3 DEF IndInv

\* The invariant holds throughout.
LEMMA Invariance == Spec => []IndInv
  BY IndInit, IndStep, PTL DEF Spec

\* Every reachable state of the Go client has the types of TypeOK; in particular no
\* empty key set is ever stored (fetchAndParse refuses one before c.store).
THEOREM TypeCorrect == Spec => []TypeOK
  <1>1. IndInv => TypeOK
    BY DEF IndInv
  <1> QED BY <1>1, Invariance, PTL

\* evictLocked and markRefresh: entries and cooldown records within maxEntries.
THEOREM BoundedHolds == Spec => []Bounded
  <1>1. IndInv => Bounded
    BY DEF IndInv, SizeInv
  <1> QED BY <1>1, Invariance, PTL

\* FetchKeySet and ForceRefresh: the age of what is returned.
THEOREM FetchedFreshHolds == Spec => []FetchedFresh
  <1>1. IndInv => FetchedFresh
    BY DEF IndInv, AgeInv, CallerInv, Held, FetchedFresh
  <1> QED BY <1>1, Invariance, PTL

\* ForceRefresh: a refresh that meets no request in progress returns keys served after
\* the call.
THEOREM QuietRefreshHolds == Spec => []QuietRefresh
  <1>1. IndInv => QuietRefresh
    BY DEF IndInv, AgeInv, CallerInv, Held, QuietRefresh
  <1> QED BY <1>1, Invariance, PTL

\* fetch: a caller that cancels does not poison the request that others wait for.
THEOREM NotPoisonedHolds == Spec => []NotPoisoned
  <1>1. IndInv => NotPoisoned
    BY DEF IndInv, AgeInv, CallerInv, NotPoisoned
  <1> QED BY <1>1, Invariance, PTL
=============================================================================
