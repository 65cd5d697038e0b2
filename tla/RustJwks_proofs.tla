--------------------------- MODULE RustJwks_proofs ---------------------------
(***************************************************************************)
(* Proofs about RustJwks, for any number of tasks, URIs and gates, any     *)
(* TTL, cooldown, bound and timeout: the types, the bounds of the cache,   *)
(* the gates that the guards give back, and what a refresh may return.     *)
(***************************************************************************)
EXTENDS RustJwks, Recency_proofs, TLAPS

\* The constants as the arithmetic of the proofs needs them.
LEMMA Numbers ==
    /\ MaxTime \in Nat /\ TTL \in Nat /\ MaxEntries \in Nat
    /\ \A t \in Time : t \in Nat /\ t <= MaxTime
    /\ NoMark \notin Time
  BY RustConstantsAssumption DEF Time, NoMark

\* The record of an idle task, and the empty key set, are well typed.
LEMMA NoJobType ==
    /\ NoJob \in Jobs /\ NoKeys \in Answered
    /\ NoJob.gate = NoGate /\ NoJob.began = 0 /\ NoJob.quiet = FALSE
  <1>1. (CHOOSE u \in Uris : TRUE) \in Uris /\ (CHOOSE k \in Kids : TRUE) \in Kids
    BY RustConstantsAssumption
  <1>2. NoKeys \in Answered
    BY Numbers DEF NoKeys, Answered, Time
  <1>3. 0 \in Time
    BY Numbers DEF Time
  <1> QED BY <1>1, <1>2, <1>3 DEF NoJob, Jobs, Results

-----------------------------------------------------------------------------
(* The inductive invariant                                                 *)

\* Where a task is while it holds a clone of a gate.
Inside == {"lock", "release"} \cup Locking

\* A task holds a gate exactly while it is inside the flight.
HoldInv == \A c \in Tasks : job[c].gate # NoGate <=> pc[c] \in Inside

\* What put is about to store is not empty.
PutInv == \A c \in Tasks : pc[c] = "put" => job[c].got.keys # {}

\* The recency order is that of the entries, and the records are finitely many, which
\* counting them takes for granted.
SizeInv == Bounded /\ IsFiniteSet(Marked(last_refresh))

\* What the cache or a request may answer for u was served at t or later.
FreshSince(u, t) ==
    /\ entry[u] # NoEntry => entry[u].got.at >= t
    /\ \A d \in Tasks : pc[d] = "put" /\ Uri(d) = u => job[d].got.at >= t

Seeking == {"get", "gate", "lock", "recheck", "request"}
Holding == {"put", "unlock", "release", "throttle", "mark", "returned"}

\* What a task knows of the age of keys: while it looks for an answer after it found no
\* request in progress, nothing older than its call can reach it; then it holds keys
\* served after its call, unless it failed or was dropped.
TaskInv(c) ==
    LET j == job[c] IN
    /\ j.began <= now
    /\ pc[c] \in {"mark", "throttle"} => j.result = "none"
    /\ pc[c] \in Seeking /\ j.quiet => FreshSince(Uri(c), j.began)
    /\ pc[c] \in Holding /\ j.quiet /\ j.result \notin {"error", "cancelled"}
            => j.got.at >= j.began

AgeInv == \A c \in Tasks : TaskInv(c)

IndInv == TypeOK /\ HoldInv /\ PutInv /\ SizeInv /\ GatesReclaimed /\ AgeInv

-----------------------------------------------------------------------------
(* What the operators of the model do                                      *)

\* A task asks for a URI that there is.
LEMMA UriType == ASSUME TypeOK, NEW c \in Tasks PROVE Uri(c) \in Uris /\ job[c] \in Jobs
  BY DEF TypeOK, Jobs, Uri

\* Moving one task moves no other.
LEMMA GoToFields ==
    ASSUME TypeOK, NEW c \in Tasks, NEW l, GoTo(c, l)
    PROVE  pc'[c] = l /\ \A d \in Tasks \ {c} : pc'[d] = pc[d]
  BY DEF GoTo, TypeOK

\* The job of c is replaced.
LEMMA JobFields ==
    ASSUME TypeOK, NEW c \in Tasks, NEW j, job' = [job EXCEPT ![c] = j]
    PROVE  job'[c] = j /\ \A d \in Tasks \ {c} : job'[d] = job[d]
  BY DEF TypeOK

\* The fields that an assignment leaves alone.
LEMMA ResultFields ==
    ASSUME NEW j \in Jobs, NEW r
    PROVE  LET k == [j EXCEPT !.result = r] IN
           /\ k.uri = j.uri /\ k.gate = j.gate /\ k.got = j.got /\ k.began = j.began
           /\ k.quiet = j.quiet /\ k.result = r
           /\ r \in Results => k \in Jobs
  BY DEF Jobs

\* Handing keys to a task leaves the rest of its record alone.
LEMMA GotFields ==
    ASSUME NEW j \in Jobs, NEW a
    PROVE  LET k == [j EXCEPT !.got = a] IN
           /\ k.uri = j.uri /\ k.gate = j.gate /\ k.got = a /\ k.began = j.began
           /\ k.quiet = j.quiet /\ k.result = j.result
           /\ a \in Answered => k \in Jobs
  BY DEF Jobs

\* Noting when a request was sent leaves the rest of the record alone.
LEMMA SinceFields ==
    ASSUME NEW j \in Jobs, NEW t \in Time
    PROVE  LET k == [j EXCEPT !.since = t] IN
           /\ k.uri = j.uri /\ k.gate = j.gate /\ k.got = j.got /\ k.began = j.began
           /\ k.quiet = j.quiet /\ k.result = j.result
           /\ k \in Jobs
  BY DEF Jobs

\* Taking a gate leaves the rest of the record alone.
LEMMA GateFields ==
    ASSUME NEW j \in Jobs, NEW g
    PROVE  LET k == [j EXCEPT !.gate = g] IN
           /\ k.uri = j.uri /\ k.gate = g /\ k.got = j.got /\ k.began = j.began
           /\ k.quiet = j.quiet /\ k.result = j.result
           /\ g \in Gates => k \in Jobs
  BY DEF Jobs

\* Beginning a refresh leaves the rest of the record alone.
LEMMA QuietFields ==
    ASSUME NEW j \in Jobs, NEW q \in BOOLEAN
    PROVE  LET k == [j EXCEPT !.refresh = TRUE, !.quiet = q] IN
           /\ k.uri = j.uri /\ k.gate = j.gate /\ k.got = j.got /\ k.began = j.began
           /\ k.quiet = q /\ k.result = j.result
           /\ k \in Jobs
  BY DEF Jobs

\* Giving back the gate with a result leaves the rest of the record alone.
LEMMA ReleasedFields ==
    ASSUME NEW j \in Jobs, NEW r \in Results
    PROVE  LET k == [j EXCEPT !.gate = NoGate, !.result = r] IN
           /\ k.uri = j.uri /\ k.gate = NoGate /\ k.got = j.got /\ k.began = j.began
           /\ k.quiet = j.quiet /\ k.result = r
           /\ k \in Jobs
  BY DEF Jobs

\* Where fetch returns to.
LEMMA AfterFetchFacts ==
    ASSUME NEW j \in Jobs
    PROVE  /\ AfterFetch(j).l \in {"returned", "mark", "throttle"}
           /\ AfterFetch(j).r \in Results
           /\ AfterFetch(j).l # "returned" => AfterFetch(j).r = "none"
           /\ j.result # "none" => AfterFetch(j).r = j.result
  BY DEF AfterFetch, Jobs, Results

\* insert puts the new entry, or evicts, and touches nothing else.
LEMMA InsertEntries ==
    ASSUME NEW u \in Uris, NEW a, insert(u, a)
    PROVE  \A v \in Uris :
             \/ entry'[v] = NoEntry
             \/ entry'[v] = entry[v]
             \/ v = u /\ entry'[v] = [got |-> a, expires_at |-> now + TTL]
  BY DEF insert

-----------------------------------------------------------------------------
(* One task moves                                                          *)

TaskNext(c) ==
    \/ \E op \in Ops, u \in Uris, kid \in Kids : Begin(c, op, u, kid)
    \/ Step(c) \/ PutDropped(c) \/ Drop(c) \/ Return(c)

\* A task changes its own place and knowledge only, and holds a gate exactly while it
\* is inside the flight.
Moved(c) ==
    /\ pc'[c] \in Labels /\ job'[c] \in Jobs
    /\ \A d \in Tasks \ {c} : pc'[d] = pc[d] /\ job'[d] = job[d]
    /\ job'[c].gate # NoGate <=> pc'[c] \in Inside
    /\ pc'[c] = "put" => job'[c].got.keys # {}
    /\ now' = now /\ published' = published

\* Every step of a task moves it from one stage of its call to the next, and no other task.
LEMMA TaskMoves ==
    ASSUME TypeOK, HoldInv, PutInv, NEW c \in Tasks, TaskNext(c)
    PROVE  Moved(c)
  <1>t. /\ Uri(c) \in Uris /\ job[c] \in Jobs /\ now \in Time
        /\ job[c].gate # NoGate <=> pc[c] \in Inside
    BY UriType DEF TypeOK, HoldInv
  <1>i. /\ Locking = {"recheck", "unlock", "request", "put"}
        /\ Inside = {"lock", "release", "recheck", "unlock", "request", "put"}
        /\ Labels = {"idle", "get", "gate", "lock", "release", "throttle", "invalidate", "mark",
                     "returned", "recheck", "unlock", "request", "put"}
    BY DEF Locking, Inside, Labels, Requesting
  \* The task moves and learns nothing.
  <1>m. ASSUME NEW l \in Labels \ {"put"}, GoTo(c, l), job' = job, UNCHANGED <<now, published>>,
               l \in Inside <=> pc[c] \in Inside
        PROVE  Moved(c)
    BY <1>m, <1>t, GoToFields DEF Moved
  \* The task moves and its job changes.
  <1>j. ASSUME NEW l \in Labels, GoTo(c, l), NEW j \in Jobs, job' = [job EXCEPT ![c] = j],
               UNCHANGED <<now, published>>,
               j.gate # NoGate <=> l \in Inside, l = "put" => j.got.keys # {}
        PROVE  Moved(c)
    BY <1>j, GoToFields, JobFields, ZenonT(30) DEF Moved
  <1>r. ASSUME NEW r \in Results, NEW l \in Labels \ {"put"}, GoTo(c, l),
               job' = [job EXCEPT ![c] = [job[c] EXCEPT !.result = r]],
               UNCHANGED <<now, published>>, l \in Inside <=> pc[c] \in Inside
        PROVE  Moved(c)
    <2> DEFINE j == [job[c] EXCEPT !.result = r]
    <2>1. j \in Jobs /\ j.gate = job[c].gate
      BY <1>t, ResultFields
    <2> HIDE DEF j
    <2> QED BY <1>j, <1>r, <1>t, <2>1 DEF j
  <1>1. ASSUME NEW op \in Ops, NEW u \in Uris, NEW kid \in Kids, Begin(c, op, u, kid)
        PROVE  Moved(c)
    <2> DEFINE j == [NoJob EXCEPT !.op = op, !.uri = u, !.began = now,
                        !.kid = IF op = "resolve" THEN kid ELSE NoJob.kid]
               l == IF op = "force" THEN "invalidate" ELSE "get"
    <2>1. j \in Jobs /\ j.gate = NoGate
      <3>1. op \in {"fetch", "resolve", "force"}
        BY RustConstantsAssumption
      <3> QED BY <1>t, <3>1, NoJobType DEF Jobs
    <2>2. l \in Labels /\ l \notin Inside /\ l # "put"
      BY <1>i
    <2>3. job' = [job EXCEPT ![c] = j] /\ GoTo(c, l) /\ UNCHANGED <<now, published>>
      BY <1>1 DEF Begin
    <2> HIDE DEF j, l
    <2> QED BY <1>j, <2>1, <2>2, <2>3
  <1>2. CASE Get(c)
    <2>1. CASE fresh(Uri(c))
      <3> DEFINE j == [job[c] EXCEPT !.got = entry[Uri(c)].got]
                 k == [j EXCEPT !.result = AfterFetch(j).r]
                 l == AfterFetch(j).l
      <3>1. job' = [job EXCEPT ![c] = k] /\ GoTo(c, l) /\ UNCHANGED <<now, published>>
        BY <1>2, <2>1 DEF Get
      <3>2. entry[Uri(c)].got \in Answered
        BY <1>t, <2>1 DEF fresh, TypeOK, CacheEntry, Answered
      <3>3. j \in Jobs /\ j.gate = job[c].gate
        BY <1>t, <3>2, GotFields
      <3> HIDE DEF j
      <3>4. l \in {"returned", "mark", "throttle"} /\ AfterFetch(j).r \in Results
        BY <3>3, AfterFetchFacts
      <3>5. k \in Jobs /\ k.gate = job[c].gate
        BY <3>3, <3>4, ResultFields
      <3>6. k.gate = NoGate
        BY <1>2, <1>i, <1>t, <3>5 DEF Get
      <3> HIDE DEF k, l
      <3> QED BY <1>i, <1>j, <3>1, <3>4, <3>5, <3>6
    <2>2. CASE ~fresh(Uri(c))
      BY <1>2, <1>i, <1>m, <2>2 DEF Get
    <2> QED BY <2>1, <2>2
  <1>3. CASE Gate(c)
    <2>1. PICK g \in flight_gate(Uri(c)) : job' = [job EXCEPT ![c] = [job[c] EXCEPT !.gate = g]]
      BY <1>3 DEF Gate
    <2>2. g \in Gates
      BY <1>t DEF flight_gate, NewGates, TypeOK
    <2> DEFINE j == [job[c] EXCEPT !.gate = g]
    <2>3. j \in Jobs /\ j.gate = g /\ g # NoGate
      BY <1>t, <2>2, GateFields, RustConstantsAssumption
    <2> HIDE DEF j
    <2> QED BY <1>3, <1>i, <1>j, <2>1, <2>3 DEF Gate, j
  <1>4. CASE Lock(c)
    BY <1>4, <1>i, <1>m DEF Lock
  <1>5. CASE Recheck(c)
    <2>1. CASE fresh(Uri(c))
      <3> DEFINE j == [job[c] EXCEPT !.got = entry[Uri(c)].got]
      <3>1. entry[Uri(c)].got \in Answered
        BY <1>t, <2>1 DEF fresh, TypeOK, CacheEntry, Answered
      <3>2. j \in Jobs /\ j.gate = job[c].gate
        BY <1>t, <3>1, GotFields
      <3>3. job' = [job EXCEPT ![c] = j] /\ GoTo(c, "unlock") /\ UNCHANGED <<now, published>>
            /\ pc[c] = "recheck"
        BY <1>5, <2>1 DEF Recheck
      <3> HIDE DEF j
      <3> QED BY <1>i, <1>j, <1>t, <3>2, <3>3
    <2>2. CASE ~fresh(Uri(c))
      <3> DEFINE j == [job[c] EXCEPT !.since = now]
      <3>1. j \in Jobs /\ j.gate = job[c].gate
        BY <1>t, SinceFields
      <3>2. job' = [job EXCEPT ![c] = j] /\ GoTo(c, "request") /\ UNCHANGED <<now, published>>
            /\ pc[c] = "recheck"
        BY <1>5, <2>2 DEF Recheck
      <3> HIDE DEF j
      <3> QED BY <1>i, <1>j, <1>t, <3>1, <3>2
    <2> QED BY <2>1, <2>2
  <1>6. CASE fetch_and_parse(c)
    <2>0. pc[c] = "request" /\ UNCHANGED <<now, published>>
      BY <1>6 DEF fetch_and_parse
    <2> DEFINE a == [keys |-> published[Uri(c)], at |-> now]
               j == [job[c] EXCEPT !.got = a]
    <2>1. CASE job' = [job EXCEPT ![c] = j] /\ GoTo(c, "put")
      <3>1. published[Uri(c)] \in KeySets
        BY <1>t DEF TypeOK
      <3>2. a \in Answered /\ a.keys # {}
        BY <1>t, <3>1, RustConstantsAssumption DEF Answered
      <3> HIDE DEF a
      <3>3. j \in Jobs /\ j.gate = job[c].gate /\ j.got = a
        BY <1>t, <3>2, GotFields
      <3> HIDE DEF j
      <3> QED BY <1>i, <1>j, <1>t, <2>0, <2>1, <3>2, <3>3
    <2>2. CASE /\ job' = [job EXCEPT ![c] = [job[c] EXCEPT !.result = "error"]]
               /\ GoTo(c, "unlock")
      BY <1>i, <1>r, <2>0, <2>2 DEF Results
    <2> QED BY <1>6, <2>1, <2>2 DEF fetch_and_parse
  <1>7. CASE Put(c)
    BY <1>7, <1>i, <1>m DEF Put
  <1>8. CASE PutDropped(c)
    BY <1>8, <1>i, <1>r DEF PutDropped, Results
  <1>9. CASE Unlock(c)
    BY <1>9, <1>i, <1>m DEF Unlock
  <1>10. CASE Release(c)
    <2> DEFINE r == AfterFetch(job[c]).r
               l == AfterFetch(job[c]).l
               j == [job[c] EXCEPT !.gate = NoGate, !.result = r]
    <2>1. job' = [job EXCEPT ![c] = j] /\ GoTo(c, l) /\ UNCHANGED <<now, published>>
      BY <1>10 DEF Release
    <2>2. l \in {"returned", "mark", "throttle"} /\ r \in Results
      BY <1>t, AfterFetchFacts
    <2> HIDE DEF l, r
    <2>3. j \in Jobs /\ j.gate = NoGate
      BY <1>t, <2>2, ReleasedFields
    <2> HIDE DEF j
    <2> QED BY <1>i, <1>j, <2>1, <2>2, <2>3
  <1>11. CASE Throttle(c)
    <2>1. CASE refresh_throttled(Uri(c))
      BY <1>11, <1>i, <1>r, <2>1 DEF Throttle, Ends, Results
    <2>2. CASE ~refresh_throttled(Uri(c))
      BY <1>11, <1>i, <1>m, <2>2 DEF Throttle
    <2> QED BY <2>1, <2>2
  <1>12. CASE Invalidate(c)
    <2> DEFINE j == [job[c] EXCEPT !.refresh = TRUE, !.quiet = ~InProgress(Uri(c))]
    <2>1. j \in Jobs /\ j.gate = job[c].gate
      <3>1. (~InProgress(Uri(c))) \in BOOLEAN
        BY DEF InProgress
      <3> QED BY <1>t, <3>1, QuietFields
    <2>2. job' = [job EXCEPT ![c] = j] /\ GoTo(c, "get") /\ UNCHANGED <<now, published>>
          /\ pc[c] = "invalidate"
      BY <1>12 DEF Invalidate
    <2> HIDE DEF j
    <2> QED BY <1>i, <1>j, <1>t, <2>1, <2>2
  <1>13. CASE Mark(c)
    <2>1. PICK r \in Results : Ends(c, r)
      BY <1>13 DEF Mark, Results
    <2> QED BY <1>13, <1>i, <1>r, <2>1 DEF Mark, Ends
  <1>14. CASE Drop(c)
    <2> DEFINE l == IF pc[c] \in Locking THEN "unlock"
                    ELSE IF pc[c] = "lock" THEN "release" ELSE "returned"
    <2>1. /\ pc[c] \in {"get", "lock", "recheck", "request", "put", "throttle", "invalidate",
                        "mark"}
          /\ job' = [job EXCEPT ![c] = [job[c] EXCEPT !.result = "cancelled"]]
          /\ GoTo(c, l) /\ UNCHANGED <<now, published>>
      BY <1>14 DEF Drop
    <2>2. l \in Labels \ {"put"} /\ (l \in Inside <=> pc[c] \in Inside)
      BY <1>i, <2>1
    <2> HIDE DEF l
    <2> QED BY <1>r, <2>1, <2>2 DEF Results
  <1>15. CASE Return(c)
    BY <1>15, <1>i, <1>j, NoJobType DEF Return
  <1> QED BY <1>1, <1>2, <1>3, <1>4, <1>5, <1>6, <1>7, <1>8, <1>9, <1>10, <1>11, <1>12, <1>13,
             <1>14, <1>15
          DEF TaskNext, Step

-----------------------------------------------------------------------------
(* The bounds of the cache                                                 *)

\* evict_lru leaves a suffix of the order that keeps the newest key.
LEMMA EvictFacts ==
    ASSUME NEW s \in Seq(Uris), IsInjective(s)
    PROVE  /\ evict_lru(s) \in Seq(Uris)
           /\ IsInjective(evict_lru(s))
           /\ ToSet(evict_lru(s)) \subseteq ToSet(s)
           /\ MaxEntries > 0 => Len(evict_lru(s)) <= MaxEntries
           /\ Len(s) > 0 => s[Len(s)] \in ToSet(evict_lru(s))
  <1>1. CASE MaxEntries > 0
    <2>1. evict_lru(s) = Newest(s, MaxEntries)
      BY <1>1 DEF evict_lru
    <2> QED BY <1>1, <2>1, Numbers, NewestFacts
  <1>2. CASE ~(MaxEntries > 0)
    <2>1. evict_lru(s) = s
      BY <1>2 DEF evict_lru
    <2>2. Len(s) > 0 => s[Len(s)] \in ToSet(s)
      BY DEF ToSet
    <2> QED BY <1>2, <2>1, <2>2
  <1> QED BY <1>1, <1>2

\* A read hit keeps the entries and reorders them.
LEMMA TouchBounded ==
    ASSUME TypeOK, SizeInv, NEW u \in Uris, entry[u] # NoEntry,
           order' = next_tick(u), UNCHANGED <<entry, last_refresh>>
    PROVE  SizeInv' /\ order' \in Seq(Uris)
  <1>1. order \in Seq(Uris) /\ IsInjective(order) /\ u \in ToSet(order)
    BY DEF TypeOK, SizeInv, Bounded
  <1>2. /\ order' \in Seq(Uris) /\ IsInjective(order')
        /\ ToSet(order') = ToSet(order) \cup {u} /\ Len(order') = Len(order)
    BY <1>1, TouchFacts DEF next_tick, Without
  <1>3. ToSet(order') = ToSet(order)
    BY <1>1, <1>2
  <1> QED BY <1>2, <1>3 DEF SizeInv, Bounded, Marked

\* insert keeps the bound, and the entries and the order in step, whether or not the
\* records of the evicted URIs are pruned.
LEMMA InsertBounded ==
    ASSUME TypeOK, SizeInv, NEW u \in Uris, NEW a \in [keys : (SUBSET Kids) \ {{}}, at : Time],
           insert(u, a), prune(u) \/ last_refresh' = last_refresh
    PROVE  SizeInv' /\ order' \in Seq(Uris)
  <1> DEFINE full == next_tick(u)
             kept == evict_lru(full)
             new == [got |-> a, expires_at |-> now + TTL]
  <1>1. order \in Seq(Uris) /\ IsInjective(order) /\ now \in Time
        /\ {v \in Uris : entry[v] # NoEntry} = ToSet(order)
    BY DEF TypeOK, SizeInv, Bounded
  <1>g. Evicted(u) = {v \in ToSet(full) : v \notin ToSet(kept)}
    BY DEF Evicted
  <1>2. /\ full \in Seq(Uris) /\ IsInjective(full)
        /\ ToSet(full) = ToSet(order) \cup {u} /\ Len(full) > 0 /\ full[Len(full)] = u
    BY <1>1, TouchFacts DEF next_tick, Without
  <1> HIDE DEF full
  <1>3. /\ kept \in Seq(Uris) /\ IsInjective(kept) /\ ToSet(kept) \subseteq ToSet(full)
        /\ (MaxEntries > 0 => Len(kept) <= MaxEntries) /\ u \in ToSet(kept)
    BY <1>2, EvictFacts
  <1> HIDE DEF kept
  <1>4. /\ order' = kept
        /\ entry' = [v \in Uris |-> IF v \in Evicted(u) THEN NoEntry
                                    ELSE IF v = u THEN new ELSE entry[v]]
    BY DEF insert, full, kept
  <1>5. new # NoEntry
    <2>1. new \in CacheEntry
      BY <1>1, Numbers DEF CacheEntry, Time
    <2> QED BY <2>1, RustNoEntryAssumption
  <1> HIDE DEF new
  <1>6. ASSUME NEW v \in Uris PROVE entry'[v] # NoEntry <=> v \in ToSet(order')
    <2>1. CASE v \in Evicted(u)
      BY <1>4, <1>g, <2>1
    <2>2. CASE v \notin Evicted(u) /\ v = u
      BY <1>3, <1>4, <1>5, <2>2
    <2>3. CASE v \notin Evicted(u) /\ v # u
      <3>1. entry'[v] = entry[v]
        BY <1>4, <2>3
      <3>2. v \in ToSet(order) <=> v \in ToSet(kept)
        BY <1>2, <1>3, <1>g, <2>3
      <3> QED BY <1>1, <1>4, <3>1, <3>2
    <2> QED BY <2>1, <2>2, <2>3
  <1>7. {v \in Uris : entry'[v] # NoEntry} = ToSet(order')
    <2>1. ToSet(order') \subseteq Uris
      BY <1>3, <1>4 DEF ToSet
    <2> QED BY <1>6, <2>1
  <1>8. Marked(last_refresh') \subseteq Marked(last_refresh)
    <2>1. CASE prune(u)
      BY <2>1 DEF Marked, prune
    <2>2. CASE last_refresh' = last_refresh
      BY <2>2
    <2> QED BY <2>1, <2>2
  <1>9. /\ IsFiniteSet(Marked(last_refresh'))
        /\ Cardinality(Marked(last_refresh')) <= Cardinality(Marked(last_refresh))
    BY <1>8, FS_Subset DEF SizeInv
  <1>10. MaxEntries > 0 => Cardinality(Marked(last_refresh')) <= MaxEntries
    <2>1. Cardinality(Marked(last_refresh)) \in Nat /\ Cardinality(Marked(last_refresh')) \in Nat
      BY <1>9, FS_CardinalityType DEF SizeInv
    <2> QED BY <1>9, <2>1, Numbers DEF SizeInv, Bounded
  <1>11. Marked(last_refresh)' = Marked(last_refresh')
    BY DEF Marked
  <1> QED BY <1>3, <1>4, <1>7, <1>9, <1>10, <1>11 DEF SizeInv, Bounded

\* An invalidation removes the entry and its tick.
LEMMA InvalidateBounded ==
    ASSUME TypeOK, SizeInv, NEW c \in Tasks, Invalidate(c)
    PROVE  SizeInv' /\ order' \in Seq(Uris)
  <1>1. order \in Seq(Uris) /\ IsInjective(order)
        /\ {v \in Uris : entry[v] # NoEntry} = ToSet(order)
    BY DEF TypeOK, SizeInv, Bounded
  <1>2. order' = Popped(order, Uri(c)) /\ last_refresh' = last_refresh
    BY DEF Invalidate, Without
  <1>3. /\ order' \in Seq(Uris) /\ IsInjective(order')
        /\ ToSet(order') = ToSet(order) \ {Uri(c)} /\ Len(order') <= Len(order)
    BY <1>1, <1>2, PoppedFacts
  <1>4. {v \in Uris : entry'[v] # NoEntry} = ToSet(order')
    <2>1. Uri(c) \in Uris /\ entry' = [entry EXCEPT ![Uri(c)] = NoEntry]
      BY UriType DEF Invalidate
    <2>2. entry'[Uri(c)] = NoEntry /\ \A v \in Uris \ {Uri(c)} : entry'[v] = entry[v]
      BY <2>1 DEF TypeOK
    <2> QED BY <1>1, <1>3, <2>1, <2>2
  <1>5. MaxEntries > 0 => Len(order') <= MaxEntries
    <2>1. Len(order) \in Nat /\ Len(order') \in Nat
      BY <1>1, <1>3
    <2> QED BY <1>3, <2>1, Numbers DEF SizeInv, Bounded
  <1> QED BY <1>2, <1>3, <1>4, <1>5 DEF SizeInv, Bounded, Marked

\* mark_refresh adds one record and drops what is above the bound.
LEMMA MarkBounded ==
    ASSUME TypeOK, SizeInv, NEW u \in Uris, mark_refresh(u), UNCHANGED <<entry, order>>
    PROVE  SizeInv'
  <1> DEFINE m == [last_refresh EXCEPT ![u] = now]
             M == Marked(m)
  <1>1. PICK V \in oldest(m) : last_refresh' = [v \in Uris |-> IF v \in V THEN NoMark ELSE m[v]]
    BY DEF mark_refresh
  <1>2. Marked(last_refresh') = M \ V
    BY <1>1 DEF Marked
  <1>3. M = Marked(last_refresh) \cup {u}
    <2>1. now # NoMark
      BY Numbers DEF TypeOK
    <2>2. m[u] = now /\ \A v \in Uris \ {u} : m[v] = last_refresh[v]
      BY DEF TypeOK
    <2> QED BY <2>1, <2>2 DEF Marked
  <1>4. IsFiniteSet(M) /\ Cardinality(M) \in Nat
    <2>1. IsFiniteSet(M)
      BY <1>3, FS_AddElement DEF SizeInv
    <2> QED BY <2>1, FS_CardinalityType
  <1> HIDE DEF m
  <1>5. /\ IsFiniteSet(M \ V)
        /\ MaxEntries > 0 => Cardinality(M \ V) <= MaxEntries
    <2>1. CASE MaxEntries = 0 \/ Cardinality(M) <= MaxEntries
      <3>1. V = {}
        BY <1>1, <2>1 DEF oldest
      <3>2. M \ V = M
        BY <3>1
      <3> QED BY <1>4, <2>1, <3>2, Numbers
    <2>2. CASE ~(MaxEntries = 0 \/ Cardinality(M) <= MaxEntries)
      <3>1. V \in SUBSET M /\ Cardinality(V) = Cardinality(M) - MaxEntries
        BY <1>1, <2>2 DEF oldest
      <3>2. IsFiniteSet(M \ V) /\ Cardinality(M \ V) = MaxEntries
        BY <1>4, <3>1, Numbers, PruneFacts
      <3> QED BY <3>2, Numbers
    <2> QED BY <2>1, <2>2
  <1>6. Marked(last_refresh)' = Marked(last_refresh')
    BY DEF Marked
  <1> QED BY <1>2, <1>5, <1>6 DEF SizeInv, Bounded

\* Every step keeps the bounds, also a put that is dropped between its two halves.
LEMMA SizeStep ==
    ASSUME TypeOK, PutInv, SizeInv, [Next]_vars
    PROVE  SizeInv' /\ order' \in Seq(Uris)
  <1>u. ASSUME UNCHANGED <<entry, order, last_refresh>> PROVE SizeInv' /\ order' \in Seq(Uris)
    BY <1>u DEF TypeOK, SizeInv, Bounded, Marked
  <1>1. ASSUME NEW c \in Tasks, NEW op \in Ops, NEW u \in Uris, NEW kid \in Kids,
               Begin(c, op, u, kid)
        PROVE  SizeInv' /\ order' \in Seq(Uris)
    BY <1>1, <1>u DEF Begin
  <1>2. ASSUME NEW c \in Tasks, Get(c) \/ Recheck(c) PROVE SizeInv' /\ order' \in Seq(Uris)
    <2>1. CASE fresh(Uri(c))
      <3>1. /\ entry[Uri(c)] # NoEntry /\ order' = next_tick(Uri(c))
            /\ UNCHANGED <<entry, last_refresh>>
        BY <1>2, <2>1 DEF Get, Recheck, fresh
      <3> QED BY <3>1, UriType, TouchBounded
    <2>2. CASE ~fresh(Uri(c))
      BY <1>2, <1>u, <2>2 DEF Get, Recheck
    <2> QED BY <2>1, <2>2
  <1>3. ASSUME NEW c \in Tasks, Put(c) \/ PutDropped(c) PROVE SizeInv' /\ order' \in Seq(Uris)
    <2>1. job[c].got \in [keys : (SUBSET Kids) \ {{}}, at : Time]
      <3>1. job[c].got \in Answered /\ job[c].got.keys # {}
        BY <1>3 DEF Put, PutDropped, PutInv, TypeOK, Jobs
      <3> QED BY <3>1 DEF Answered
    <2>2. insert(Uri(c), job[c].got) /\ (prune(Uri(c)) \/ last_refresh' = last_refresh)
      BY <1>3 DEF Put, PutDropped
    <2> QED BY <2>1, <2>2, UriType, InsertBounded
  <1>4. ASSUME NEW c \in Tasks, Mark(c) PROVE SizeInv' /\ order' \in Seq(Uris)
    <2>1. mark_refresh(Uri(c)) /\ UNCHANGED <<entry, order>>
      BY <1>4 DEF Mark
    <2> QED BY <2>1, UriType, MarkBounded DEF TypeOK
  <1>5. ASSUME NEW c \in Tasks,
               Gate(c) \/ Lock(c) \/ fetch_and_parse(c) \/ Unlock(c) \/ Release(c)
               \/ Throttle(c) \/ Drop(c) \/ Return(c)
        PROVE  SizeInv' /\ order' \in Seq(Uris)
    BY <1>5, <1>u
    DEF Gate, Lock, fetch_and_parse, Unlock, Release, Throttle, Drop, Return
  <1>6. ASSUME NEW u \in Uris, NEW S \in KeySets, Rotate(u, S)
        PROVE  SizeInv' /\ order' \in Seq(Uris)
    BY <1>6, <1>u DEF Rotate
  <1>7. CASE Tick \/ UNCHANGED vars
    BY <1>7, <1>u DEF Tick, vars
  <1> QED BY <1>1, <1>2, <1>3, <1>4, <1>5, <1>6, <1>7, InvalidateBounded DEF Next, Step

-----------------------------------------------------------------------------
(* Types, and what a task holds                                            *)

\* Every step keeps the types, who holds a gate, and that no empty set is stored.
LEMMA TypeStep ==
    ASSUME TypeOK, HoldInv, PutInv, SizeInv, [Next]_vars
    PROVE  TypeOK' /\ HoldInv' /\ PutInv'
  <1>o. order' \in Seq(Uris)
    BY SizeStep
  <1>1. ASSUME NEW c \in Tasks, TaskNext(c) PROVE TypeOK' /\ HoldInv' /\ PutInv'
    <2>m. Moved(c)
      BY <1>1, TaskMoves
    <2>t. /\ Uri(c) \in Uris /\ job[c] \in Jobs /\ now \in Time
      BY UriType DEF TypeOK
    <2>j. pc' \in [Tasks -> Labels] /\ job' \in [Tasks -> Jobs]
      <3>1. /\ DOMAIN pc' = Tasks /\ pc' = [d \in DOMAIN pc' |-> pc'[d]]
            /\ DOMAIN job' = Tasks /\ job' = [d \in DOMAIN job' |-> job'[d]]
        <4>1. (\E l : GoTo(c, l)) /\ (job' = job \/ \E j : job' = [job EXCEPT ![c] = j])
          BY <1>1 DEF TaskNext, Step, Begin, Get, Gate, Lock, Recheck, fetch_and_parse, Put,
             PutDropped, Unlock, Release, Throttle, Invalidate, Mark, Drop, Return, Ends
        <4> QED BY <4>1 DEF GoTo, TypeOK
      <3>2. \A d \in Tasks : pc'[d] \in Labels /\ job'[d] \in Jobs
        BY <2>m DEF Moved, TypeOK
      <3> QED BY <3>1, <3>2
    <2>h. HoldInv' /\ PutInv'
      BY <2>m DEF Moved, HoldInv, PutInv
    <2>g. UNCHANGED <<now, published>>
      BY <2>m DEF Moved
    <2>e. /\ entry' \in [Uris -> CacheEntry \cup {NoEntry}]
          /\ last_refresh' \in [Uris -> Time \cup {NoMark}]
      <3>1. CASE UNCHANGED <<entry, last_refresh>>
        BY <3>1 DEF TypeOK
      <3>2. CASE Invalidate(c)
        BY <3>2 DEF Invalidate, TypeOK
      <3>3. CASE Mark(c)
        BY <3>3 DEF Mark, mark_refresh, TypeOK
      <3>4. CASE Put(c) \/ PutDropped(c)
        <4> DEFINE a == job[c].got
                   new == [got |-> a, expires_at |-> now + TTL]
        <4>1. a \in [keys : (SUBSET Kids) \ {{}}, at : Time]
          <5>1. job[c].got \in Answered /\ job[c].got.keys # {}
            BY <2>t, <3>4 DEF Put, PutDropped, PutInv, Jobs
          <5> QED BY <5>1 DEF Answered
        <4>2. insert(Uri(c), a) /\ (prune(Uri(c)) \/ last_refresh' = last_refresh)
          BY <3>4 DEF Put, PutDropped
        <4> HIDE DEF a
        <4>3. new \in CacheEntry
          BY <2>t, <4>1, Numbers DEF CacheEntry, Time
        <4> HIDE DEF new
        <4>4. entry' \in [Uris -> CacheEntry \cup {NoEntry}]
          BY <4>2, <4>3 DEF insert, TypeOK, new
        <4>5. last_refresh' \in [Uris -> Time \cup {NoMark}]
          BY <4>2 DEF prune, TypeOK
        <4> QED BY <4>4, <4>5
      <3> QED BY <1>1, <3>1, <3>2, <3>3, <3>4
          DEF TaskNext, Step, Begin, Get, Gate, Lock, Recheck, fetch_and_parse, Unlock, Release,
              Throttle, Drop, Return
    <2>f. /\ in_flight' \in [Uris -> Gates \cup {NoGate}]
          /\ owner' \in [Gates -> Tasks \cup {Nobody}]
      <3>1. CASE UNCHANGED <<in_flight, owner>>
        BY <3>1 DEF TypeOK
      <3>2. CASE Gate(c)
        <4>1. PICK g \in flight_gate(Uri(c)) : in_flight' = [in_flight EXCEPT ![Uri(c)] = g]
          BY <3>2 DEF Gate
        <4>2. g \in Gates /\ owner' = owner
          BY <2>t, <3>2 DEF flight_gate, NewGates, TypeOK, Gate
        <4> QED BY <4>1, <4>2 DEF TypeOK
      <3>3. CASE Lock(c) \/ Unlock(c)
        BY <3>3 DEF Lock, Unlock, TypeOK
      <3>4. CASE Release(c)
        BY <2>t, <3>4 DEF Release, release_flight, TypeOK
      <3> QED BY <1>1, <3>1, <3>2, <3>3, <3>4
          DEF TaskNext, Step, Begin, Get, Recheck, fetch_and_parse, Put, PutDropped, Throttle,
              Invalidate, Mark, Drop, Return
    <2> QED BY <1>o, <2>e, <2>f, <2>g, <2>h, <2>j DEF TypeOK
  <1>2. ASSUME NEW u \in Uris, NEW S \in KeySets, Rotate(u, S)
        PROVE  TypeOK' /\ HoldInv' /\ PutInv'
    BY <1>2 DEF Rotate, TypeOK, HoldInv, PutInv
  <1>3. CASE Tick
    <2>1. now' \in Time
      BY <1>3, Numbers DEF Tick, TypeOK, Time
    <2> QED BY <1>3, <2>1 DEF Tick, TypeOK, HoldInv, PutInv
  <1>4. CASE UNCHANGED vars
    BY <1>4 DEF vars, TypeOK, HoldInv, PutInv
  <1> QED BY <1>1, <1>2, <1>3, <1>4 DEF Next, TaskNext

-----------------------------------------------------------------------------
(* The gates                                                               *)

\* Steps that leave the gate of the task as it is.
LEMMA GateKept ==
    ASSUME TypeOK, HoldInv, PutInv, NEW c \in Tasks,
           \/ Get(c) \/ Lock(c) \/ Recheck(c) \/ fetch_and_parse(c) \/ Put(c) \/ PutDropped(c)
           \/ Unlock(c) \/ Throttle(c) \/ Invalidate(c) \/ Mark(c) \/ Drop(c)
    PROVE  job'[c].gate = job[c].gate /\ job'[c].uri = job[c].uri
  <1>j. job[c] \in Jobs /\ now \in Time /\ Uri(c) \in Uris
    BY UriType DEF TypeOK
  <1>r. ASSUME NEW r, job' = [job EXCEPT ![c] = [job[c] EXCEPT !.result = r]]
        PROVE  job'[c].gate = job[c].gate /\ job'[c].uri = job[c].uri
    BY <1>j, <1>r, JobFields, ResultFields
  <1>1. CASE Get(c)
    <2>1. CASE fresh(Uri(c))
      <3> DEFINE j == [job[c] EXCEPT !.got = entry[Uri(c)].got]
                 k == [j EXCEPT !.result = AfterFetch(j).r]
      <3>1. job' = [job EXCEPT ![c] = k]
        BY <1>1, <2>1 DEF Get
      <3>2. entry[Uri(c)].got \in Answered
        BY <1>j, <2>1 DEF fresh, TypeOK, CacheEntry, Answered
      <3>3. j \in Jobs /\ j.gate = job[c].gate /\ j.uri = job[c].uri
        BY <1>j, <3>2, GotFields
      <3> HIDE DEF j
      <3>4. k.gate = job[c].gate /\ k.uri = job[c].uri
        BY <3>3, ResultFields
      <3> HIDE DEF k
      <3> QED BY <3>1, <3>4, JobFields
    <2>2. CASE ~fresh(Uri(c))
      BY <1>1, <2>2 DEF Get
    <2> QED BY <2>1, <2>2
  <1>2. CASE Recheck(c)
    <2>1. CASE fresh(Uri(c))
      <3>1. job'[c] = [job[c] EXCEPT !.got = entry[Uri(c)].got]
        BY <1>2, <2>1 DEF Recheck, TypeOK
      <3> QED BY <1>j, <3>1 DEF Jobs
    <2>2. CASE ~fresh(Uri(c))
      <3>1. job'[c] = [job[c] EXCEPT !.since = now]
        BY <1>2, <2>2 DEF Recheck, TypeOK
      <3> QED BY <1>j, <3>1 DEF Jobs
    <2> QED BY <2>1, <2>2
  <1>3. CASE fetch_and_parse(c)
    <2> DEFINE a == [keys |-> published[Uri(c)], at |-> now]
    <2>1. CASE job' = [job EXCEPT ![c] = [job[c] EXCEPT !.got = a]]
      <3> HIDE DEF a
      <3> QED BY <1>j, <2>1, JobFields, GotFields
    <2>2. CASE job' = [job EXCEPT ![c] = [job[c] EXCEPT !.result = "error"]]
      BY <1>r, <2>2
    <2> QED BY <1>3, <2>1, <2>2 DEF fetch_and_parse
  <1>4. CASE Invalidate(c)
    <2>1. job'[c] = [job[c] EXCEPT !.refresh = TRUE, !.quiet = ~InProgress(Uri(c))]
      BY <1>4 DEF Invalidate, TypeOK
    <2> QED BY <1>j, <2>1 DEF Jobs
  <1>5. CASE PutDropped(c) \/ Drop(c)
    BY <1>5, <1>r DEF PutDropped, Drop
  <1>6. CASE Throttle(c)
    BY <1>6, <1>r DEF Throttle, Ends
  <1>7. CASE Mark(c)
    <2>1. PICK r : Ends(c, r)
      BY <1>7 DEF Mark
    <2> QED BY <1>r, <2>1 DEF Ends
  <1>8. CASE Lock(c) \/ Put(c) \/ Unlock(c)
    BY <1>8 DEF Lock, Put, Unlock
  <1> QED BY <1>1, <1>2, <1>3, <1>4, <1>5, <1>6, <1>7, <1>8

\* Every gate of the map is held by a task that fetches for its URI.
MapInv ==
    \A u \in Uris : in_flight[u] # NoGate =>
        \E c \in Tasks : job[c].gate = in_flight[u] /\ Uri(c) = u

\* A locked gate is held by its owner, between lock and unlock.
OwnerInv ==
    \A g \in Gates : owner[g] # Nobody =>
        pc[owner[g]] \in Locking /\ job[owner[g]].gate = g

\* Every step keeps the gates in order, a future dropped at any await included.
LEMMA GatesStep ==
    ASSUME TypeOK, HoldInv, PutInv, MapInv, OwnerInv, [Next]_vars
    PROVE  MapInv' /\ OwnerInv'
  <1>i. /\ Locking = {"recheck", "unlock", "request", "put"}
        /\ Inside = {"lock", "release", "recheck", "unlock", "request", "put"}
    BY DEF Locking, Inside, Requesting
  <1>u. ASSUME UNCHANGED <<in_flight, owner, pc, job>> PROVE MapInv' /\ OwnerInv'
    BY <1>u DEF MapInv, OwnerInv, Uri
  <1>1. ASSUME NEW c \in Tasks, TaskNext(c) PROVE MapInv' /\ OwnerInv'
    <2>m. \A d \in Tasks \ {c} : pc'[d] = pc[d] /\ job'[d] = job[d]
      BY <1>1, TaskMoves DEF Moved
    <2>c. /\ Uri(c) \in Uris /\ (job[c].gate # NoGate <=> pc[c] \in Inside)
          /\ job[c].gate \in Gates \cup {NoGate}
      BY UriType DEF HoldInv, Jobs
    \* c keeps its gate.
    <2>k. ASSUME job'[c].gate = job[c].gate, job'[c].uri = job[c].uri, in_flight' = in_flight
          PROVE  MapInv'
      BY <2>k, <2>m DEF MapInv, Uri
    \* c has none.
    <2>n. ASSUME job[c].gate = NoGate, in_flight' = in_flight PROVE MapInv'
      BY <2>n, <2>m DEF MapInv, Uri
    \* c stays where it may own a gate.
    <2>l. ASSUME job'[c].gate = job[c].gate, pc[c] \in Locking => pc'[c] \in Locking,
                 owner' = owner
          PROVE  OwnerInv'
      BY <2>l, <2>m DEF OwnerInv, TypeOK
    \* c owns none.
    <2>o. ASSUME pc[c] \notin Locking, owner' = owner PROVE OwnerInv'
      BY <2>o, <2>m DEF OwnerInv, TypeOK
    <2>1. ASSUME NEW op \in Ops, NEW u \in Uris, NEW kid \in Kids, Begin(c, op, u, kid)
          PROVE  MapInv' /\ OwnerInv'
      BY <1>i, <2>1, <2>c, <2>n, <2>o DEF Begin
    <2>2. CASE Get(c) \/ Throttle(c) \/ Invalidate(c) \/ Mark(c)
      <3>1. job[c].gate = NoGate /\ pc[c] \notin Locking /\ UNCHANGED <<in_flight, owner>>
        BY <1>i, <2>2, <2>c DEF Get, Throttle, Invalidate, Mark
      <3> QED BY <2>n, <2>o, <3>1
    <2>3. CASE Gate(c)
      <3>1. PICK g \in flight_gate(Uri(c)) :
              /\ in_flight' = [in_flight EXCEPT ![Uri(c)] = g]
              /\ job' = [job EXCEPT ![c] = [job[c] EXCEPT !.gate = g]]
        BY <2>3 DEF Gate
      <3>2. pc[c] = "gate" /\ owner' = owner
        BY <2>3 DEF Gate
      <3>3. job'[c].gate = g /\ job'[c].uri = job[c].uri
        <4>1. job'[c] = [job[c] EXCEPT !.gate = g] /\ job[c] \in Jobs
          BY <3>1 DEF TypeOK
        <4> QED BY <4>1 DEF Jobs
      <3>4. in_flight'[Uri(c)] = g /\ \A v \in Uris \ {Uri(c)} : in_flight'[v] = in_flight[v]
        BY <2>c, <3>1 DEF TypeOK
      <3>5. job[c].gate = NoGate
        BY <1>i, <2>c, <3>2
      <3>6. MapInv'
        <4> SUFFICES ASSUME NEW v \in Uris, in_flight'[v] # NoGate
                     PROVE  \E d \in Tasks : job'[d].gate = in_flight'[v] /\ job'[d].uri = v
          BY DEF MapInv, Uri
        <4>1. CASE v = Uri(c)
          BY <3>3, <3>4, <4>1 DEF Uri
        <4>2. CASE v # Uri(c)
          <5>1. PICK d \in Tasks : job[d].gate = in_flight[v] /\ job[d].uri = v
            BY <3>4, <4>2 DEF MapInv, Uri
          <5>2. d # c /\ in_flight'[v] = in_flight[v]
            BY <3>4, <3>5, <4>2, <5>1
          <5> QED BY <2>m, <5>1, <5>2
        <4> QED BY <4>1, <4>2
      <3>7. OwnerInv'
        BY <1>i, <2>o, <3>2
      <3> QED BY <3>6, <3>7
    <2>4. CASE Lock(c)
      <3>1. /\ pc[c] = "lock" /\ job' = job /\ in_flight' = in_flight /\ pc'[c] = "recheck"
            /\ owner' = [owner EXCEPT ![job[c].gate] = c]
        BY <2>4, GoToFields DEF Lock
      <3>2. MapInv'
        BY <2>k, <3>1
      <3>3. OwnerInv'
        <4> SUFFICES ASSUME NEW g \in Gates, owner'[g] # Nobody
                     PROVE  pc'[owner'[g]] \in Locking /\ job'[owner'[g]].gate = g
          BY DEF OwnerInv
        <4>1. CASE g = job[c].gate
          BY <1>i, <3>1, <4>1 DEF TypeOK
        <4>2. CASE g # job[c].gate
          <5>1. owner'[g] = owner[g] /\ owner[g] \in Tasks
            BY <3>1, <4>2 DEF TypeOK
          <5>2. pc[owner[g]] \in Locking /\ job[owner[g]].gate = g
            BY <5>1 DEF OwnerInv
          <5>3. owner[g] # c
            BY <4>2, <5>2
          <5> QED BY <2>m, <5>1, <5>2, <5>3
        <4> QED BY <4>1, <4>2
      <3> QED BY <3>2, <3>3
    <2>5. CASE Recheck(c) \/ fetch_and_parse(c) \/ Put(c) \/ PutDropped(c)
      <3>1. pc'[c] \in Locking /\ UNCHANGED <<in_flight, owner>>
        <4>1. \E l \in Locking : GoTo(c, l)
          BY <1>i, <2>5 DEF Recheck, fetch_and_parse, Put, PutDropped
        <4>2. pc'[c] \in Locking
          BY <4>1, GoToFields
        <4>3. UNCHANGED <<in_flight, owner>>
          BY <2>5 DEF Recheck, fetch_and_parse, Put, PutDropped
        <4> QED BY <4>2, <4>3
      <3>2. job'[c].gate = job[c].gate /\ job'[c].uri = job[c].uri
        BY <2>5, GateKept
      <3> QED BY <2>k, <2>l, <3>1, <3>2
    <2>6. CASE Unlock(c)
      <3>1. /\ pc[c] = "unlock" /\ job' = job /\ in_flight' = in_flight
            /\ owner' = [owner EXCEPT ![job[c].gate] = Nobody]
        BY <2>6 DEF Unlock
      <3>2. MapInv'
        BY <2>k, <3>1
      <3>3. OwnerInv'
        <4> SUFFICES ASSUME NEW g \in Gates, owner'[g] # Nobody
                     PROVE  pc'[owner'[g]] \in Locking /\ job'[owner'[g]].gate = g
          BY DEF OwnerInv
        <4>1. g # job[c].gate /\ owner'[g] = owner[g] /\ owner[g] \in Tasks
          BY <3>1 DEF TypeOK
        <4>2. pc[owner[g]] \in Locking /\ job[owner[g]].gate = g
          BY <4>1 DEF OwnerInv
        <4>3. owner[g] # c
          BY <4>1, <4>2
        <4> QED BY <2>m, <4>1, <4>2, <4>3
      <3> QED BY <3>2, <3>3
    <2>7. CASE Release(c)
      <3>1. /\ pc[c] = "release" /\ owner' = owner
            /\ in_flight' = [in_flight EXCEPT ![Uri(c)] = release_flight(Uri(c), job[c].gate)]
        BY <2>7 DEF Release
      <3>2. MapInv'
        <4> SUFFICES ASSUME NEW v \in Uris, in_flight'[v] # NoGate
                     PROVE  \E d \in Tasks : job'[d].gate = in_flight'[v] /\ job'[d].uri = v
          BY DEF MapInv, Uri
        <4>1. in_flight'[v] = in_flight[v] /\ (v = Uri(c) => in_flight[v] # job[c].gate)
          BY <2>c, <3>1 DEF release_flight, TypeOK
        <4>2. PICK d \in Tasks : job[d].gate = in_flight[v] /\ job[d].uri = v
          BY <4>1 DEF MapInv, Uri
        <4>3. d # c
          BY <4>1, <4>2 DEF Uri
        <4> QED BY <2>m, <4>1, <4>2, <4>3
      <3>3. OwnerInv'
        BY <1>i, <2>o, <3>1
      <3> QED BY <3>2, <3>3
    <2>8. CASE Drop(c)
      <3>1. job'[c].gate = job[c].gate /\ job'[c].uri = job[c].uri
        BY <2>8, GateKept
      <3>2. (pc[c] \in Locking => pc'[c] = "unlock") /\ UNCHANGED <<in_flight, owner>>
        BY <2>8 DEF Drop, GoTo, TypeOK
      <3> QED BY <1>i, <2>k, <2>l, <3>1, <3>2
    <2>9. CASE Return(c)
      BY <1>i, <2>9, <2>c, <2>n, <2>o DEF Return
    <2> QED BY <1>1, <2>1, <2>2, <2>3, <2>4, <2>5, <2>6, <2>7, <2>8, <2>9 DEF TaskNext, Step
  <1>2. ASSUME NEW u \in Uris, NEW S \in KeySets, Rotate(u, S) PROVE MapInv' /\ OwnerInv'
    BY <1>2, <1>u DEF Rotate
  <1>3. CASE Tick \/ UNCHANGED vars
    BY <1>3, <1>u DEF Tick, vars
  <1> QED BY <1>1, <1>2, <1>3 DEF Next, TaskNext

-----------------------------------------------------------------------------
(* The age of the keys                                                     *)

\* The numbers of a state in Nat.
LEMMA Instants ==
    ASSUME TypeOK
    PROVE  /\ now \in Nat /\ now \in Time
           /\ \A c \in Tasks : job[c].began \in Nat /\ job[c].got.at \in Nat
  <1>1. now \in Nat /\ now \in Time
    BY Numbers DEF TypeOK
  <1>2. ASSUME NEW c \in Tasks PROVE job[c].began \in Nat /\ job[c].got.at \in Nat
    <2>1. job[c].began \in Time /\ job[c].got.at \in Time
      BY DEF TypeOK, Jobs, Answered
    <2> QED BY <2>1, Numbers
  <1> QED BY <1>1, <1>2

\* Only a task that puts, or invalidates, changes entries.
LEMMA EntryChanges ==
    ASSUME TypeOK, NEW c \in Tasks, TaskNext(c), NEW v \in Uris
    PROVE  \/ entry'[v] = entry[v]
           \/ entry'[v] = NoEntry
           \/ pc[c] = "put" /\ Uri(c) = v /\ entry'[v].got = job[c].got
  <1>1. CASE entry' = entry
    BY <1>1
  <1>2. CASE Invalidate(c)
    BY <1>2, UriType DEF Invalidate, TypeOK
  <1>3. CASE Put(c) \/ PutDropped(c)
    <2>1. insert(Uri(c), job[c].got) /\ pc[c] = "put"
      BY <1>3 DEF Put, PutDropped
    <2>2. \/ entry'[v] = NoEntry
          \/ entry'[v] = entry[v]
          \/ v = Uri(c) /\ entry'[v] = [got |-> job[c].got, expires_at |-> now + TTL]
      BY <2>1, UriType, InsertEntries
    <2> QED BY <2>1, <2>2
  <1> QED BY <1>1, <1>2, <1>3
      DEF TaskNext, Step, Begin, Get, Gate, Lock, Recheck, fetch_and_parse, Unlock, Release,
          Throttle, Mark, Drop, Return

\* What a task is about to put was served just now.
LEMMA PutChanges ==
    ASSUME TypeOK, HoldInv, PutInv, NEW c \in Tasks, TaskNext(c), pc'[c] = "put"
    PROVE  job'[c].got.at = now /\ job'[c].uri = job[c].uri
  <1>1. CASE fetch_and_parse(c)
    <2> DEFINE a == [keys |-> published[Uri(c)], at |-> now]
    <2>1. job'[c] = [job[c] EXCEPT !.got = a] /\ job[c] \in Jobs
      BY <1>1, GoToFields DEF fetch_and_parse, TypeOK
    <2>2. a.at = now
      OBVIOUS
    <2> HIDE DEF a
    <2>3. job'[c].got = a /\ job'[c].uri = job[c].uri
      BY <2>1, GotFields
    <2> QED BY <2>2, <2>3
  <1>2. CASE ~fetch_and_parse(c)
    <2>1. \E l : l # "put" /\ GoTo(c, l)
      <3>1. CASE Get(c)
        <4> DEFINE j == [job[c] EXCEPT !.got = entry[Uri(c)].got]
        <4>1. GoTo(c, AfterFetch(j).l) \/ GoTo(c, "gate")
          BY <3>1 DEF Get
        <4>2. AfterFetch(j).l # "put"
          BY DEF AfterFetch
        <4> QED BY <4>1, <4>2
      <3>2. CASE Release(c)
        <4>1. AfterFetch(job[c]).l # "put"
          BY DEF AfterFetch
        <4> QED BY <3>2, <4>1 DEF Release
      <3>3. ASSUME NEW op \in Ops, NEW u \in Uris, NEW kid \in Kids, Begin(c, op, u, kid)
            PROVE  \E l : l # "put" /\ GoTo(c, l)
        BY <3>3 DEF Begin
      <3>4. CASE Drop(c)
        BY <3>4 DEF Drop
      <3>5. CASE \/ Gate(c) \/ Lock(c) \/ Recheck(c) \/ Put(c) \/ PutDropped(c) \/ Unlock(c)
                 \/ Throttle(c) \/ Invalidate(c) \/ Mark(c) \/ Return(c)
        BY <3>5 DEF Gate, Lock, Recheck, Put, PutDropped, Unlock, Throttle, Ends, Invalidate,
           Mark, Return
      <3> QED BY <1>2, <3>1, <3>2, <3>3, <3>4, <3>5 DEF TaskNext, Step
    <2> QED BY <2>1, GoToFields
  <1> QED BY <1>1, <1>2

\* Whatever can answer for a URI stays as recent as it is: what enters the cache comes
\* from a task that puts, and what that task holds comes from the provider.
LEMMA FreshKept ==
    ASSUME TypeOK, HoldInv, PutInv, NEW c \in Tasks, TaskNext(c),
           NEW v \in Uris, NEW t \in Nat, t <= now, FreshSince(v, t)
    PROVE  FreshSince(v, t)'
  <1>m. \A d \in Tasks \ {c} : pc'[d] = pc[d] /\ job'[d] = job[d]
    BY TaskMoves DEF Moved
  <1>1. entry'[v] # NoEntry => entry'[v].got.at >= t
    BY EntryChanges DEF FreshSince
  <1>2. ASSUME NEW d \in Tasks, pc'[d] = "put", job'[d].uri = v PROVE job'[d].got.at >= t
    <2>1. CASE d = c
      BY <1>2, <2>1, PutChanges, Instants
    <2>2. CASE d # c
      BY <1>2, <1>m, <2>2 DEF FreshSince, Uri
    <2> QED BY <2>1, <2>2
  <1> QED BY <1>1, <1>2 DEF FreshSince, Uri

\* A refresh that finds no request in progress starts from nothing.
LEMMA InvalidateFresh ==
    ASSUME TypeOK, NEW c \in Tasks, Invalidate(c), ~InProgress(Uri(c))
    PROVE  FreshSince(Uri(c), job[c].began)'
  <1>1. /\ entry'[Uri(c)] = NoEntry /\ pc'[c] = "get"
        /\ \A d \in Tasks \ {c} : pc'[d] = pc[d] /\ job'[d] = job[d]
    BY UriType, GoToFields DEF Invalidate, TypeOK
  <1>2. job'[c].uri = job[c].uri
    <2>1. job'[c] = [job[c] EXCEPT !.refresh = TRUE, !.quiet = ~InProgress(Uri(c))]
          /\ job[c] \in Jobs
      BY DEF Invalidate, TypeOK
    <2> QED BY <2>1 DEF Jobs
  <1>3. \A d \in Tasks : ~(pc'[d] = "put" /\ job'[d].uri = job[c].uri)
    BY <1>1 DEF InProgress, Requesting, Uri
  <1> QED BY <1>1, <1>2, <1>3 DEF FreshSince, Uri

\* Every step of a task keeps the age of keys.
LEMMA AgeStep ==
    ASSUME TypeOK, HoldInv, PutInv, AgeInv, NEW c \in Tasks, TaskNext(c)
    PROVE  AgeInv'
  <1>i. /\ Seeking = {"get", "gate", "lock", "recheck", "request"}
        /\ Holding = {"put", "unlock", "release", "throttle", "mark", "returned"}
        /\ Locking = {"recheck", "unlock", "request", "put"}
    BY DEF Seeking, Holding, Locking, Requesting
  <1>m. /\ \A d \in Tasks \ {c} : pc'[d] = pc[d] /\ job'[d] = job[d]
        /\ now' = now
    BY TaskMoves DEF Moved
  <1>t. /\ TaskInv(c) /\ job[c] \in Jobs /\ Uri(c) \in Uris /\ now \in Nat /\ now \in Time
        /\ job[c].began \in Nat /\ job[c].began <= now
    BY UriType, Instants DEF AgeInv, TaskInv
  \* What a task relies on is kept.
  <1>k. ASSUME NEW d \in Tasks, job'[d].uri = job[d].uri, job'[d].began = job[d].began,
               FreshSince(Uri(d), job[d].began)
        PROVE  FreshSince(Uri(d), job[d].began)'
    <2>1. ASSUME NEW v \in Uris, NEW t \in Nat, t <= now, v = Uri(d), t = job[d].began
          PROVE  FreshSince(Uri(d), job[d].began)'
      <3>1. FreshSince(v, t)'
        BY <1>k, <2>1, FreshKept
      <3> QED BY <1>k, <2>1, <3>1 DEF FreshSince, Uri
    <2>2. Uri(d) \in Uris /\ job[d].began \in Nat /\ job[d].began <= now
      BY UriType, Instants DEF AgeInv, TaskInv
    <2> QED BY <2>1, <2>2
  \* Only c has to be looked at.
  <1>s. ASSUME TaskInv(c)' PROVE AgeInv'
    <2>1. ASSUME NEW d \in Tasks, d # c PROVE TaskInv(d)'
      <3>1. pc'[d] = pc[d] /\ job'[d] = job[d] /\ TaskInv(d)
        BY <1>m, <2>1 DEF AgeInv
      <3> QED BY <1>k, <1>m, <3>1 DEF TaskInv
    <2> QED BY <1>s, <2>1 DEF AgeInv
  \* c goes on looking.
  <1>l. ASSUME NEW l \in Seeking, GoTo(c, l), pc[c] \in Seeking,
               job'[c].uri = job[c].uri, job'[c].began = job[c].began,
               job'[c].quiet = job[c].quiet
        PROVE  AgeInv'
    <2>1. pc'[c] = l /\ l \notin Holding /\ l \notin {"mark", "throttle"}
      BY <1>i, <1>l, GoToFields
    <2>2. TaskInv(c)'
      BY <1>k, <1>l, <1>m, <1>t, <2>1 DEF TaskInv
    <2> QED BY <1>s, <2>2
  \* c has, or keeps, an answer or none.
  <1>h. ASSUME NEW l \in Labels \ Seeking, GoTo(c, l), job'[c].began = job[c].began,
               l \in {"mark", "throttle"} => job'[c].result = "none",
               l \in Holding /\ job'[c].quiet /\ job'[c].result \notin {"error", "cancelled"}
                  => job'[c].got.at >= job[c].began
        PROVE  AgeInv'
    <2>1. TaskInv(c)'
      BY <1>h, <1>m, <1>t, GoToFields DEF TaskInv
    <2> QED BY <1>s, <2>1
  <1>r. ASSUME NEW r, NEW l \in Labels \ Seeking, GoTo(c, l),
               job' = [job EXCEPT ![c] = [job[c] EXCEPT !.result = r]],
               l \notin {"mark", "throttle"},
               r \in {"error", "cancelled"}
               \/ (pc[c] \in Holding /\ job[c].result \notin {"error", "cancelled"})
        PROVE  AgeInv'
    <2>1. job'[c] = [job[c] EXCEPT !.result = r]
      BY <1>r, JobFields
    <2>2. /\ job'[c].began = job[c].began /\ job'[c].quiet = job[c].quiet
          /\ job'[c].got = job[c].got /\ job'[c].result = r
      BY <1>t, <2>1, ResultFields
    <2> QED BY <1>h, <1>r, <1>t, <2>2 DEF TaskInv
  <1>1. ASSUME NEW op \in Ops, NEW u \in Uris, NEW kid \in Kids, Begin(c, op, u, kid)
        PROVE  AgeInv'
    <2> DEFINE j == [NoJob EXCEPT !.op = op, !.uri = u, !.began = now,
                        !.kid = IF op = "resolve" THEN kid ELSE NoJob.kid]
    <2>1. j.began = now /\ j.quiet = FALSE
      BY DEF NoJob
    <2>2. job' = [job EXCEPT ![c] = j]
      BY <1>1 DEF Begin
    <2>3. pc'[c] \in {"get", "invalidate"}
      <3>1. GoTo(c, "get") \/ GoTo(c, "invalidate")
        BY <1>1 DEF Begin
      <3> QED BY <3>1, GoToFields
    <2> HIDE DEF j
    <2>4. job'[c] = j
      BY <2>2, JobFields
    <2>5. job'[c].began = now /\ ~job'[c].quiet
      BY <2>1, <2>4
    <2>6. TaskInv(c)'
      BY <1>i, <1>m, <1>t, <2>3, <2>5 DEF TaskInv
    <2> QED BY <1>s, <2>6
  <1>2. CASE Get(c)
    <2>1. CASE fresh(Uri(c))
      <3> DEFINE a == entry[Uri(c)].got
                 j == [job[c] EXCEPT !.got = a]
                 l == AfterFetch(j).l
                 r == AfterFetch(j).r
                 k == [j EXCEPT !.result = r]
      <3>1. job' = [job EXCEPT ![c] = k] /\ GoTo(c, l) /\ pc[c] = "get"
        BY <1>2, <2>1 DEF Get
      <3>2. a \in Answered
        BY <1>t, <2>1 DEF fresh, TypeOK, CacheEntry, Answered
      <3>3. job[c].quiet => a.at >= job[c].began
        BY <1>i, <1>t, <2>1, <3>1 DEF TaskInv, FreshSince, fresh
      <3> HIDE DEF a
      <3>4. j \in Jobs /\ j.got = a /\ j.began = job[c].began /\ j.quiet = job[c].quiet
        BY <1>t, <3>2, GotFields
      <3> HIDE DEF j
      <3>5. l \in {"returned", "mark", "throttle"} /\ (l # "returned" => r = "none")
        BY <3>4, AfterFetchFacts
      <3> HIDE DEF l, r
      <3>6. /\ k.got = a /\ k.began = job[c].began /\ k.quiet = job[c].quiet /\ k.result = r
        BY <3>4, ResultFields
      <3>7. job'[c] = k
        BY <3>1, JobFields
      <3> HIDE DEF k
      <3>8. l \in Labels \ Seeking
        BY <1>i, <3>5 DEF Labels
      <3> QED BY <1>h, <3>1, <3>3, <3>5, <3>6, <3>7, <3>8
    <2>2. CASE ~fresh(Uri(c))
      BY <1>2, <1>i, <1>l, <2>2 DEF Get
    <2> QED BY <2>1, <2>2
  <1>3. CASE Gate(c)
    <2>1. PICK g : job'[c] = [job[c] EXCEPT !.gate = g]
      BY <1>3 DEF Gate, TypeOK
    <2>2. /\ job'[c].uri = job[c].uri /\ job'[c].began = job[c].began
          /\ job'[c].quiet = job[c].quiet
      BY <1>t, <2>1, GateFields
    <2> QED BY <1>3, <1>i, <1>l, <2>2 DEF Gate
  <1>4. CASE Lock(c)
    BY <1>4, <1>i, <1>l DEF Lock
  <1>5. CASE Recheck(c)
    <2>1. CASE fresh(Uri(c))
      <3> DEFINE a == entry[Uri(c)].got
      <3>1. /\ job' = [job EXCEPT ![c] = [job[c] EXCEPT !.got = a]]
            /\ GoTo(c, "unlock") /\ pc[c] = "recheck"
        BY <1>5, <2>1 DEF Recheck
      <3>2. job[c].quiet => a.at >= job[c].began
        BY <1>i, <1>t, <2>1, <3>1 DEF TaskInv, FreshSince, fresh
      <3> HIDE DEF a
      <3>3. job'[c] = [job[c] EXCEPT !.got = a]
        BY <3>1, JobFields
      <3>4. /\ job'[c].got = a /\ job'[c].began = job[c].began /\ job'[c].quiet = job[c].quiet
        BY <1>t, <3>3, GotFields
      <3>5. "unlock" \in Labels \ Seeking
        BY <1>i DEF Labels, Locking
      <3> QED BY <1>h, <3>1, <3>2, <3>4, <3>5
    <2>2. CASE ~fresh(Uri(c))
      <3>1. job'[c] = [job[c] EXCEPT !.since = now] /\ GoTo(c, "request") /\ pc[c] = "recheck"
        BY <1>5, <2>2 DEF Recheck, TypeOK
      <3>2. /\ job'[c].uri = job[c].uri /\ job'[c].began = job[c].began
            /\ job'[c].quiet = job[c].quiet
        BY <1>t, <3>1, SinceFields
      <3> QED BY <1>i, <1>l, <3>1, <3>2
    <2> QED BY <2>1, <2>2
  <1>6. CASE fetch_and_parse(c)
    <2> DEFINE a == [keys |-> published[Uri(c)], at |-> now]
    <2>1. CASE job' = [job EXCEPT ![c] = [job[c] EXCEPT !.got = a]] /\ GoTo(c, "put")
      <3>1. a.at >= job[c].began
        BY <1>t
      <3> HIDE DEF a
      <3>2. job'[c] = [job[c] EXCEPT !.got = a]
        BY <2>1, JobFields
      <3>3. job'[c].got = a /\ job'[c].began = job[c].began
        BY <1>t, <3>2, GotFields
      <3>4. "put" \in Labels \ Seeking
        BY <1>i DEF Labels, Locking
      <3> QED BY <1>h, <2>1, <3>1, <3>3, <3>4
    <2>2. CASE /\ job' = [job EXCEPT ![c] = [job[c] EXCEPT !.result = "error"]]
               /\ GoTo(c, "unlock")
      BY <1>i, <1>r, <2>2 DEF Labels
    <2> QED BY <1>6, <2>1, <2>2 DEF fetch_and_parse
  <1>7. CASE Put(c)
    <2>1. job' = job /\ pc[c] = "put" /\ GoTo(c, "unlock")
      BY <1>7 DEF Put
    <2> QED BY <1>h, <1>i, <1>t, <2>1 DEF TaskInv, Labels
  <1>8. CASE PutDropped(c)
    BY <1>8, <1>i, <1>r DEF PutDropped, Labels
  <1>9. CASE Unlock(c)
    <2>1. job' = job /\ pc[c] = "unlock" /\ GoTo(c, "release")
      BY <1>9 DEF Unlock
    <2> QED BY <1>h, <1>i, <1>t, <2>1 DEF TaskInv, Labels
  <1>10. CASE Release(c)
    <2> DEFINE r == AfterFetch(job[c]).r
               l == AfterFetch(job[c]).l
               j == [job[c] EXCEPT !.gate = NoGate, !.result = r]
    <2>1. job' = [job EXCEPT ![c] = j] /\ GoTo(c, l) /\ pc[c] = "release"
      BY <1>10 DEF Release
    <2>2. /\ l \in {"returned", "mark", "throttle"} /\ r \in Results
          /\ (l # "returned" => r = "none") /\ (job[c].result # "none" => r = job[c].result)
      BY <1>t, AfterFetchFacts
    <2> HIDE DEF l, r
    <2>3. /\ j.got = job[c].got /\ j.began = job[c].began /\ j.quiet = job[c].quiet
          /\ j.result = r
      BY <1>t, <2>2, ReleasedFields
    <2>4. job'[c] = j
      BY <2>1, JobFields
    <2> HIDE DEF j
    <2>5. job[c].quiet /\ r \notin {"error", "cancelled"} => job[c].got.at >= job[c].began
      BY <1>i, <1>t, <2>1, <2>2 DEF TaskInv
    <2>6. l \in Labels \ Seeking
      BY <1>i, <2>2 DEF Labels
    <2> QED BY <1>h, <2>1, <2>2, <2>3, <2>4, <2>5, <2>6
  <1>11. CASE Throttle(c)
    <2>0. pc[c] = "throttle" /\ job[c].result = "none"
      BY <1>11, <1>t DEF Throttle, TaskInv
    <2>1. CASE refresh_throttled(Uri(c))
      BY <1>11, <1>i, <1>r, <2>0, <2>1 DEF Throttle, Ends, Labels
    <2>2. CASE ~refresh_throttled(Uri(c))
      BY <1>11, <1>h, <1>i, <2>2 DEF Throttle, Labels
    <2> QED BY <2>1, <2>2
  <1>12. CASE Invalidate(c)
    <2>1. job'[c] = [job[c] EXCEPT !.refresh = TRUE, !.quiet = ~InProgress(Uri(c))]
      BY <1>12 DEF Invalidate, TypeOK
    <2>2. job'[c].began = job[c].began /\ job'[c].quiet = ~InProgress(Uri(c))
      <3>1. (~InProgress(Uri(c))) \in BOOLEAN
        BY DEF InProgress
      <3> QED BY <1>t, <2>1, <3>1, QuietFields, ZenonT(30)
    <2>3. pc'[c] = "get"
      BY <1>12, GoToFields DEF Invalidate
    <2>4. job'[c].quiet => FreshSince(Uri(c), job[c].began)'
      BY <1>12, <2>2, InvalidateFresh
    <2>5. TaskInv(c)'
      BY <1>i, <1>m, <1>t, <2>2, <2>3, <2>4 DEF TaskInv
    <2> QED BY <1>s, <2>5
  <1>13. CASE Mark(c)
    <2>1. PICK r : Ends(c, r)
      BY <1>13 DEF Mark
    <2>2. pc[c] = "mark" /\ job[c].result = "none"
      BY <1>13, <1>t DEF Mark, TaskInv
    <2> QED BY <1>i, <1>r, <2>1, <2>2 DEF Ends, Labels
  <1>14. CASE Drop(c)
    <2>1. \E l \in {"unlock", "release", "returned"} : GoTo(c, l)
      BY <1>14 DEF Drop
    <2>2. job' = [job EXCEPT ![c] = [job[c] EXCEPT !.result = "cancelled"]]
      BY <1>14 DEF Drop
    <2>3. {"unlock", "release", "returned"} \subseteq Labels \ Seeking
      BY <1>i DEF Labels
    <2> QED BY <1>r, <2>1, <2>2, <2>3
  <1>15. CASE Return(c)
    <2>1. job'[c] = NoJob /\ pc'[c] = "idle"
      BY <1>15, JobFields, GoToFields DEF Return
    <2>2. TaskInv(c)'
      BY <1>i, <1>m, <1>t, <2>1, NoJobType DEF TaskInv
    <2> QED BY <1>s, <2>2
  <1> QED BY <1>1, <1>2, <1>3, <1>4, <1>5, <1>6, <1>7, <1>8, <1>9, <1>10, <1>11, <1>12, <1>13,
             <1>14, <1>15
          DEF TaskNext, Step

-----------------------------------------------------------------------------
(* Results                                                                 *)

\* An empty cache without tasks or gates satisfies the invariant.
LEMMA IndInit == Init => IndInv
  <1> SUFFICES ASSUME Init PROVE IndInv
    OBVIOUS
  <1>1. TypeOK
    <2>1. 0 \in Time
      BY Numbers DEF Time
    <2> QED BY <2>1, NoJobType DEF Init, TypeOK, Labels
  <1>2. SizeInv
    <2>1. ToSet(order) = {} /\ IsInjective(order) /\ Len(order) = 0
      BY DEF Init, ToSet, IsInjective
    <2>2. Marked(last_refresh) = {} /\ {u \in Uris : entry[u] # NoEntry} = {}
      BY DEF Init, Marked
    <2> QED BY <2>1, <2>2, FS_EmptySet, Numbers DEF SizeInv, Bounded
  <1>3. HoldInv /\ PutInv
    BY NoJobType DEF Init, HoldInv, PutInv, Inside, Locking, Requesting
  <1>4. GatesReclaimed
    BY DEF Init, GatesReclaimed
  <1>5. AgeInv
    BY NoJobType DEF Init, AgeInv, TaskInv, Seeking, Holding
  <1> QED BY <1>1, <1>2, <1>3, <1>4, <1>5 DEF IndInv

\* Every step keeps the invariant.
LEMMA IndStep == IndInv /\ [Next]_vars => IndInv'
  <1> SUFFICES ASSUME IndInv, [Next]_vars PROVE IndInv'
    OBVIOUS
  <1>1. TypeOK /\ HoldInv /\ PutInv /\ SizeInv /\ MapInv /\ OwnerInv /\ AgeInv
    BY DEF IndInv, GatesReclaimed, MapInv, OwnerInv
  <1>2. TypeOK' /\ HoldInv' /\ PutInv' /\ SizeInv' /\ MapInv' /\ OwnerInv'
    BY <1>1, TypeStep, SizeStep, GatesStep
  <1>3. AgeInv'
    <2>1. ASSUME NEW c \in Tasks, TaskNext(c) PROVE AgeInv'
      BY <1>1, <2>1, AgeStep
    <2>2. ASSUME UNCHANGED <<entry, pc, job>>, now' \in Nat, now <= now' PROVE AgeInv'
      <3> SUFFICES ASSUME NEW c \in Tasks PROVE TaskInv(c)'
        BY DEF AgeInv
      <3>1. TaskInv(c) /\ job[c].began \in Nat /\ now \in Nat
        BY <1>1, Instants DEF AgeInv
      <3>2. job[c].began <= now'
        BY <2>2, <3>1 DEF TaskInv
      <3>3. FreshSince(Uri(c), job[c].began) => FreshSince(Uri(c), job[c].began)'
        BY <2>2 DEF FreshSince, Uri
      <3> QED BY <2>2, <3>1, <3>2, <3>3 DEF TaskInv
    <2>3. now \in Nat
      BY <1>1, Instants
    <2>4. ASSUME NEW u \in Uris, NEW S \in KeySets, Rotate(u, S) PROVE AgeInv'
      <3>1. UNCHANGED <<entry, pc, job, now>>
        BY <2>4 DEF Rotate
      <3> QED BY <2>2, <2>3, <3>1
    <2>5. CASE Tick \/ UNCHANGED vars
      <3>1. UNCHANGED <<entry, pc, job>> /\ (now' = now \/ now' = now + 1)
        BY <2>5 DEF Tick, vars
      <3> QED BY <2>2, <2>3, <3>1
    <2> QED BY <2>1, <2>4, <2>5 DEF Next, TaskNext
  <1> QED BY <1>2, <1>3 DEF IndInv, GatesReclaimed, MapInv, OwnerInv

\* The invariant holds throughout.
LEMMA Invariance == Spec => []IndInv
  BY IndInit, IndStep, PTL DEF Spec

\* Every reachable state of the Rust client has the types of TypeOK; in particular put
\* never stores an empty key set.
THEOREM TypeCorrect == Spec => []TypeOK
  <1>1. IndInv => TypeOK
    BY DEF IndInv
  <1> QED BY <1>1, Invariance, PTL

\* put and mark_refresh: entries and cooldown records within max_entries, whatever
\* future is dropped where.
THEOREM BoundedHolds == Spec => []Bounded
  <1>1. IndInv => Bounded
    BY DEF IndInv, SizeInv
  <1> QED BY <1>1, Invariance, PTL

\* FlightGuard and the lock guard give every gate back.
THEOREM GatesReclaimedHolds == Spec => []GatesReclaimed
  <1>1. IndInv => GatesReclaimed
    BY DEF IndInv
  <1> QED BY <1>1, Invariance, PTL

\* force_refresh: a refresh that meets no request in progress returns keys served after
\* the call.
THEOREM QuietRefreshHolds == Spec => []QuietRefresh
  <1>1. IndInv => QuietRefresh
    BY DEF IndInv, AgeInv, TaskInv, Holding, QuietRefresh
  <1> QED BY <1>1, Invariance, PTL
=============================================================================
