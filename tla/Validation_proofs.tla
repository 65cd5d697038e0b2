-------------------------- MODULE Validation_proofs --------------------------
(***************************************************************************)
(* Proofs about the two systems that hand tokens and callbacks to the      *)
(* library and act on its verdict; they share the lemmas about JwtLogic.   *)
(* First ResourceServer and the discovery cache it shares, for any number  *)
(* of callers, loops, stripes, addresses, policies and documents; then the *)
(* relying parties of Conformance, for any flows, slots and plans.         *)
(***************************************************************************)
EXTENDS ResourceServer, Conformance, Recency_proofs, FiniteSetTheorems, WellFoundedInduction, TLAPS

-----------------------------------------------------------------------------
(* The steps of the discovery cache                                        *)

\* What a step of the server does to the discovery cache.
DiscoNext ==
    \/ \E c \in Callers : \/ \E w \in Wants : Begin(c, w)
                          \/ Step(c) \/ Return(c) \/ Cancel(c)
    \/ \E side \in {"sync", "aio"} : clear_discovery_cache(side)
    \/ Tick

\* A step of the resource server is one of the discovery cache, or leaves it alone.
LEMMA DiscoSteps ==
    ASSUME home \in DOMAIN Work, [Next]_rsVars
    PROVE  [DiscoNext]_vars
  <1>1. CASE UNCHANGED rsVars
    BY <1>1 DEF rsVars, vars
  <1>2. ASSUME NEW c \in Callers, Handle(c)
        PROVE  [DiscoNext]_vars
    <2>1. CASE dispatch(c) \/ connect(c) \/ Call(c)
      <3>1. PICK rq \in Requests[home] :
              \/ UNCHANGED_Disco
              \/ (rq.kind \in {"http", "ws"} \/ AsksProvider(rq)) /\ Begin(c, Want(rq))
        BY <2>1 DEF dispatch, connect, Call
      <3>2. CASE UNCHANGED_Disco
        BY <3>2 DEF UNCHANGED_Disco, vars
      <3>3. CASE (rq.kind \in {"http", "ws"} \/ AsksProvider(rq)) /\ Begin(c, Want(rq))
        <4>1. Want(rq) \in Wants
          BY <3>3, RequestsAssumption
        <4> QED BY <3>3, <4>1 DEF DiscoNext
      <3> QED BY <3>1, <3>2, <3>3
    <2>2. CASE Step(c) \/ Validated(c) \/ Disconnect(c)
      BY <2>2 DEF Validated, Disconnect, DiscoNext
    <2>3. CASE Route(c) \/ Finish(c)
      BY <2>3 DEF Route, Finish, UNCHANGED_Disco, vars
    <2> QED BY <1>2, <2>1, <2>2, <2>3 DEF Handle
  <1> QED BY <1>1, <1>2 DEF Next, DiscoNext

-----------------------------------------------------------------------------
(* The operators of the discovery cache                                    *)

CacheKeys == {KeyOf(w) : w \in Wants}
Responses == UNION {get_discovery_document[w] : w \in Wants}
CacheEntries == [key : CacheKeys, resp : Responses, cached_at : Nat, ttl : Nat]

\* The entries of an OrderedDict.
Distinct(s) ==
    /\ s \in Seq(CacheEntries) /\ IsInjective(s)
    /\ \A e, f \in ToSet(s) : e.key = f.key => e = f

\* The entry of a key that is cached is cached, under that key.
LEMMA EntryFacts ==
    ASSUME NEW s, NEW k, Has(s, k)
    PROVE  Entry(s, k) \in ToSet(s) /\ Entry(s, k).key = k
  BY DEF Has, Entry, Members, ToSet

\* Dropping a key keeps the others distinct and leaves none of that key.
LEMMA WithoutFacts ==
    ASSUME NEW s, Distinct(s), NEW k
    PROVE  /\ Distinct(Without(s, k)) /\ ToSet(Without(s, k)) \subseteq ToSet(s)
           /\ \A e \in ToSet(Without(s, k)) : e.key # k
  <1>1. CASE Has(s, k)
    <2> DEFINE u == Entry(s, k)
               p == Popped(s, u)
    <2>1. u \in ToSet(s) /\ u.key = k
      BY <1>1, EntryFacts
    <2>2. Without(s, k) = p
      BY <1>1 DEF Without
    <2> HIDE DEF u
    <2>3. p \in Seq(CacheEntries) /\ IsInjective(p) /\ ToSet(p) = ToSet(s) \ {u}
      BY PoppedFacts DEF Distinct
    <2> HIDE DEF p
    <2> QED BY <2>1, <2>2, <2>3 DEF Distinct
  <1>2. CASE ~Has(s, k)
    BY <1>2 DEF Without, Has, Members, ToSet
  <1> QED BY <1>1, <1>2

\* A touch adds nothing and keeps the keys distinct.
LEMMA TouchedFacts ==
    ASSUME NEW s, Distinct(s), NEW k
    PROVE  Distinct(touch_cache_entry(s, k)) /\ ToSet(touch_cache_entry(s, k)) \subseteq ToSet(s)
  <1>1. CASE Has(s, k)
    <2> DEFINE u == Entry(s, k)
               w == Without(s, k)
    <2>1. u \in ToSet(s) /\ u.key = k
      BY <1>1, EntryFacts
    <2>2. Distinct(w) /\ ToSet(w) \subseteq ToSet(s) /\ \A e \in ToSet(w) : e.key # k
      BY WithoutFacts
    <2>3. touch_cache_entry(s, k) = Append(w, u)
      BY <1>1 DEF touch_cache_entry
    <2>4. u \in CacheEntries
      BY <2>1 DEF Distinct, ToSet
    <2> HIDE DEF u, w
    <2>5. u \notin ToSet(w)
      BY <2>1, <2>2
    <2>6. /\ Append(w, u) \in Seq(CacheEntries) /\ IsInjective(Append(w, u))
          /\ ToSet(Append(w, u)) = ToSet(w) \cup {u}
      BY <2>2, <2>4, <2>5, AppendFacts DEF Distinct
    <2> QED BY <2>1, <2>2, <2>3, <2>6 DEF Distinct
  <1>2. CASE ~Has(s, k)
    BY <1>2 DEF touch_cache_entry
  <1> QED BY <1>1, <1>2

\* The size limit is a natural number, whatever the environment says.
LEMMA MaxEntriesType == _max_cache_entries \in Nat
  BY PyDiscoAssumption DEF _max_cache_entries, get_max_cache_entries

\* Storing an entry adds that one only and keeps the keys distinct, eviction included.
LEMMA StoredFacts ==
    ASSUME NEW s, Distinct(s), NEW e \in CacheEntries
    PROVE  LET t == _enforce_size_limit(Append(Without(s, e.key), e)) IN
           Distinct(t) /\ ToSet(t) \subseteq ToSet(s) \cup {e}
  <1> DEFINE w == Without(s, e.key)
             a == Append(w, e)
             t == Newest(a, _max_cache_entries)
  <1>1. Distinct(w) /\ ToSet(w) \subseteq ToSet(s) /\ \A f \in ToSet(w) : f.key # e.key
    BY WithoutFacts
  <1> HIDE DEF w
  <1>2. e \notin ToSet(w)
    BY <1>1
  <1>3. a \in Seq(CacheEntries) /\ IsInjective(a) /\ ToSet(a) = ToSet(w) \cup {e}
    BY <1>1, <1>2, AppendFacts DEF Distinct
  <1>4. Distinct(a)
    BY <1>1, <1>3 DEF Distinct
  <1> HIDE DEF a
  <1>5. t \in Seq(CacheEntries) /\ IsInjective(t) /\ ToSet(t) \subseteq ToSet(a)
    BY <1>3, MaxEntriesType, NewestFacts
  <1> HIDE DEF t
  <1>6. Distinct(t) /\ ToSet(t) \subseteq ToSet(s) \cup {e}
    BY <1>1, <1>3, <1>4, <1>5 DEF Distinct
  <1> QED BY <1>6 DEF t, a, w, _enforce_size_limit

\* What a request can bring.
LEMMA ResponseFacts ==
    ASSUME NEW w \in Wants, NEW resp \in get_discovery_document[w]
    PROVE  /\ resp \in Responses
           /\ TtlOf(resp) \in Nat
           /\ resp.ok => process_discovery_response(resp.doc[1], w.policy, w.address).ok
  <1>1. \/ resp = handle_discovery_error("RequestError")
        \/ \E a \in Answers[w.address] : resp = process_discovery_response(a, w.policy, w.address)
    BY DEF get_discovery_document
  <1>2. resp \in Responses
    BY DEF Responses
  <1>3. \/ \E k : resp = DiscoFailed(k)
        \/ \E a \in Answers[w.address] : /\ resp = build_discovery_response(a)
                                         /\ resp = process_discovery_response(a, w.policy, w.address)
    BY <1>1 DEF process_discovery_response, handle_discovery_error, handle_unsuccessful_response
  <1>4. _get_disco_env_ttl \in Nat
    BY PyDiscoAssumption DEF _get_disco_env_ttl, _safe_env_float, Clamped
  <1>5. resp.cache_control.max_age \in Int
    <2>1. ASSUME NEW a \in Answers[w.address], resp = build_discovery_response(a)
          PROVE  resp.cache_control.max_age \in Int
      <3>1. a.cache_control.max_age \in Int
        BY WantsAssumption
      <3> QED BY <2>1, <3>1 DEF build_discovery_response
    <2>2. CASE \E k : resp = DiscoFailed(k)
      BY <2>2 DEF DiscoFailed, NoHeader
    <2> QED BY <1>3, <2>1, <2>2
  <1>6. TtlOf(resp) \in Nat
    BY <1>4, <1>5, PyDiscoAssumption DEF TtlOf, resolve_disco_ttl, parse_max_age, Clamped
  <1>7. resp.ok => process_discovery_response(resp.doc[1], w.policy, w.address).ok
    <2>1. CASE \E k : resp = DiscoFailed(k)
      BY <2>1 DEF DiscoFailed
    <2>2. ASSUME NEW a, resp = build_discovery_response(a),
                 resp = process_discovery_response(a, w.policy, w.address)
          PROVE  resp.ok => process_discovery_response(resp.doc[1], w.policy, w.address).ok
      <3>1. resp.doc[1] = a
        BY <2>2 DEF build_discovery_response
      <3> QED BY <2>2, <3>1
    <2> QED BY <1>3, <2>1, <2>2
  <1> QED BY <1>2, <1>6, <1>7

\* A refusal is a failure.
LEMMA RefusalFacts ==
    ASSUME NEW e
    PROVE  ~handle_discovery_error(e).ok
  BY DEF handle_discovery_error, DiscoFailed

\* The key of the cache tells any two wants apart.
LEMMA KeyInjective ==
    ASSUME NEW v \in Wants, NEW w \in Wants, KeyOf(v) = KeyOf(w)
    PROVE  v = w
  <1>1. v.address = w.address /\ cache_key(v.policy) = cache_key(w.policy)
    BY DEF KeyOf
  <1>2. \A f \in DOMAIN DiscoveryPolicy : v.policy[f] = w.policy[f]
    BY <1>1 DEF cache_key, DiscoveryPolicy
  <1>3. v.policy = w.policy
    <2> DEFINE D == DOMAIN DiscoveryPolicy
    <2>1. v.policy = [f \in D |-> v.policy[f]] /\ w.policy = [f \in D |-> w.policy[f]]
      BY WantsAssumption
    <2> HIDE DEF D
    <2> QED BY <1>2, <2>1 DEF D
  <1> QED BY <1>1, <1>3, WantsAssumption

-----------------------------------------------------------------------------
(* The inductive invariant of the discovery cache                          *)

Sides == {"sync", "aio"}
Labels == {"idle", "lookup", "wait", "touch", "touch_locked", "fetching", "fetched", "done"}
TaskFields == {"pc", "left", "want", "resp", "since"}
IsTask(t) == t = [f \in TaskFields |-> t[f]]

\* What the log holds came of a request that the policy let pass.
LogInv ==
    \A rec \in log : /\ rec.want \in Wants /\ rec.at \in Nat /\ rec.ttl \in Nat
                     /\ rec.resp \in get_discovery_document[rec.want] /\ rec.resp.ok
                     /\ _upstream_fetch_attempted(rec.want)

\* An answer that e was written from, within one flight of its request.
Source(e, rec) ==
    KeyOf(rec.want) = e.key /\ rec.resp = e.resp /\ rec.ttl = e.ttl /\ e.cached_at <= rec.at + MaxFlight

\* As long as an entry is not expired, the log holds the answer it was written from.
EntryInv(e) == is_cache_expired(e) \/ \E rec \in log : Source(e, rec)

CacheInv ==
    /\ cache = [s \in Sides |-> cache[s]]
    /\ \A s \in Sides : Distinct(cache[s]) /\ \A e \in ToSet(cache[s]) : EntryInv(e)

TaskInv(c) ==
    /\ IsTask(task[c]) /\ task[c].pc \in Labels
    /\ task[c].pc # "idle" => task[c].want \in Wants
    /\ task[c].pc \in {"fetching", "fetched"} =>
         task[c].since \in Nat /\ task[c].since <= now /\ now <= task[c].since + MaxFlight
    /\ task[c].pc \in {"touch", "touch_locked", "fetching"} => _upstream_fetch_attempted(task[c].want)
    /\ Phase(c) = "given" /\ task[c].resp.ok => task[c].resp \in get_discovery_document[task[c].want]
    /\ task[c].pc = "fetched" /\ task[c].resp.ok /\ ~is_uncacheable(task[c].resp.cache_control) =>
         Record(c, task[c].resp) \in log \/ TtlOf(task[c].resp) = 0

TasksInv == task = [c \in Callers |-> task[c]] /\ \A c \in Callers : TaskInv(c)

DiscoInv == now \in Nat /\ home \in DOMAIN Work /\ LogInv /\ CacheInv /\ TasksInv

-----------------------------------------------------------------------------
(* Preservation                                                            *)

\* What is served from the cache is an answer to the same want that the log holds.
LEMMA UsableFacts ==
    ASSUME DiscoInv, NEW c \in Callers, task[c].want \in Wants, Usable(c)
    PROVE  \E rec \in log : rec.want = task[c].want /\ rec.resp = Mine(c).resp
  <1> DEFINE s == cache[Side(c)]
             w == task[c].want
             e == Mine(c)
  <1>1. Side(c) \in Sides
    BY DEF Side, Sides
  <1>2. e \in ToSet(s) /\ e.key = KeyOf(w) /\ ~is_cache_expired(e)
    BY EntryFacts DEF Usable, Mine
  <1>3. PICK rec \in log : Source(e, rec)
    BY <1>1, <1>2 DEF DiscoInv, CacheInv, EntryInv
  <1>4. rec.want = w
    BY <1>2, <1>3, KeyInjective DEF Source, DiscoInv, LogInv
  <1> QED BY <1>3, <1>4 DEF Source

\* A task that does not move keeps its invariant when the log grows.
LEMMA OtherTask ==
    ASSUME NEW o, TaskInv(o), task'[o] = task[o], now' = now, log \subseteq log'
    PROVE  TaskInv(o)'
  BY DEF TaskInv, Phase, Record

\* A cache that does not change keeps its invariant when the log grows.
LEMMA SameCache ==
    ASSUME CacheInv, cache' = cache, now' = now, log \subseteq log'
    PROVE  CacheInv'
  BY DEF CacheInv, EntryInv, is_cache_expired

\* A step that changes the task of c, and no cache.
TaskStep(c) ==
    /\ task' = [o \in Callers |-> task'[o]]
    /\ \A o \in Callers \ {c} : task'[o] = task[o]
    /\ UNCHANGED <<now, home, cache>> /\ log \subseteq log'

\* A step of one task that leaves the cache alone: what has to be shown of that task.
LEMMA TaskStepKeeps ==
    ASSUME DiscoInv, NEW c \in Callers, TaskStep(c), LogInv', TaskInv(c)'
    PROVE  DiscoInv'
  <1>1. UNCHANGED <<now, home, cache>> /\ log \subseteq log'
    BY DEF TaskStep
  <1>2. CacheInv'
    BY <1>1, SameCache DEF DiscoInv
  <1>3. \A o \in Callers \ {c} : TaskInv(o)'
    BY <1>1, OtherTask DEF TaskStep, DiscoInv, TasksInv
  <1>4. TasksInv'
    BY <1>3 DEF TasksInv, TaskStep
  <1>5. (now \in Nat /\ home \in DOMAIN Work)'
    BY <1>1 DEF DiscoInv
  <1> QED BY <1>2, <1>4, <1>5 DEF DiscoInv

\* The task of c becomes t.
LEMMA Becoming ==
    ASSUME DiscoInv, NEW c \in Callers, NEW t, task' = [task EXCEPT ![c] = t],
           UNCHANGED <<now, home, cache>>, log \subseteq log'
    PROVE  TaskStep(c) /\ task'[c] = t
  BY DEF DiscoInv, TasksInv, TaskStep

\* Beginning a call keeps the invariant.
LEMMA BeginKeeps ==
    ASSUME DiscoInv, NEW c \in Callers, NEW w \in Wants, Begin(c, w)
    PROVE  DiscoInv' /\ TaskStep(c)
  <1> DEFINE q == task[c]
             t == [q EXCEPT !.pc = "lookup", !.want = w, !.left = q.left - 1]
  <1>1. task' = [task EXCEPT ![c] = t] /\ UNCHANGED <<now, home, cache>> /\ log' = log
    BY DEF Begin
  <1>2. IsTask(q)
    BY DEF DiscoInv, TasksInv, TaskInv
  <1>3. IsTask(t) /\ t.pc = "lookup" /\ t.want = w
    BY <1>2 DEF IsTask, TaskFields
  <1> HIDE DEF t
  <1>4. TaskStep(c) /\ task'[c] = t
    BY <1>1, Becoming
  <1>5. TaskInv(c)'
    BY <1>3, <1>4 DEF TaskInv, Labels, Phase
  <1>6. LogInv'
    BY <1>1 DEF DiscoInv, LogInv
  <1> QED BY <1>4, <1>5, <1>6, TaskStepKeeps

\* Being served from the cache.
LEMMA ServedKeeps ==
    ASSUME DiscoInv, NEW c \in Callers, NEW l \in {"touch", "touch_locked"}, Served(c, l), Usable(c),
           task[c].want \in Wants, UNCHANGED <<now, home, cache, log>>
    PROVE  DiscoInv' /\ TaskStep(c)
  <1> DEFINE q == task[c]
             r == Mine(c).resp
             t == [q EXCEPT !.pc = l, !.resp = r]
  <1>1. task' = [task EXCEPT ![c] = t]
    BY DEF Served
  <1>2. IsTask(q)
    BY DEF DiscoInv, TasksInv, TaskInv
  <1>3. PICK rec \in log : rec.want = q.want /\ rec.resp = r
    BY UsableFacts
  <1> HIDE DEF r
  <1>4. IsTask(t) /\ t.pc = l /\ t.want = q.want /\ t.resp = r
    BY <1>2 DEF IsTask, TaskFields
  <1> HIDE DEF t
  <1>5. TaskStep(c) /\ task'[c] = t
    BY <1>1, Becoming
  <1>6. r \in get_discovery_document[q.want] /\ _upstream_fetch_attempted(q.want)
    BY <1>3 DEF DiscoInv, LogInv
  <1>7. TaskInv(c)'
    BY <1>4, <1>5, <1>6 DEF TaskInv, Labels
  <1>8. LogInv'
    BY DEF DiscoInv, LogInv
  <1> QED BY <1>5, <1>7, <1>8, TaskStepKeeps

\* A hit hands out an entry of the caller's own key that is not expired.
LEMMA LookupKeeps ==
    ASSUME DiscoInv, NEW c \in Callers, Lookup(c)
    PROVE  DiscoInv' /\ TaskStep(c)
  <1> DEFINE q == task[c]
             t == [q EXCEPT !.pc = "wait"]
  <1>1. IsTask(q) /\ q.pc = "lookup" /\ q.want \in Wants
    BY DEF DiscoInv, TasksInv, TaskInv, Lookup
  <1>2. UNCHANGED <<now, home, cache, log>>
    BY DEF Lookup
  <1>3. CASE Usable(c)
    BY <1>1, <1>2, <1>3, ServedKeeps DEF Lookup
  <1>4. CASE ~Usable(c)
    <2>1. task' = [task EXCEPT ![c] = t]
      BY <1>4 DEF Lookup
    <2>2. IsTask(t) /\ t.pc = "wait" /\ t.want = q.want
      BY <1>1 DEF IsTask, TaskFields
    <2> HIDE DEF t
    <2>3. TaskStep(c) /\ task'[c] = t
      BY <1>2, <2>1, Becoming
    <2>4. TaskInv(c)'
      BY <1>1, <2>2, <2>3 DEF TaskInv, Labels, Phase
    <2>5. LogInv'
      BY <1>2 DEF DiscoInv, LogInv
    <2> QED BY <2>3, <2>4, <2>5, TaskStepKeeps
  <1> QED BY <1>3, <1>4

\* The second lookup, under the fetch lock, does the same.
LEMMA AcquireKeeps ==
    ASSUME DiscoInv, NEW c \in Callers, Acquire(c)
    PROVE  DiscoInv' /\ TaskStep(c)
  <1> DEFINE q == task[c]
             r == handle_discovery_error(validate_url_scheme(q.want.address, q.want.policy))
             t == [q EXCEPT !.pc = "fetching", !.since = now]
             u == [q EXCEPT !.pc = "fetched", !.since = now, !.resp = r]
  <1>1. IsTask(q) /\ q.pc = "wait" /\ q.want \in Wants
    BY DEF DiscoInv, TasksInv, TaskInv, Acquire
  <1>2. UNCHANGED <<now, home, cache, log>>
    BY DEF Acquire
  <1>3. now \in Nat /\ MaxFlight \in Nat
    BY PyDiscoAssumption DEF DiscoInv
  <1>4. LogInv'
    BY <1>2 DEF DiscoInv, LogInv
  <1>5. CASE Usable(c) /\ Served(c, "touch_locked")
    BY <1>1, <1>2, <1>5, ServedKeeps
  <1>6. CASE _upstream_fetch_attempted(q.want) /\ task' = [task EXCEPT ![c] = t]
    <2>1. IsTask(t) /\ t.pc = "fetching" /\ t.want = q.want /\ t.since = now
      BY <1>1 DEF IsTask, TaskFields
    <2> HIDE DEF t
    <2>2. TaskStep(c) /\ task'[c] = t
      BY <1>2, <1>6, Becoming
    <2>3. TaskInv(c)'
      BY <1>1, <1>2, <1>3, <1>6, <2>1, <2>2 DEF TaskInv, Labels, Phase
    <2> QED BY <1>4, <2>2, <2>3, TaskStepKeeps
  <1>7. CASE task' = [task EXCEPT ![c] = u]
    <2>1. ~r.ok
      BY RefusalFacts
    <2> HIDE DEF r
    <2>2. IsTask(u) /\ u.pc = "fetched" /\ u.want = q.want /\ u.since = now /\ u.resp = r
      BY <1>1 DEF IsTask, TaskFields
    <2> HIDE DEF u
    <2>3. TaskStep(c) /\ task'[c] = u
      BY <1>2, <1>7, Becoming
    <2>4. TaskInv(c)'
      BY <1>1, <1>2, <1>3, <2>1, <2>2, <2>3 DEF TaskInv, Labels
    <2> QED BY <1>4, <2>3, <2>4, TaskStepKeeps
  <1> QED BY <1>5, <1>6, <1>7 DEF Acquire

\* An answer that may be shared is in the log from the moment it is there.
LEMMA FetchedKeeps ==
    ASSUME DiscoInv, NEW c \in Callers, Fetched(c)
    PROVE  DiscoInv' /\ TaskStep(c)
  <1> DEFINE q == task[c]
  <1>1. /\ IsTask(q) /\ q.pc = "fetching" /\ q.want \in Wants /\ _upstream_fetch_attempted(q.want)
        /\ q.since \in Nat /\ q.since <= now /\ now <= q.since + MaxFlight
    BY DEF DiscoInv, TasksInv, TaskInv, Fetched
  <1>2. PICK r \in get_discovery_document[q.want] :
              /\ task' = [task EXCEPT ![c].pc = "fetched", ![c].resp = r]
              /\ log' = IF r.ok /\ ~is_uncacheable(r.cache_control)
                        THEN log \cup {Record(c, r)} ELSE log
    BY DEF Fetched
  <1> DEFINE t == [q EXCEPT !.pc = "fetched", !.resp = r]
  <1>3. task' = [task EXCEPT ![c] = t]
    BY <1>2
  <1>4. UNCHANGED <<now, home, cache>> /\ log \subseteq log'
    BY <1>2 DEF Fetched
  <1>5. IsTask(t) /\ t.pc = "fetched" /\ t.want = q.want /\ t.resp = r /\ t.since = q.since
    BY <1>1 DEF IsTask, TaskFields
  <1> HIDE DEF t
  <1>6. TaskStep(c) /\ task'[c] = t
    BY <1>3, <1>4, Becoming
  <1>7. TtlOf(r) \in Nat
    BY <1>1, ResponseFacts
  <1>8. LogInv'
    <2>1. Record(c, r) = [want |-> q.want, resp |-> r, at |-> q.since, ttl |-> TtlOf(r)]
      BY DEF Record
    <2>2. ASSUME NEW rec \in log'
          PROVE  \/ rec \in log
                 \/ r.ok /\ rec = [want |-> q.want, resp |-> r, at |-> q.since, ttl |-> TtlOf(r)]
      BY <1>2, <2>1
    <2> QED BY <1>1, <1>7, <2>2 DEF DiscoInv, LogInv
  <1>9. TaskInv(c)'
    <2>1. r.ok /\ ~is_uncacheable(r.cache_control) => Record(c, r) \in log'
      BY <1>2
    <2>2. Record(c, r) = [want |-> t.want, resp |-> r, at |-> t.since, ttl |-> TtlOf(r)]
      BY <1>5 DEF Record
    <2> QED BY <1>1, <1>2, <1>4, <1>5, <1>6, <2>1, <2>2 DEF TaskInv, Labels, Record
  <1> QED BY <1>6, <1>8, <1>9, TaskStepKeeps

\* The cache of one side becomes new.
LEMMA CacheBecomes ==
    ASSUME CacheInv, NEW s \in Sides, NEW new, cache' = [cache EXCEPT ![s] = new], Distinct(new),
           \A e \in ToSet(new) : EntryInv(e), UNCHANGED <<now, log>>
    PROVE  CacheInv'
  <1>1. cache' = [o \in Sides |-> cache'[o]] /\ cache'[s] = new
    BY DEF CacheInv
  <1>2. \A o \in Sides \ {s} : cache'[o] = cache[o]
    BY DEF CacheInv
  <1>3. \A e : EntryInv(e) => EntryInv(e)'
    BY DEF EntryInv, is_cache_expired
  <1> QED BY <1>1, <1>2, <1>3 DEF CacheInv

\* A step of c that changes the cache of its side, and nobody's log.
LEMMA CacheStepKeeps ==
    ASSUME DiscoInv, NEW c \in Callers, NEW t, task' = [task EXCEPT ![c] = t], NEW new,
           cache' = [cache EXCEPT ![Side(c)] = new], UNCHANGED <<now, home, log>>,
           Distinct(new), \A e \in ToSet(new) : EntryInv(e), TaskInv(c)'
    PROVE  DiscoInv'
  <1>1. Side(c) \in Sides
    BY DEF Side, Sides
  <1>2. CacheInv'
    BY <1>1, CacheBecomes DEF DiscoInv
  <1>3. LogInv'
    BY DEF DiscoInv, LogInv
  <1>4. task' = [o \in Callers |-> task'[o]] /\ \A o \in Callers \ {c} : task'[o] = task[o]
    BY DEF DiscoInv, TasksInv
  <1>5. \A o \in Callers \ {c} : TaskInv(o)'
    BY <1>4, OtherTask DEF DiscoInv, TasksInv
  <1>6. TasksInv'
    BY <1>4, <1>5 DEF TasksInv
  <1>7. (now \in Nat /\ home \in DOMAIN Work)'
    BY DEF DiscoInv
  <1> QED BY <1>2, <1>3, <1>6, <1>7 DEF DiscoInv

\* A touch keeps the invariant.
LEMMA TouchKeeps ==
    ASSUME DiscoInv, NEW c \in Callers, Touch(c)
    PROVE  DiscoInv'
  <1> DEFINE q == task[c]
             t == [q EXCEPT !.pc = "done"]
             s == cache[Side(c)]
             new == touch_cache_entry(s, KeyOf(q.want))
  <1>1. /\ TaskInv(c) /\ IsTask(q) /\ q.pc \in {"touch", "touch_locked"} /\ q.want \in Wants
        /\ Side(c) \in Sides
    BY DEF DiscoInv, TasksInv, TaskInv, Touch, Side, Sides
  <1>2. /\ cache' = [cache EXCEPT ![Side(c)] = new] /\ task' = [task EXCEPT ![c] = t]
        /\ UNCHANGED <<now, home, log>>
    BY DEF Touch
  <1>3. Distinct(s) /\ \A e \in ToSet(s) : EntryInv(e)
    BY <1>1 DEF DiscoInv, CacheInv
  <1>4. Distinct(new) /\ ToSet(new) \subseteq ToSet(s)
    BY <1>3, TouchedFacts
  <1>5. IsTask(t) /\ t.pc = "done" /\ t.want = q.want /\ t.resp = q.resp
    BY <1>1 DEF IsTask, TaskFields
  <1> HIDE DEF t, new
  <1>6. task'[c] = t
    BY <1>2 DEF DiscoInv, TasksInv
  <1>7. TaskInv(c)'
    BY <1>1, <1>5, <1>6 DEF TaskInv, Labels, Phase
  <1> QED BY <1>2, <1>3, <1>4, <1>7, CacheStepKeeps

\* What is written is an answer of the log, written within its request's timeout.
LEMMA ApplyKeeps ==
    ASSUME DiscoInv, NEW c \in Callers, Apply(c)
    PROVE  DiscoInv'
  <1> DEFINE q == task[c]
             r == q.resp
             k == KeyOf(q.want)
             t == [q EXCEPT !.pc = "done", !.since = 0]
             s == cache[Side(c)]
             new == apply_disco_cache_outcome(s, k, r)
             e == DiscoCacheEntry(k, r)
  <1>1. /\ TaskInv(c) /\ IsTask(q) /\ q.pc = "fetched" /\ q.want \in Wants /\ Side(c) \in Sides
        /\ now \in Nat
    BY DEF DiscoInv, TasksInv, TaskInv, Apply, Side, Sides
  <1>2. /\ cache' = [cache EXCEPT ![Side(c)] = new] /\ task' = [task EXCEPT ![c] = t]
        /\ UNCHANGED <<now, home, log>>
    BY DEF Apply
  <1>3. Distinct(s) /\ \A f \in ToSet(s) : EntryInv(f)
    BY <1>1 DEF DiscoInv, CacheInv
  <1>4. IsTask(t) /\ t.pc = "done" /\ t.want = q.want /\ t.resp = r
    BY <1>1 DEF IsTask, TaskFields
  <1>5. r.ok => r \in get_discovery_document[q.want]
    BY <1>1 DEF TaskInv, Phase
  <1>6. Distinct(new) /\ \A f \in ToSet(new) : EntryInv(f)
    <2>1. CASE ~r.ok
      BY <1>3, <2>1 DEF apply_disco_cache_outcome
    <2>2. CASE r.ok /\ is_uncacheable(r.cache_control)
      BY <1>3, <2>2, WithoutFacts DEF apply_disco_cache_outcome
    <2>3. CASE r.ok /\ ~is_uncacheable(r.cache_control)
      <3>1. new = _enforce_size_limit(Append(Without(s, k), e))
        BY <2>3 DEF apply_disco_cache_outcome
      <3>2. e = [key |-> k, resp |-> r, cached_at |-> now, ttl |-> TtlOf(r)]
        BY DEF DiscoCacheEntry, TtlOf
      <3>3. r \in Responses /\ TtlOf(r) \in Nat /\ k \in CacheKeys
        BY <1>1, <1>5, <2>3, ResponseFacts DEF CacheKeys
      <3> HIDE DEF e
      <3>4. e.key = k /\ e.resp = r /\ e.cached_at = now /\ e.ttl = TtlOf(r)
        BY <3>2
      <3>5. e \in CacheEntries
        BY <1>1, <3>2, <3>3 DEF CacheEntries
      <3>6. Distinct(new) /\ ToSet(new) \subseteq ToSet(s) \cup {e}
        BY <1>3, <3>1, <3>4, <3>5, StoredFacts
      <3>7. EntryInv(e)
        <4>1. CASE TtlOf(r) = 0
          BY <1>1, <3>4, <4>1 DEF EntryInv, is_cache_expired
        <4>2. CASE Record(c, r) \in log
          <5>1. Record(c, r) = [want |-> q.want, resp |-> r, at |-> q.since, ttl |-> TtlOf(r)]
            BY DEF Record
          <5>2. now <= q.since + MaxFlight
            BY <1>1 DEF TaskInv
          <5>3. Source(e, Record(c, r))
            BY <3>4, <5>1, <5>2 DEF Source
          <5> QED BY <4>2, <5>3 DEF EntryInv
        <4> QED BY <1>1, <2>3, <4>1, <4>2 DEF TaskInv
      <3> QED BY <1>3, <3>6, <3>7
    <2> QED BY <2>1, <2>2, <2>3
  <1> HIDE DEF t, new
  <1>7. task'[c] = t
    BY <1>2 DEF DiscoInv, TasksInv
  <1>8. TaskInv(c)'
    BY <1>1, <1>4, <1>5, <1>7 DEF TaskInv, Labels, Phase
  <1> QED BY <1>2, <1>6, <1>8, CacheStepKeeps

\* Returning and being cancelled keep the invariant.
LEMMA LeaveKeeps ==
    ASSUME DiscoInv, NEW c \in Callers, Cancel(c) \/ Return(c)
    PROVE  DiscoInv' /\ TaskStep(c)
  <1> DEFINE t == Idle(task[c].left)
  <1>1. task' = [task EXCEPT ![c] = t] /\ UNCHANGED <<now, home, cache, log>>
    BY DEF Cancel, Return
  <1>2. IsTask(t) /\ t.pc = "idle"
    BY DEF Idle, IsTask, TaskFields
  <1> HIDE DEF t
  <1>3. TaskStep(c) /\ task'[c] = t
    BY <1>1, Becoming
  <1>4. TaskInv(c)'
    BY <1>2, <1>3 DEF TaskInv, Labels, Phase
  <1>5. LogInv'
    BY <1>1 DEF DiscoInv, LogInv
  <1> QED BY <1>3, <1>4, <1>5, TaskStepKeeps

\* A clear keeps the invariant.
LEMMA ClearKeeps ==
    ASSUME DiscoInv, NEW s \in Sides, clear_discovery_cache(s)
    PROVE  DiscoInv'
  <1>1. cache' = [cache EXCEPT ![s] = <<>>] /\ UNCHANGED <<now, home, task, log>>
    BY DEF clear_discovery_cache
  <1>2. Distinct(<<>>) /\ \A e \in ToSet(<<>>) : EntryInv(e)
    BY DEF Distinct, IsInjective, ToSet
  <1>3. CacheInv'
    BY <1>1, <1>2, CacheBecomes DEF DiscoInv
  <1>4. LogInv' /\ (now \in Nat /\ home \in DOMAIN Work)'
    BY <1>1 DEF DiscoInv, LogInv
  <1>5. TasksInv'
    BY <1>1, OtherTask DEF DiscoInv, TasksInv
  <1> QED BY <1>3, <1>4, <1>5 DEF DiscoInv

\* What gets too old for the log is expired in the cache.
LEMMA TickKeeps ==
    ASSUME DiscoInv, Tick
    PROVE  DiscoInv'
  <1>1. /\ now' = now + 1 /\ UNCHANGED <<home, cache, task>>
        /\ log' = {rec \in log : now' < rec.at + rec.ttl + MaxFlight}
        /\ \A c \in Callers : task[c].pc \in {"fetching", "fetched"} => now < task[c].since + MaxFlight
    BY DEF Tick
  <1>2. now \in Nat /\ MaxFlight \in Nat
    BY PyDiscoAssumption DEF DiscoInv
  <1>3. LogInv'
    BY <1>1 DEF DiscoInv, LogInv
  <1>4. ASSUME NEW e \in CacheEntries, EntryInv(e)
        PROVE  EntryInv(e)'
    <2>1. e.cached_at \in Nat /\ e.ttl \in Nat
      BY DEF CacheEntries
    <2>2. CASE is_cache_expired(e)
      BY <1>1, <1>2, <2>1, <2>2 DEF EntryInv, is_cache_expired
    <2>3. ASSUME NEW rec \in log, Source(e, rec)
          PROVE  EntryInv(e)'
      <3>1. rec.at \in Nat /\ rec.ttl = e.ttl /\ e.cached_at <= rec.at + MaxFlight
        BY <2>3 DEF DiscoInv, LogInv, Source
      <3>2. CASE rec \in log'
        BY <2>3, <3>2 DEF EntryInv, Source
      <3>3. CASE rec \notin log'
        <4>1. now + 1 >= rec.at + e.ttl + MaxFlight
          BY <1>1, <1>2, <2>1, <3>1, <3>3
        <4>2. (now + 1) - e.cached_at >= e.ttl
          BY <1>2, <2>1, <3>1, <4>1
        <4> QED BY <1>1, <4>2 DEF EntryInv, is_cache_expired
      <3> QED BY <3>2, <3>3
    <2> QED BY <1>4, <2>2, <2>3 DEF EntryInv
  <1>5. CacheInv'
    <2>1. \A s \in Sides : \A e \in ToSet(cache[s]) : e \in CacheEntries /\ EntryInv(e)
      BY DEF DiscoInv, CacheInv, Distinct, ToSet
    <2> QED BY <1>1, <1>4, <2>1 DEF DiscoInv, CacheInv
  <1>6. ASSUME NEW c \in Callers PROVE TaskInv(c)'
    <2> DEFINE q == task[c]
    <2>1. TaskInv(c) /\ task'[c] = q
      BY <1>1 DEF DiscoInv, TasksInv
    <2>2. q.pc \in {"fetching", "fetched"} =>
            q.since \in Nat /\ q.since <= now' /\ now' <= q.since + MaxFlight
      BY <1>1, <1>2, <2>1 DEF TaskInv
    <2>3. q.pc = "fetched" /\ q.resp.ok /\ ~is_uncacheable(q.resp.cache_control) =>
            Record(c, q.resp) \in log' \/ TtlOf(q.resp) = 0
      <3>1. SUFFICES ASSUME q.pc = "fetched", q.resp.ok, Record(c, q.resp) \in log, TtlOf(q.resp) # 0
                     PROVE  Record(c, q.resp) \in log'
        BY <2>1 DEF TaskInv
      <3>2. TtlOf(q.resp) \in Nat
        BY <2>1, <3>1, ResponseFacts DEF TaskInv, Phase
      <3>3. Record(c, q.resp).at = q.since /\ Record(c, q.resp).ttl = TtlOf(q.resp)
        BY DEF Record
      <3>4. now' < q.since + TtlOf(q.resp) + MaxFlight
        BY <1>1, <1>2, <2>2, <3>1, <3>2
      <3> QED BY <1>1, <3>1, <3>3, <3>4
    <2> QED BY <1>1, <2>1, <2>2, <2>3 DEF TaskInv, Phase, Record
  <1>7. TasksInv'
    BY <1>1, <1>6 DEF DiscoInv, TasksInv
  <1>8. (now \in Nat /\ home \in DOMAIN Work)'
    BY <1>1, <1>2 DEF DiscoInv
  <1> QED BY <1>3, <1>5, <1>7, <1>8 DEF DiscoInv

\* The initial states satisfy the invariant.
LEMMA DiscoInit == Init_RS => DiscoInv
  <1> SUFFICES ASSUME Init_RS PROVE DiscoInv
    OBVIOUS
  <1>1. /\ now = 0 /\ home \in DOMAIN Work /\ cache = [s \in Sides |-> <<>>] /\ log = {}
        /\ task = [c \in Callers |-> Idle(Work[home].calls[c])]
    BY DEF Init_RS, Init, Sides
  <1>2. LogInv
    BY <1>1 DEF LogInv
  <1>3. Distinct(<<>>) /\ \A e \in ToSet(<<>>) : EntryInv(e)
    BY DEF Distinct, IsInjective, ToSet
  <1>4. CacheInv
    BY <1>1, <1>3 DEF CacheInv
  <1>5. \A n : IsTask(Idle(n)) /\ Idle(n).pc = "idle"
    BY DEF Idle, IsTask, TaskFields
  <1>6. \A c \in Callers : IsTask(task[c]) /\ task[c].pc = "idle"
    BY <1>1, <1>5
  <1>7. TasksInv
    BY <1>1, <1>6 DEF TasksInv, TaskInv, Labels, Phase
  <1> QED BY <1>1, <1>2, <1>4, <1>7 DEF DiscoInv

\* Every step keeps the invariant.
LEMMA DiscoStep ==
    ASSUME DiscoInv, [DiscoNext]_vars
    PROVE  DiscoInv'
  <1>1. CASE UNCHANGED vars
    <2>1. UNCHANGED <<now, home, cache, log>> /\ task' = task
      BY <1>1 DEF vars
    <2>2. CacheInv' /\ LogInv' /\ (now \in Nat /\ home \in DOMAIN Work)'
      BY <2>1, SameCache DEF DiscoInv, LogInv
    <2>3. TasksInv'
      BY <2>1, OtherTask DEF DiscoInv, TasksInv
    <2> QED BY <2>2, <2>3 DEF DiscoInv
  <1>2. ASSUME NEW c \in Callers, (\E w \in Wants : Begin(c, w)) \/ Step(c) \/ Return(c) \/ Cancel(c)
        PROVE  DiscoInv'
    BY <1>2, BeginKeeps, LookupKeeps, TouchKeeps, AcquireKeeps, FetchedKeeps, ApplyKeeps, LeaveKeeps
       DEF Step
  <1> QED BY <1>1, <1>2, ClearKeeps, TickKeeps DEF DiscoNext, Sides

\* The invariant of the discovery cache holds throughout.
LEMMA DiscoInvariant == Spec => []DiscoInv
  <1>1. DiscoInv /\ [Next]_rsVars => DiscoInv'
    <2> SUFFICES ASSUME DiscoInv, [Next]_rsVars PROVE DiscoInv'
      OBVIOUS
    <2>1. home \in DOMAIN Work
      BY DEF DiscoInv
    <2> QED BY <2>1, DiscoSteps, DiscoStep
  <1> QED BY <1>1, DiscoInit, PTL DEF Spec

\* Whoever fetched a document and whatever is evicted, cleared or shared: a caller is
\* given only documents that its own policy accepts (cache_key has every field of it).
THEOREM PolicyObeyedHolds == Spec => []PolicyObeyed
  <1>1. DiscoInv => PolicyObeyed
    <2> SUFFICES ASSUME DiscoInv, NEW c \in Callers, Phase(c) = "given", task[c].resp.ok
                 PROVE  process_discovery_response(task[c].resp.doc[1], task[c].want.policy,
                                                   task[c].want.address).ok
      BY DEF PolicyObeyed
    <2>1. TaskInv(c) /\ task[c].want \in Wants
      BY DEF DiscoInv, TasksInv, TaskInv, Phase
    <2>2. task[c].resp \in get_discovery_document[task[c].want]
      BY <2>1 DEF TaskInv
    <2> QED BY <2>1, <2>2, ResponseFacts
  <1> QED BY <1>1, DiscoInvariant, PTL

-----------------------------------------------------------------------------
(* The discovery cache implements DiscoStore                               *)

\* What the callers of the store see of the cache.
phases == [c \in Callers |-> Phase(c)]
wants == [c \in Callers |-> task[c].want]
answers == [c \in Callers |-> task[c].resp]

\* The other callers see nothing of a step of c.
LEMMA OthersSee ==
    ASSUME NEW c \in Callers, \A o \in Callers \ {c} : task'[o] = task[o]
    PROVE  Store!Others(c)
  <1>1. ASSUME NEW o \in Callers \ {c}
        PROVE  phases'[o] = phases[o] /\ wants'[o] = wants[o] /\ answers'[o] = answers[o]
    BY <1>1 DEF phases, wants, answers, Phase
  <1> QED BY <1>1 DEF Store!Others, phases, wants, answers

\* The initial states are initial states of the store.
LEMMA StoreInit == Init_RS => Store!Init
  <1> SUFFICES ASSUME Init_RS PROVE Store!Init
    OBVIOUS
  <1>1. now = 0 /\ log = {} /\ task = [c \in Callers |-> Idle(Work[home].calls[c])]
    BY DEF Init_RS, Init
  <1>2. \A n : Idle(n).pc = "idle"
    BY DEF Idle
  <1>3. \A c \in Callers : Phase(c) = "idle"
    BY <1>1, <1>2 DEF Phase
  <1> QED BY <1>1, <1>3 DEF Store!Init

\* Beginning a call asks the store.
LEMMA StoreBegin ==
    ASSUME DiscoInv, NEW c \in Callers, NEW w \in Wants, Begin(c, w)
    PROVE  Store!Next
  <1>1. \A o \in Callers \ {c} : task'[o] = task[o]
    BY BeginKeeps DEF TaskStep
  <1>2. task[c].pc = "idle" /\ task'[c].pc = "lookup" /\ UNCHANGED <<now, log>>
    BY DEF Begin, DiscoInv, TasksInv, TaskInv, IsTask, TaskFields
  <1>3. Store!Ask(c)
    BY <1>2 DEF Store!Ask, Phase
  <1> QED BY <1>1, <1>3, OthersSee DEF Store!Next

\* A step after which c sees the same as before is none of the store.
LEMMA StoreStutters ==
    ASSUME NEW c \in Callers, \A o \in Callers \ {c} : task'[o] = task[o], UNCHANGED <<now, log>>,
           Phase(c)' = Phase(c), task'[c].want = task[c].want, task'[c].resp = task[c].resp
    PROVE  UNCHANGED Store!vars
  <1>1. \A o \in Callers : Phase(o)' = Phase(o)
    BY DEF Phase
  <1>2. phases' = phases
    BY <1>1 DEF phases
  <1>3. wants' = wants
    BY DEF wants
  <1>4. answers' = answers
    BY DEF answers
  <1> QED BY <1>2, <1>3, <1>4 DEF Store!vars, phases, wants, answers

\* A hit is an answer that the log holds.
LEMMA StoreServed ==
    ASSUME DiscoInv, NEW c \in Callers, NEW l \in {"touch", "touch_locked"}, Served(c, l), Usable(c),
           task[c].want \in Wants, UNCHANGED <<now, home, cache, log>>, task[c].pc \in {"lookup", "wait"}
    PROVE  Store!Next
  <1>1. \A o \in Callers \ {c} : task'[o] = task[o]
    BY ServedKeeps DEF TaskStep
  <1> DEFINE r == Mine(c).resp
  <1>2. task'[c].pc = l /\ task'[c].want = task[c].want /\ task'[c].resp = r
    BY DEF Served, DiscoInv, TasksInv, TaskInv, IsTask, TaskFields
  <1>3. \E rec \in log : rec.want = task[c].want /\ rec.resp = r
    BY UsableFacts
  <1> HIDE DEF r
  <1>4. phases[c] = "asked" /\ phases'[c] = "given" /\ wants'[c] = wants[c] /\ answers'[c] = r
    BY <1>2 DEF phases, wants, answers, Phase
  <1>5. \E rec \in log : rec.want = wants[c] /\ rec.resp = answers'[c]
    BY <1>3, <1>4 DEF wants
  <1>6. Store!Share(c)
    BY <1>4, <1>5 DEF Store!Share, Store!Given, phases, wants, answers
  <1> QED BY <1>1, <1>6, OthersSee DEF Store!Next

\* A hit shares an answer that is recent enough; a miss stutters.
LEMMA StoreLookup ==
    ASSUME DiscoInv, NEW c \in Callers, Lookup(c)
    PROVE  [Store!Next]_(Store!vars)
  <1>1. task[c].pc = "lookup" /\ task[c].want \in Wants /\ UNCHANGED <<now, home, cache, log>>
    BY DEF Lookup, DiscoInv, TasksInv, TaskInv
  <1>2. CASE Usable(c)
    BY <1>1, <1>2, StoreServed DEF Lookup
  <1>3. CASE ~Usable(c)
    <2>1. \A o \in Callers \ {c} : task'[o] = task[o]
      BY LookupKeeps DEF TaskStep
    <2>2. task'[c].pc = "wait" /\ task'[c].want = task[c].want /\ task'[c].resp = task[c].resp
      BY <1>3 DEF Lookup, DiscoInv, TasksInv, TaskInv, IsTask, TaskFields
    <2>3. Phase(c)' = Phase(c)
      BY <1>1, <2>2 DEF Phase
    <2> QED BY <1>1, <2>1, <2>2, <2>3, StoreStutters
  <1> QED BY <1>2, <1>3

\* So does the second lookup; a miss there sends a request.
LEMMA StoreAcquire ==
    ASSUME DiscoInv, NEW c \in Callers, Acquire(c)
    PROVE  Store!Next
  <1>1. task[c].pc = "wait" /\ task[c].want \in Wants /\ UNCHANGED <<now, home, cache, log>>
    BY DEF Acquire, DiscoInv, TasksInv, TaskInv
  <1>2. \A o \in Callers \ {c} : task'[o] = task[o]
    BY AcquireKeeps DEF TaskStep
  <1>3. CASE Usable(c) /\ Served(c, "touch_locked")
    BY <1>1, <1>3, StoreServed
  <1>4. CASE task' = [task EXCEPT ![c].pc = "fetching", ![c].since = now]
    <2>1. task'[c].pc = "fetching" /\ task'[c].want = task[c].want
      BY <1>4 DEF DiscoInv, TasksInv, TaskInv, IsTask, TaskFields
    <2>2. Store!Send(c)
      BY <1>1, <2>1 DEF Store!Send, Phase
    <2> QED BY <1>2, <2>2, OthersSee DEF Store!Next
  <1> DEFINE r == handle_discovery_error(validate_url_scheme(task[c].want.address, task[c].want.policy))
  <1>5. CASE task' = [task EXCEPT ![c].pc = "fetched", ![c].since = now, ![c].resp = r]
    <2>1. ~r.ok
      BY RefusalFacts
    <2> HIDE DEF r
    <2>2. task'[c].pc = "fetched" /\ task'[c].want = task[c].want /\ task'[c].resp = r
      BY <1>5 DEF DiscoInv, TasksInv, TaskInv, IsTask, TaskFields
    <2>3. Store!Refuse(c)
      BY <1>1, <2>1, <2>2 DEF Store!Refuse, Store!Given, Phase
    <2> QED BY <1>2, <2>3, OthersSee DEF Store!Next
  <1> QED BY <1>3, <1>4, <1>5 DEF Acquire

\* An answer of the provider is the store's.
LEMMA StoreFetched ==
    ASSUME DiscoInv, NEW c \in Callers, Fetched(c)
    PROVE  Store!Next
  <1> DEFINE q == task[c]
  <1>1. /\ IsTask(q) /\ q.pc = "fetching" /\ q.want \in Wants /\ UNCHANGED <<now, home, cache>>
        /\ q.since \in Nat /\ q.since <= now /\ now <= q.since + MaxFlight
    BY DEF DiscoInv, TasksInv, TaskInv, Fetched
  <1>2. PICK r \in get_discovery_document[q.want] :
              /\ task' = [task EXCEPT ![c].pc = "fetched", ![c].resp = r]
              /\ log' = IF r.ok /\ ~is_uncacheable(r.cache_control)
                        THEN log \cup {Record(c, r)} ELSE log
    BY DEF Fetched
  <1>3. \A o \in Callers \ {c} : task'[o] = task[o]
    BY FetchedKeeps DEF TaskStep
  <1>4. task'[c].pc = "fetched" /\ task'[c].want = q.want /\ task'[c].resp = r
    BY <1>1, <1>2 DEF DiscoInv, TasksInv, IsTask, TaskFields
  <1>5. phases[c] = "sent" /\ phases'[c] = "given" /\ wants'[c] = wants[c] /\ answers'[c] = r
        /\ wants[c] = q.want
    BY <1>1, <1>4 DEF phases, wants, answers, Phase
  <1>6. Record(c, r) = [want |-> q.want, resp |-> r, at |-> q.since, ttl |-> TtlOf(r)]
    BY DEF Record
  <1>7. ASSUME NEW rec \in log' \ log
        PROVE  r.ok /\ rec.resp = r /\ rec.want = q.want /\ rec.at <= now /\ now <= rec.at + MaxFlight
    BY <1>1, <1>2, <1>6, <1>7
  <1>8. log \subseteq log' /\ \A rec, other \in log' \ log : rec = other
    BY <1>2
  <1>9. Store!Fetch(c)
    <2>1. Store!Given(c, "sent")
      BY <1>1, <1>5 DEF Store!Given, phases, wants
    <2>2. Admits(q.want, r)
      BY DEF Admits
    <2>3. answers'[c].ok => Admits(wants[c], answers'[c])
      BY <1>5, <2>2
    <2>4. \A rec \in log' \ log :
            /\ answers'[c].ok /\ rec.resp = answers'[c] /\ rec.want = wants[c]
            /\ rec.at <= now /\ now <= rec.at + MaxFlight
      BY <1>5, <1>7
    <2> QED BY <1>8, <2>1, <2>3, <2>4 DEF Store!Fetch, wants, answers
  <1> QED BY <1>3, <1>9, OthersSee DEF Store!Next

\* What happens between the answer and the return is hidden in the cache.
LEMMA StoreWrites ==
    ASSUME DiscoInv, NEW c \in Callers, Touch(c) \/ Apply(c)
    PROVE  UNCHANGED Store!vars
  <1>1. /\ task[c].pc \in {"touch", "touch_locked", "fetched"} /\ task'[c].pc = "done"
        /\ task'[c].want = task[c].want /\ task'[c].resp = task[c].resp
    BY DEF Touch, Apply, DiscoInv, TasksInv, TaskInv, IsTask, TaskFields
  <1>2. \A o \in Callers \ {c} : task'[o] = task[o]
    BY DEF Touch, Apply, DiscoInv, TasksInv
  <1>3. UNCHANGED <<now, log>>
    BY DEF Touch, Apply
  <1>4. Phase(c)' = Phase(c)
    BY <1>1 DEF Phase
  <1> QED BY <1>1, <1>2, <1>3, <1>4, StoreStutters

\* Leaving a call leaves the store.
LEMMA StoreLeave ==
    ASSUME DiscoInv, NEW c \in Callers, Cancel(c) \/ Return(c)
    PROVE  Store!Next
  <1>1. \A o \in Callers \ {c} : task'[o] = task[o]
    BY LeaveKeeps DEF TaskStep
  <1>2. task[c].pc # "idle" /\ task'[c].pc = "idle" /\ UNCHANGED <<now, log>>
    BY DEF Cancel, Return, Idle, DiscoInv, TasksInv
  <1>3. Store!Leave(c)
    BY <1>2 DEF Store!Leave, Phase
  <1> QED BY <1>1, <1>3, OthersSee DEF Store!Next

\* The clock of the cache is that of the store.
LEMMA StoreTick ==
    ASSUME Tick
    PROVE  Store!Next
  <1>1. /\ task' = task /\ now' = now + 1
        /\ log' = {rec \in log : now' < rec.at + rec.ttl + MaxFlight}
    BY DEF Tick
  <1>2. phases' = phases /\ wants' = wants /\ answers' = answers
    BY <1>1 DEF phases, wants, answers, Phase
  <1>3. log' = {rec \in log : Store!Young(rec, now')}
    BY <1>1 DEF Store!Young
  <1> QED BY <1>1, <1>2, <1>3 DEF Store!Next, Store!Tick, phases, wants, answers

\* Every step of the cache is a step of the store, or none.
LEMMA StoreStep ==
    ASSUME DiscoInv, [DiscoNext]_vars
    PROVE  [Store!Next]_(Store!vars)
  <1>1. ASSUME UNCHANGED <<now, task, log>>
        PROVE  UNCHANGED Store!vars
    <2>1. phases' = phases /\ wants' = wants /\ answers' = answers
      BY <1>1 DEF phases, wants, answers, Phase
    <2> QED BY <1>1, <2>1 DEF Store!vars, phases, wants, answers
  <1>2. CASE UNCHANGED vars
    BY <1>1, <1>2 DEF vars
  <1>3. ASSUME NEW c \in Callers, (\E w \in Wants : Begin(c, w)) \/ Step(c) \/ Return(c) \/ Cancel(c)
        PROVE  [Store!Next]_(Store!vars)
    BY <1>3, StoreBegin, StoreLookup, StoreAcquire, StoreFetched, StoreWrites, StoreLeave DEF Step
  <1>4. ASSUME NEW s \in Sides, clear_discovery_cache(s)
        PROVE  UNCHANGED Store!vars
    BY <1>1, <1>4 DEF clear_discovery_cache
  <1> QED BY <1>2, <1>3, <1>4, StoreTick DEF DiscoNext, Sides

\* The cache, its locks, evictions and clears are invisible but for the age of what is
\* served: _get_disco_response gives every caller what DiscoStore allows.
THEOREM ImplementsStoreHolds == Spec => ImplementsStore
  <1>1. DiscoInv /\ [Next]_rsVars => [Store!Next]_(Store!vars)
    <2> SUFFICES ASSUME DiscoInv, [Next]_rsVars PROVE [Store!Next]_(Store!vars)
      OBVIOUS
    <2>1. home \in DOMAIN Work
      BY DEF DiscoInv
    <2> QED BY <2>1, DiscoSteps, StoreStep
  <1> QED BY <1>1, StoreInit, DiscoInvariant, PTL DEF ImplementsStore, Store!Spec, Spec

-----------------------------------------------------------------------------
(* The counters                                                            *)

Hitting == {"touch", "touch_locked"}
Asking == {"fetching", "fetched"}

Counts(c, pcs) == Async(c) /\ task[c].pc \in pcs /\ _upstream_fetch_attempted(task[c].want)
Counted(pcs) == {c \in Callers : Counts(c, pcs)}
Number(pcs) == Cardinality(Counted(pcs))

\* The counters and the history are numbers, and agree.
CountInv ==
    /\ stats \in [hits : Nat, misses : Nat] /\ seen \in [shared : Nat, sent : Nat, dropped : Nat]
    /\ stats.hits + Number(Hitting) = seen.shared
    /\ stats.misses + Number(Asking) + seen.dropped = seen.sent

\* Callers at a place are finitely many.
LEMMA NumberType ==
    ASSUME NEW pcs
    PROVE  IsFiniteSet(Counted(pcs)) /\ Number(pcs) \in Nat
  <1>1. Counted(pcs) \subseteq Callers
    BY DEF Counted
  <1>2. IsFiniteSet(Counted(pcs))
    BY <1>1, PyDiscoAssumption, FS_Subset
  <1> QED BY <1>2, FS_CardinalityType DEF Number

\* A step of c changes a number by what becomes of c.
LEMMA NumberStep ==
    ASSUME NEW c \in Callers, home' = home, \A o \in Callers \ {c} : task'[o] = task[o], NEW pcs
    PROVE  /\ Number(pcs) \in Nat /\ Number(pcs)' \in Nat
           /\ (Counts(c, pcs)' <=> Counts(c, pcs)) => Number(pcs)' = Number(pcs)
           /\ Counts(c, pcs)' /\ ~Counts(c, pcs) => Number(pcs)' = Number(pcs) + 1
           /\ ~Counts(c, pcs)' /\ Counts(c, pcs) => Number(pcs)' + 1 = Number(pcs)
  <1> DEFINE A == Counted(pcs)
             B == {o \in Callers : Counts(o, pcs)'}
  <1>0. A = {o \in Callers : Counts(o, pcs)} /\ Counted(pcs)' = B
    BY DEF Counted
  <1>1. IsFiniteSet(A) /\ Number(pcs) = Cardinality(A) /\ Cardinality(A) \in Nat
    BY NumberType DEF Number
  <1>2. Number(pcs)' = Cardinality(B)
    BY <1>0 DEF Number
  <1>3. \A o \in Callers \ {c} : Counts(o, pcs)' <=> Counts(o, pcs)
    BY DEF Counts, Async, Side
  <1> HIDE DEF A
  <1>4. CASE Counts(c, pcs)' <=> Counts(c, pcs)
    <2>1. B = A
      BY <1>0, <1>3, <1>4
    <2> QED BY <1>1, <1>2, <1>4, <2>1
  <1>5. CASE Counts(c, pcs)' /\ ~Counts(c, pcs)
    <2>1. B = A \cup {c} /\ c \notin A
      BY <1>0, <1>3, <1>5
    <2>2. Cardinality(B) = Cardinality(A) + 1
      BY <1>1, <2>1, FS_AddElement
    <2> QED BY <1>1, <1>2, <1>5, <2>2
  <1>6. CASE ~Counts(c, pcs)' /\ Counts(c, pcs)
    <2>1. B = A \ {c} /\ c \in A
      BY <1>0, <1>3, <1>6
    <2>2. IsFiniteSet(B) /\ Cardinality(B) = Cardinality(A) - 1
      BY <1>1, <2>1, FS_RemoveElement
    <2>3. Cardinality(B) \in Nat
      BY <2>2, FS_CardinalityType
    <2> QED BY <1>1, <1>2, <1>6, <2>2, <2>3
  <1> QED BY <1>4, <1>5, <1>6

\* A step of c that counts nothing.
LEMMA CountKept ==
    ASSUME CountInv, NEW c \in Callers, UNCHANGED <<home, stats, seen>>,
           \A o \in Callers \ {c} : task'[o] = task[o],
           Counts(c, Hitting)' <=> Counts(c, Hitting), Counts(c, Asking)' <=> Counts(c, Asking)
    PROVE  CountInv'
  <1>1. Number(Hitting)' = Number(Hitting) /\ Number(Asking)' = Number(Asking)
    BY NumberStep
  <1> QED BY <1>1 DEF CountInv

\* A call that was found in the cache is a pending hit.
LEMMA ServedCounts ==
    ASSUME CountInv, DiscoInv, NEW c \in Callers, NEW l \in Hitting, Served(c, l), Usable(c),
           task[c].want \in Wants, UNCHANGED <<now, home, cache, log, stats>>,
           task[c].pc \in {"lookup", "wait"}
    PROVE  CountInv'
  <1>1. DiscoInv' /\ \A o \in Callers \ {c} : task'[o] = task[o]
    BY ServedKeeps DEF TaskStep, Hitting
  <1>2. task'[c].pc = l
    BY DEF Served, DiscoInv, TasksInv, TaskInv, IsTask, TaskFields
  <1>3. _upstream_fetch_attempted(task'[c].want)
    BY <1>1, <1>2 DEF DiscoInv, TasksInv, TaskInv, Hitting
  <1>4. ~Counts(c, Hitting) /\ ~Counts(c, Asking) /\ ~Counts(c, Asking)'
    BY <1>2 DEF Counts, Hitting, Asking
  <1>5. Counts(c, Hitting)' <=> Async(c)
    BY <1>2, <1>3 DEF Counts, Async, Side
  <1>6. Number(Asking)' = Number(Asking) /\ Number(Asking) \in Nat /\ Number(Hitting) \in Nat
    BY <1>1, <1>4, NumberStep
  <1>7. CASE Async(c)
    <2>1. Number(Hitting)' = Number(Hitting) + 1
      BY <1>1, <1>4, <1>5, <1>7, NumberStep
    <2>2. seen' = [seen EXCEPT !.shared = seen.shared + 1]
      BY <1>7 DEF Served
    <2> QED BY <1>6, <2>1, <2>2 DEF CountInv
  <1>8. CASE ~Async(c)
    <2>1. seen' = seen
      BY <1>8 DEF Served
    <2> QED BY <1>1, <1>4, <1>5, <1>8, <2>1, CountKept
  <1> QED BY <1>7, <1>8

\* A touch turns a pending hit into a counted one.
LEMMA TouchCounts ==
    ASSUME CountInv, DiscoInv, NEW c \in Callers, Touch(c)
    PROVE  CountInv'
  <1>1. /\ home' = home /\ seen' = seen /\ task'[c].pc = "done" /\ task[c].pc \in Hitting
        /\ \A o \in Callers \ {c} : task'[o] = task[o]
    BY DEF Touch, DiscoInv, TasksInv, TaskInv, IsTask, TaskFields, Hitting
  <1>2. ~Counts(c, Hitting)' /\ ~Counts(c, Asking)' /\ ~Counts(c, Asking)
    BY <1>1 DEF Counts, Hitting, Asking
  <1>3. Counts(c, Hitting) <=> Async(c)
    BY <1>1 DEF Counts, DiscoInv, TasksInv, TaskInv, Hitting
  <1>4. /\ Number(Asking)' = Number(Asking) /\ Number(Asking) \in Nat
        /\ Number(Hitting) \in Nat /\ Number(Hitting)' \in Nat
    BY <1>1, <1>2, NumberStep
  <1>5. CASE Async(c)
    <2>1. Number(Hitting)' + 1 = Number(Hitting)
      BY <1>1, <1>2, <1>3, <1>5, NumberStep
    <2>2. stats' = [stats EXCEPT !.hits = stats.hits + 1]
      BY <1>5 DEF Touch
    <2>3. /\ stats' \in [hits : Nat, misses : Nat] /\ stats.hits \in Nat
          /\ stats'.hits = stats.hits + 1 /\ stats'.misses = stats.misses
      BY <2>2 DEF CountInv
    <2>4. stats'.hits + Number(Hitting)' = seen.shared
      BY <1>4, <2>1, <2>3 DEF CountInv
    <2> QED BY <1>1, <1>4, <2>3, <2>4 DEF CountInv
  <1>6. CASE ~Async(c)
    <2>1. stats' = stats
      BY <1>6 DEF Touch
    <2> QED BY <1>1, <1>2, <1>3, <1>6, <2>1, CountKept
  <1> QED BY <1>5, <1>6

\* A request that is sent is a pending miss.
LEMMA AcquireCounts ==
    ASSUME CountInv, DiscoInv, NEW c \in Callers, Acquire(c)
    PROVE  CountInv'
  <1>1. /\ task[c].pc = "wait" /\ task[c].want \in Wants
        /\ UNCHANGED <<now, home, cache, log, stats>>
    BY DEF Acquire, DiscoInv, TasksInv, TaskInv
  <1>2. \A o \in Callers \ {c} : task'[o] = task[o]
    BY AcquireKeeps DEF TaskStep
  <1>3. ~Counts(c, Hitting) /\ ~Counts(c, Asking)
    BY <1>1 DEF Counts, Hitting, Asking
  <1>4. CASE Usable(c) /\ Served(c, "touch_locked")
    BY <1>1, <1>4, ServedCounts DEF Hitting
  <1>5. CASE /\ _upstream_fetch_attempted(task[c].want)
             /\ task' = [task EXCEPT ![c].pc = "fetching", ![c].since = now]
             /\ seen' = IF Async(c) THEN [seen EXCEPT !.sent = seen.sent + 1] ELSE seen
    <2>1. task'[c].pc = "fetching" /\ task'[c].want = task[c].want
      BY <1>5 DEF DiscoInv, TasksInv, TaskInv, IsTask, TaskFields
    <2>2. ~Counts(c, Hitting)' /\ (Counts(c, Asking)' <=> Async(c))
      BY <1>1, <1>5, <2>1 DEF Counts, Async, Side, Hitting, Asking
    <2>3. Number(Hitting)' = Number(Hitting) /\ Number(Asking) \in Nat /\ Number(Hitting) \in Nat
      BY <1>1, <1>2, <1>3, <2>2, NumberStep
    <2>4. CASE Async(c)
      <3>1. Number(Asking)' = Number(Asking) + 1
        BY <1>1, <1>2, <1>3, <2>2, <2>4, NumberStep
      <3>2. seen' = [seen EXCEPT !.sent = seen.sent + 1]
        BY <1>5, <2>4
      <3> QED BY <1>1, <2>3, <3>1, <3>2 DEF CountInv
    <2>5. CASE ~Async(c)
      BY <1>1, <1>2, <1>3, <1>5, <2>2, <2>5, CountKept
    <2> QED BY <2>4, <2>5
  <1> DEFINE r == handle_discovery_error(validate_url_scheme(task[c].want.address, task[c].want.policy))
  <1>6. CASE /\ ~_upstream_fetch_attempted(task[c].want) /\ seen' = seen
             /\ task' = [task EXCEPT ![c].pc = "fetched", ![c].since = now, ![c].resp = r]
    <2> HIDE DEF r
    <2>1. task'[c].pc = "fetched" /\ task'[c].want = task[c].want
      BY <1>6 DEF DiscoInv, TasksInv, TaskInv, IsTask, TaskFields
    <2>2. ~Counts(c, Hitting)' /\ ~Counts(c, Asking)'
      BY <1>6, <2>1 DEF Counts, Hitting, Asking
    <2> QED BY <1>1, <1>2, <1>3, <1>6, <2>2, CountKept
  <1> QED BY <1>4, <1>5, <1>6 DEF Acquire

\* An answer that is applied turns a pending miss into a counted one.
LEMMA ApplyCounts ==
    ASSUME CountInv, DiscoInv, NEW c \in Callers, Apply(c)
    PROVE  CountInv'
  <1>1. /\ home' = home /\ seen' = seen /\ task'[c].pc = "done" /\ task[c].pc = "fetched"
        /\ \A o \in Callers \ {c} : task'[o] = task[o]
    BY DEF Apply, DiscoInv, TasksInv, TaskInv, IsTask, TaskFields
  <1>2. ~Counts(c, Hitting)' /\ ~Counts(c, Asking)' /\ ~Counts(c, Hitting)
    BY <1>1 DEF Counts, Hitting, Asking
  <1>3. /\ Number(Hitting)' = Number(Hitting) /\ Number(Hitting) \in Nat
        /\ Number(Asking) \in Nat /\ Number(Asking)' \in Nat
    BY <1>1, <1>2, NumberStep
  <1>4. CASE Counts(c, Asking)
    <2>1. Number(Asking)' + 1 = Number(Asking)
      BY <1>1, <1>2, <1>4, NumberStep
    <2>2. stats' = [stats EXCEPT !.misses = stats.misses + 1]
      BY <1>4 DEF Apply, RecordMiss, Counts
    <2>3. /\ stats' \in [hits : Nat, misses : Nat] /\ stats.misses \in Nat
          /\ stats'.misses = stats.misses + 1 /\ stats'.hits = stats.hits
      BY <2>2 DEF CountInv
    <2>4. stats'.misses + Number(Asking)' = stats.misses + Number(Asking)
      BY <1>3, <2>1, <2>3
    <2> QED BY <1>1, <1>3, <2>3, <2>4 DEF CountInv
  <1>5. CASE ~Counts(c, Asking)
    <2>1. stats' = stats
      BY <1>1, <1>5 DEF Apply, RecordMiss, Counts, Asking
    <2> QED BY <1>1, <1>2, <1>5, <2>1, CountKept
  <1> QED BY <1>4, <1>5

\* A request that is cancelled is dropped, not counted.
LEMMA CancelCounts ==
    ASSUME CountInv, DiscoInv, NEW c \in Callers, Cancel(c)
    PROVE  CountInv'
  <1>1. \A o \in Callers \ {c} : task'[o] = task[o]
    BY LeaveKeeps DEF TaskStep
  <1>2. /\ home' = home /\ stats' = stats /\ task'[c].pc = "idle" /\ task[c].pc \in {"wait", "fetching"}
        /\ Async(c)
    BY DEF Cancel, Idle, DiscoInv, TasksInv
  <1>3. ~Counts(c, Hitting)' /\ ~Counts(c, Asking)' /\ ~Counts(c, Hitting)
    BY <1>2 DEF Counts, Hitting, Asking
  <1>4. /\ Number(Hitting)' = Number(Hitting) /\ Number(Hitting) \in Nat
        /\ Number(Asking) \in Nat /\ Number(Asking)' \in Nat
    BY <1>1, <1>2, <1>3, NumberStep
  <1>5. CASE task[c].pc = "fetching"
    <2>1. Counts(c, Asking)
      BY <1>2, <1>5 DEF Counts, Asking, DiscoInv, TasksInv, TaskInv
    <2>2. Number(Asking)' + 1 = Number(Asking)
      BY <1>1, <1>2, <1>3, <2>1, NumberStep
    <2>3. seen' = [seen EXCEPT !.dropped = seen.dropped + 1]
      BY <1>5 DEF Cancel
    <2>4. /\ seen' \in [shared : Nat, sent : Nat, dropped : Nat] /\ seen.dropped \in Nat
          /\ seen'.dropped = seen.dropped + 1 /\ seen'.shared = seen.shared /\ seen'.sent = seen.sent
      BY <2>3 DEF CountInv
    <2>5. stats.misses + Number(Asking)' + seen'.dropped = seen.sent
      <3>1. stats.misses \in Nat /\ stats.misses + Number(Asking) + seen.dropped = seen.sent
        BY DEF CountInv
      <3> QED BY <1>4, <2>2, <2>4, <3>1
    <2> QED BY <1>2, <1>4, <2>4, <2>5 DEF CountInv
  <1>6. CASE task[c].pc = "wait"
    <2>1. seen' = seen /\ ~Counts(c, Asking)
      BY <1>6 DEF Cancel, Counts, Asking
    <2> QED BY <1>1, <1>2, <1>3, <2>1, CountKept
  <1> QED BY <1>2, <1>5, <1>6

\* A step that starts a call, ends it, misses in the cache or has its answer.
LEMMA OtherCounts ==
    ASSUME CountInv, DiscoInv, NEW c \in Callers,
           (\E w \in Wants : Begin(c, w)) \/ Return(c) \/ Fetched(c) \/ (Lookup(c) /\ ~Usable(c))
    PROVE  CountInv'
  <1>1. UNCHANGED <<home, stats, seen>> /\ \A o \in Callers \ {c} : task'[o] = task[o]
    BY DEF Begin, Return, Fetched, Lookup, DiscoInv, TasksInv
  <1>2. \/ task[c].pc \in {"idle", "lookup", "done"} /\ task'[c].pc \in {"idle", "lookup", "wait"}
        \/ task[c].pc = "fetching" /\ task'[c].pc = "fetched" /\ task'[c].want = task[c].want
    <2>1. /\ task = [o \in Callers |-> task[o]]
          /\ task[c] = [f \in {"pc", "left", "want", "resp", "since"} |-> task[c][f]]
      BY DEF DiscoInv, TasksInv, TaskInv, IsTask, TaskFields
    <2>2. ASSUME NEW w \in Wants, Begin(c, w)
          PROVE  task[c].pc = "idle" /\ task'[c].pc = "lookup"
      BY <2>1, <2>2 DEF Begin
    <2>3. CASE Return(c)
      BY <2>1, <2>3 DEF Return, Idle
    <2>4. CASE Fetched(c)
      <3>1. PICK resp : task' = [task EXCEPT ![c] = [task[c] EXCEPT !.pc = "fetched", !.resp = resp]]
        BY <2>4 DEF Fetched
      <3>2. task'[c] = [task[c] EXCEPT !.pc = "fetched", !.resp = resp]
        BY <2>1, <3>1
      <3>3. task[c].pc = "fetching"
        BY <2>4 DEF Fetched
      <3> QED BY <2>1, <3>2, <3>3
    <2>5. CASE Lookup(c) /\ ~Usable(c)
      BY <2>1, <2>5 DEF Lookup
    <2> QED BY <2>2, <2>3, <2>4, <2>5
  <1>3. (Counts(c, Hitting)' <=> Counts(c, Hitting)) /\ (Counts(c, Asking)' <=> Counts(c, Asking))
    BY <1>1, <1>2 DEF Counts, Async, Side, Hitting, Asking
  <1> QED BY <1>1, <1>3, CountKept

\* Every step keeps the counters exact.
LEMMA CountStep ==
    ASSUME CountInv, DiscoInv, [DiscoNext]_vars
    PROVE  CountInv'
  <1>1. ASSUME UNCHANGED <<home, task, stats, seen>>
        PROVE  CountInv'
    <2>1. \A pcs : Number(pcs)' = Number(pcs)
      BY <1>1 DEF Number, Counted, Counts, Async, Side
    <2> QED BY <1>1, <2>1 DEF CountInv
  <1>2. ASSUME NEW c \in Callers, (\E w \in Wants : Begin(c, w)) \/ Step(c) \/ Return(c) \/ Cancel(c)
        PROVE  CountInv'
    <2>1. CASE Lookup(c) /\ Usable(c)
      <3>1. /\ task[c].pc = "lookup" /\ task[c].want \in Wants /\ Served(c, "touch")
            /\ UNCHANGED <<now, home, cache, log, stats>>
        BY <2>1 DEF Lookup, DiscoInv, TasksInv, TaskInv
      <3> QED BY <2>1, <3>1, ServedCounts DEF Hitting
    <2> QED BY <1>2, <2>1, OtherCounts, TouchCounts, AcquireCounts, ApplyCounts, CancelCounts DEF Step
  <1>3. CASE UNCHANGED vars \/ Tick \/ \E s \in {"sync", "aio"} : clear_discovery_cache(s)
    BY <1>1, <1>3 DEF vars, Tick, clear_discovery_cache
  <1> QED BY <1>2, <1>3 DEF DiscoNext

\* Initially nothing is counted.
LEMMA CountInit == Init_RS => CountInv
  <1> SUFFICES ASSUME Init_RS PROVE CountInv
    OBVIOUS
  <1>1. /\ stats = [hits |-> 0, misses |-> 0] /\ seen = [shared |-> 0, sent |-> 0, dropped |-> 0]
        /\ task = [c \in Callers |-> Idle(Work[home].calls[c])]
    BY DEF Init_RS, Init
  <1>2. \A n : Idle(n).pc = "idle"
    BY DEF Idle
  <1>3. Counted(Hitting) = {} /\ Counted(Asking) = {}
    BY <1>1, <1>2 DEF Counted, Counts, Hitting, Asking
  <1>4. Number(Hitting) = 0 /\ Number(Asking) = 0
    BY <1>3, FS_EmptySet DEF Number
  <1> QED BY <1>1, <1>4 DEF CountInv

\* Whatever is cancelled, refused, evicted or shared, and however many callers there are:
\* the hits and misses that cache_metrics.py reports are the calls that were served from
\* the cache and the requests that were sent and not cancelled.
THEOREM CountersExactHolds == Spec => []CountersExact
  <1>1. CountInv => CountersExact
    BY DEF CountInv, CountersExact, Number, Counted, Counts, Hitting, Asking
  <1>2. DiscoInv /\ CountInv /\ [Next]_rsVars => CountInv'
    <2> SUFFICES ASSUME DiscoInv, CountInv, [Next]_rsVars PROVE CountInv'
      OBVIOUS
    <2>1. home \in DOMAIN Work
      BY DEF DiscoInv
    <2> QED BY <2>1, DiscoSteps, CountStep
  <1> QED BY <1>1, <1>2, CountInit, DiscoInvariant, PTL DEF Spec

-----------------------------------------------------------------------------
(* The first check of a list that fails                                    *)

\* A set of positions has a least one.
LEMMA LeastPosition ==
    ASSUME NEW T, T \subseteq Nat, T # {}
    PROVE  \E i \in T : \A j \in T : i <= j
  <1>1. PICK i \in T : \A j \in T : ~(<<j, i>> \in OpToRel(<, Nat))
    BY WFMin, NatLessThanWellFounded, Zenon
  <1>2. \A j \in T : ~(j < i)
    BY <1>1 DEF OpToRel
  <1> QED BY <1>2

\* The first check that fails decides.
LEMMA FirstErrAt ==
    ASSUME NEW s, DOMAIN s \subseteq Nat, NEW i \in DOMAIN s, s[i] # "ok",
           \A j \in DOMAIN s : j < i => s[j] = "ok"
    PROVE  FirstErr(s) = s[i]
  <1> DEFINE bad == {j \in DOMAIN s : s[j] # "ok"}
             m == CHOOSE j \in bad : \A k \in bad : j <= k
  <1>1. i \in bad /\ \A k \in bad : i <= k
    OBVIOUS
  <1>2. m \in bad /\ \A k \in bad : m <= k
    BY <1>1
  <1> HIDE DEF m
  <1>3. m = i
    BY <1>1, <1>2
  <1>4. bad # {}
    BY <1>1
  <1> QED BY <1>3, <1>4 DEF FirstErr, m

\* Checks that all pass are no error.
LEMMA FirstErrNone ==
    ASSUME NEW s, \A i \in DOMAIN s : s[i] = "ok"
    PROVE  FirstErr(s) = "ok"
  BY DEF FirstErr

\* Two, three or four checks in a row.
LEMMA FirstErr2 ==
    ASSUME NEW a, NEW b
    PROVE  FirstErr(<<a, b>>) = IF a # "ok" THEN a ELSE b
  <1> DEFINE s == <<a, b>>
  <1>1. DOMAIN s = {1, 2} /\ s[1] = a /\ s[2] = b
    OBVIOUS
  <1> HIDE DEF s
  <1>2. FirstErr(s) = IF a # "ok" THEN a ELSE b
    <2>1. CASE a # "ok"
      BY <1>1, <2>1, FirstErrAt
    <2>2. CASE a = "ok" /\ b # "ok"
      BY <1>1, <2>2, FirstErrAt
    <2>3. CASE a = "ok" /\ b = "ok"
      BY <1>1, <2>3, FirstErrNone
    <2> QED BY <2>1, <2>2, <2>3
  <1> QED BY <1>2 DEF s

\* FirstErr of three checks.
LEMMA FirstErr3 ==
    ASSUME NEW a, NEW b, NEW c
    PROVE  FirstErr(<<a, b, c>>) = IF a # "ok" THEN a ELSE IF b # "ok" THEN b ELSE c
  <1> DEFINE s == <<a, b, c>>
  <1>1. DOMAIN s = {1, 2, 3} /\ s[1] = a /\ s[2] = b /\ s[3] = c
    OBVIOUS
  <1> HIDE DEF s
  <1>2. FirstErr(s) = IF a # "ok" THEN a ELSE IF b # "ok" THEN b ELSE c
    <2>1. CASE a # "ok"
      BY <1>1, <2>1, FirstErrAt
    <2>2. CASE a = "ok" /\ b # "ok"
      BY <1>1, <2>2, FirstErrAt
    <2>3. CASE a = "ok" /\ b = "ok" /\ c # "ok"
      BY <1>1, <2>3, FirstErrAt
    <2>4. CASE a = "ok" /\ b = "ok" /\ c = "ok"
      BY <1>1, <2>4, FirstErrNone
    <2> QED BY <2>1, <2>2, <2>3, <2>4
  <1> QED BY <1>2 DEF s

\* FirstErr of four checks.
LEMMA FirstErr4 ==
    ASSUME NEW a, NEW b, NEW c, NEW d
    PROVE  FirstErr(<<a, b, c, d>>) =
             IF a # "ok" THEN a ELSE IF b # "ok" THEN b ELSE IF c # "ok" THEN c ELSE d
  <1> DEFINE s == <<a, b, c, d>>
  <1>1. DOMAIN s = {1, 2, 3, 4} /\ s[1] = a /\ s[2] = b /\ s[3] = c /\ s[4] = d
    OBVIOUS
  <1> HIDE DEF s
  <1>2. FirstErr(s) = IF a # "ok" THEN a ELSE IF b # "ok" THEN b ELSE IF c # "ok" THEN c ELSE d
    <2>1. CASE a # "ok"
      BY <1>1, <2>1, FirstErrAt
    <2>2. CASE a = "ok" /\ b # "ok"
      BY <1>1, <2>2, FirstErrAt
    <2>3. CASE a = "ok" /\ b = "ok" /\ c # "ok"
      BY <1>1, <2>3, FirstErrAt
    <2>4. CASE a = "ok" /\ b = "ok" /\ c = "ok" /\ d # "ok"
      BY <1>1, <2>4, FirstErrAt
    <2>5. CASE a = "ok" /\ b = "ok" /\ c = "ok" /\ d = "ok"
      BY <1>1, <2>5, FirstErrNone
    <2> QED BY <2>1, <2>2, <2>3, <2>4, <2>5
  <1> QED BY <1>2 DEF s

\* A list whose first failure is none has no failure.
LEMMA FirstErrOk ==
    ASSUME NEW s, DOMAIN s \subseteq Nat, FirstErr(s) = "ok", NEW i \in DOMAIN s
    PROVE  s[i] = "ok"
  <1> DEFINE bad == {j \in DOMAIN s : s[j] # "ok"}
  <1>1. CASE bad = {}
    BY <1>1
  <1>2. CASE bad # {}
    <2>1. PICK m \in bad : \A k \in bad : m <= k
      BY <1>2, LeastPosition
    <2>2. FirstErr(s) = s[m]
      BY <2>1, FirstErrAt
    <2> QED BY <2>1, <2>2
  <1> QED BY <1>1, <1>2

-----------------------------------------------------------------------------
(* When a token is decoded                                                 *)

\* A check passes when its condition holds.
LEMMA CheckOk ==
    ASSUME NEW cond \in BOOLEAN, NEW err, err # "ok"
    PROVE  Check(cond, err) = "ok" <=> cond
  BY DEF Check

\* Wrapping an exception makes no success of it.
LEMMA WrappedOk ==
    ASSUME NEW err
    PROVE  Wrapped(err) = "ok" <=> err = "ok"
  BY DEF Wrapped

\* pyjwt_decode accepts a token exactly when all of this holds.
Decodes(tok, key, algorithms, audience, issuer, options, leeway) ==
    /\ KtyOf(algorithms[1]) = key.kty /\ key.form = "dict"
    /\ tok.wf /\ tok.alg \in Members(algorithms)
    /\ tok.mat = key.mat /\ tok.alg = algorithms[1]
    /\ ~Expired(tok, leeway)
    /\ issuer = NoIssuer \/ tok.iss # None
    /\ issuer = NoIssuer \/ tok.iss \in issuer
    /\ options = "verify_aud=False" \/ audience # None \/ tok.aud = {}
    /\ options = "verify_aud=False" \/ audience = None \/ tok.aud # {}
    /\ options = "verify_aud=False" \/ audience \in {None} \cup tok.aud

\* When jwt.decode returns.
LEMMA PyjwtOk ==
    ASSUME NEW tok, NEW key, NEW algorithms, NEW audience, NEW issuer, NEW options, NEW leeway
    PROVE  pyjwt_decode(tok, key, algorithms, audience, issuer, options, leeway) = "ok"
             <=> Decodes(tok, key, algorithms, audience, issuer, options, leeway)
  <1> DEFINE s == <<PyJWK(key, algorithms[1]),
               Check(tok.wf /\ tok.alg \in Members(algorithms), "InvalidTokenError"),
               Check(tok.mat = key.mat /\ tok.alg = algorithms[1], "InvalidSignatureError"),
               Check(~Expired(tok, leeway), "ExpiredSignatureError"),
               Check(issuer = NoIssuer \/ tok.iss # None, "InvalidTokenError"),
               Check(issuer = NoIssuer \/ tok.iss \in issuer, "InvalidIssuerError"),
               Check(options = "verify_aud=False" \/ audience # None \/ tok.aud = {},
                     "InvalidAudienceError"),
               Check(options = "verify_aud=False" \/ audience = None \/ tok.aud # {},
                     "InvalidTokenError"),
               Check(options = "verify_aud=False" \/ audience \in {None} \cup tok.aud,
                     "InvalidAudienceError")>>
  <1>1. DOMAIN s = {1, 2, 3, 4, 5, 6, 7, 8, 9}
    OBVIOUS
  <1>2. (s[1] = "ok" /\ s[2] = "ok" /\ s[3] = "ok" /\ s[4] = "ok" /\ s[5] = "ok" /\ s[6] = "ok"
         /\ s[7] = "ok" /\ s[8] = "ok" /\ s[9] = "ok")
        <=> Decodes(tok, key, algorithms, audience, issuer, options, leeway)
    BY DEF PyJWK, Check, Decodes
  <1>3. pyjwt_decode(tok, key, algorithms, audience, issuer, options, leeway) = FirstErr(s)
    BY DEF pyjwt_decode
  <1> HIDE DEF s
  <1>4. FirstErr(s) = "ok" <=> \A i \in DOMAIN s : s[i] = "ok"
    BY <1>1, FirstErrOk, FirstErrNone
  <1> QED BY <1>1, <1>2, <1>3, <1>4

\* When decode_and_validate_jwt returns.
LEMMA DecodeOk ==
    ASSUME NEW tok, NEW key, NEW algorithms, NEW audience, NEW issuer, NEW options, NEW leeway,
           NEW subject, IsKey(key)
    PROVE  decode_and_validate_jwt(tok, key, algorithms, audience, issuer, options, leeway, subject) = "ok"
             <=> /\ algorithms # <<>> /\ issuer # {} /\ options # "verify_exp=False" /\ key.form # "other"
                 /\ Decodes(tok, [key EXCEPT !.form = "dict"], algorithms, audience, issuer, options, leeway)
                 /\ subject \in {None, tok.sub}
  <1> DEFINE pre == FirstErr(<<Check(algorithms # <<>>, "Configuration"),
                               Check(issuer # {}, "Configuration"),
                               _sanitize_options(options),
                               Check(key.form # "other", "Configuration")>>)
             k == _normalize_verification_key(key)
             d == pyjwt_decode(tok, k, algorithms, audience, issuer, options, leeway)
             last == Check(subject \in {None, tok.sub}, "TokenValidation")
  <1>1. pre = "ok" <=> /\ algorithms # <<>> /\ issuer # {} /\ options # "verify_exp=False"
                       /\ key.form # "other"
    BY FirstErr4 DEF Check, _sanitize_options
  <1>2. d = "ok" <=> Decodes(tok, k, algorithms, audience, issuer, options, leeway)
    BY PyjwtOk
  <1>3. FirstErr(<<Wrapped(d), last>>) = "ok" <=> d = "ok" /\ last = "ok"
    BY WrappedOk, FirstErr2
  <1>4. last = "ok" <=> subject \in {None, tok.sub}
    BY DEF Check
  <1>5. key.form # "other" => k = [key EXCEPT !.form = "dict"]
    BY DEF _normalize_verification_key
  <1>6. decode_and_validate_jwt(tok, key, algorithms, audience, issuer, options, leeway, subject)
          = IF pre # "ok" THEN pre ELSE FirstErr(<<Wrapped(d), last>>)
    BY DEF decode_and_validate_jwt
  <1> HIDE DEF pre, k, d, last
  <1> QED BY <1>1, <1>2, <1>3, <1>4, <1>5, <1>6

\* When a key and an algorithm are consistent.
LEMMA ConsistencyOk ==
    ASSUME NEW key, NEW alg
    PROVE  _validate_key_alg_consistency(key, alg) = "ok" <=>
             \/ alg = None
             \/ /\ alg # "<number>" /\ alg # "none" /\ KtyOf(alg) \in {None, key.kty}
                /\ key.alg \in {None, alg}
  <1> DEFINE s == FirstErr(<<_reject_non_string_alg(alg), Check(alg # "none", "TokenValidation"),
                             Check(KtyOf(alg) \in {None, key.kty}, "TokenValidation"),
                             Check(key.alg \in {None, alg}, "TokenValidation")>>)
  <1>1. s = "ok" <=> /\ alg # "<number>" /\ alg # "none" /\ KtyOf(alg) \in {None, key.kty}
                     /\ key.alg \in {None, alg}
    BY FirstErr4 DEF Check, _reject_non_string_alg
  <1>2. _validate_key_alg_consistency(key, alg) = IF alg = None THEN "ok" ELSE s
    BY DEF _validate_key_alg_consistency
  <1> HIDE DEF s
  <1> QED BY <1>1, <1>2

\* The candidates are keys of the set.
LEMMA PoolWithin ==
    ASSUME NEW kid, NEW keys, NEW alg
    PROVE  Pool(kid, keys, alg) \subseteq DOMAIN keys
  <1>1. ASSUME NEW pos, pos \subseteq DOMAIN keys, NEW fitting
        PROVE  Narrow(pos, fitting) \subseteq DOMAIN keys
    BY <1>1 DEF Narrow
  <1>2. ASSUME NEW pos, pos \subseteq DOMAIN keys
        PROVE  NarrowByType(keys, pos, alg) \subseteq DOMAIN keys
    BY <1>1, <1>2 DEF NarrowByType
  <1>3. ASSUME NEW pos, pos \subseteq DOMAIN keys
        PROVE  NarrowByAlg(keys, pos, alg) \subseteq DOMAIN keys
    BY <1>1, <1>2, <1>3 DEF NarrowByAlg
  <1>4. _no_kid_candidates(keys, alg) \subseteq DOMAIN keys
    BY <1>1, <1>3 DEF _no_kid_candidates
  <1> QED BY <1>4 DEF Pool

\* What find_key_by_kid finds is a key of the set that fits the header.
LEMMA FoundFacts ==
    ASSUME NEW kid, NEW keys, DOMAIN keys \subseteq Nat, NEW alg,
           find_key_by_kid(kid, keys, alg).err = "ok"
    PROVE  \E i \in DOMAIN keys :
             LET found == find_key_by_kid(kid, keys, alg) IN
             /\ found.key = keys[i] /\ kid \in {None, keys[i].kid}
             /\ alg = None \/ keys[i].alg \in {None, alg}
             /\ found.alg = IF keys[i].alg # None THEN keys[i].alg
                            ELSE IF alg # None THEN alg ELSE "RS256"
  <1> DEFINE pool == Pool(kid, keys, alg)
             default == IF alg # None THEN alg ELSE "RS256"
             key == First(keys, pool)
             found == find_key_by_kid(kid, keys, alg)
             i == CHOOSE j \in pool : \A k \in pool : j <= k
  <1>1. found = Picked(keys, pool, kid, alg, default)
    BY DEF find_key_by_kid
  <1>2. NoKey.err # "ok"
    BY DEF NoKey
  <1>3. /\ pool # {} /\ _validate_key_alg_consistency(key, alg) = "ok"
        /\ found = [err |-> "ok", key |-> key, alg |-> IF key.alg # None THEN key.alg ELSE default]
    BY <1>1, <1>2 DEF Picked
  <1>4. pool \subseteq DOMAIN keys
    BY PoolWithin
  <1>5. kid # None => \A j \in pool : keys[j].kid = kid
    BY DEF Pool
  <1>6. key = keys[i]
    BY DEF First
  <1> HIDE DEF pool
  <1>7. \E j \in pool : \A k \in pool : j <= k
    BY <1>3, <1>4, LeastPosition
  <1>8. i \in pool
    BY <1>7
  <1> HIDE DEF i, key, found, default
  <1>9. alg = None \/ key.alg \in {None, alg}
    BY <1>3, ConsistencyOk
  <1>10. found.key = keys[i] /\ found.alg = IF keys[i].alg # None THEN keys[i].alg ELSE default
    BY <1>3, <1>6
  <1>11. i \in DOMAIN keys /\ kid \in {None, keys[i].kid}
    BY <1>4, <1>5, <1>8
  <1> QED BY <1>6, <1>9, <1>10, <1>11 DEF found, default

\* When decode_with_config returns.
LEMMA DecodeConfigOk ==
    ASSUME NEW tok, NEW cfg, NEW issuer
    PROVE  LET effective == IF issuer # NoIssuer THEN issuer ELSE cfg.issuer IN
           decode_with_config(tok, cfg, issuer) = "ok" <=>
             /\ cfg.key # <<>> /\ cfg.algorithms # <<>>
             /\ \/ cfg.allowed = NoIssuer
                \/ effective \notin {{}, NoIssuer} /\ effective \subseteq cfg.allowed
             /\ decode_and_validate_jwt(tok, cfg.key[1], cfg.algorithms, cfg.audience, effective,
                                        cfg.options, cfg.leeway, cfg.subject) = "ok"
  <1> DEFINE effective == IF issuer # NoIssuer THEN issuer ELSE cfg.issuer
             d == decode_and_validate_jwt(tok, cfg.key[1], cfg.algorithms, cfg.audience, effective,
                                          cfg.options, cfg.leeway, cfg.subject)
             a == Check(cfg.key # <<>> /\ cfg.algorithms # <<>>, "Configuration")
             b == IF cfg.allowed = NoIssuer THEN "ok"
                  ELSE _enforce_allowed_issuers(effective, cfg.allowed)
             e == IF cfg.key = <<>> THEN "Configuration" ELSE d
  <1>1. decode_with_config(tok, cfg, issuer) = FirstErr(<<a, b, e>>)
    BY DEF decode_with_config
  <1>2. b = "ok" <=> \/ cfg.allowed = NoIssuer
                     \/ effective \notin {{}, NoIssuer} /\ effective \subseteq cfg.allowed
    BY DEF _enforce_allowed_issuers, Check
  <1>3. a = "ok" <=> cfg.key # <<>> /\ cfg.algorithms # <<>>
    BY DEF Check
  <1> HIDE DEF effective, d, a, b
  <1>4. FirstErr(<<a, b, e>>) = "ok" <=> a = "ok" /\ b = "ok" /\ cfg.key # <<>> /\ d = "ok"
    BY FirstErr3
  <1>5. decode_with_config(tok, cfg, issuer) = "ok" <=>
             /\ cfg.key # <<>> /\ cfg.algorithms # <<>>
             /\ \/ cfg.allowed = NoIssuer
                \/ effective \notin {{}, NoIssuer} /\ effective \subseteq cfg.allowed
             /\ d = "ok"
    BY <1>1, <1>2, <1>3, <1>4
  <1> QED BY <1>5 DEF d, effective

CfgFields == {"perform_disco", "key", "algorithms", "audience", "issuer", "options", "leeway", "subject",
              "allowed", "validator"}

\* A decoded token was made with the configured key, for the issuer and the audience.
LEMMA DecodeConfigSound ==
    ASSUME NEW tok, NEW cfg, NEW issuer, NEW effective,
           effective = IF issuer # NoIssuer THEN issuer ELSE cfg.issuer,
           cfg.key # <<>> => IsKey(cfg.key[1]), decode_with_config(tok, cfg, issuer) = "ok"
    PROVE  /\ tok.wf /\ ~Expired(tok, cfg.leeway) /\ cfg.key # <<>> /\ tok.alg = cfg.algorithms[1]
           /\ cfg.key[1].mat = tok.mat /\ cfg.key[1].kty = KtyOf(tok.alg)
           /\ effective # NoIssuer => tok.iss \in effective
           /\ cfg.allowed # NoIssuer => tok.iss \in cfg.allowed
           /\ cfg.options # "verify_aud=False" =>
                IF cfg.audience = None THEN tok.aud = {} ELSE cfg.audience \in tok.aud
  <1> DEFINE key == cfg.key[1]
             k == [key EXCEPT !.form = "dict"]
  <1>1. /\ cfg.key # <<>>
        /\ \/ cfg.allowed = NoIssuer
           \/ effective \notin {{}, NoIssuer} /\ effective \subseteq cfg.allowed
        /\ decode_and_validate_jwt(tok, key, cfg.algorithms, cfg.audience, effective,
                                   cfg.options, cfg.leeway, cfg.subject) = "ok"
    BY DecodeConfigOk
  <1>2. IsKey(key)
    BY <1>1
  <1>3. k.mat = key.mat /\ k.kty = key.kty
    BY <1>2 DEF IsKey
  <1> HIDE DEF key
  <1>4. Decodes(tok, k, cfg.algorithms, cfg.audience, effective, cfg.options, cfg.leeway)
    BY <1>1, <1>2, DecodeOk
  <1> HIDE DEF k
  <1>5. /\ tok.wf /\ ~Expired(tok, cfg.leeway) /\ tok.alg = cfg.algorithms[1]
        /\ tok.mat = key.mat /\ key.kty = KtyOf(tok.alg)
    BY <1>3, <1>4 DEF Decodes
  <1>6. effective # NoIssuer => tok.iss \in effective
    BY <1>4 DEF Decodes
  <1>7. cfg.options # "verify_aud=False" =>
          IF cfg.audience = None THEN tok.aud = {} ELSE cfg.audience \in tok.aud
    BY <1>4 DEF Decodes
  <1> QED BY <1>1, <1>5, <1>6, <1>7 DEF key

\* A set of keys that the provider published.
IsKeySet(keys) ==
    /\ DOMAIN keys \subseteq Nat /\ IsFiniteSet(DOMAIN keys)
    /\ \A i \in DOMAIN keys : IsKey(keys[i]) /\ keys[i].form = "dict" /\ keys[i].kty # None

\* ResolveAndDecode accepts only what a published key signed.
LEMMA ResolveSound ==
    ASSUME NEW tok, NEW cfg, DOMAIN cfg = CfgFields, NEW disco, disco.issuer # None, NEW jwks,
           IsKeySet(jwks.keys), ResolveAndDecode(tok, cfg, disco, jwks) = "ok"
    PROVE  /\ tok.wf /\ ~Expired(tok, cfg.leeway) /\ tok.iss = disco.issuer
           /\ \E k \in Members(jwks.keys) :
                /\ k.mat = tok.mat /\ k.kty = KtyOf(tok.alg)
                /\ k.alg \in {None, tok.alg} /\ tok.kid \in {None, k.kid}
           /\ cfg.allowed # NoIssuer => tok.iss \in cfg.allowed
           /\ cfg.options # "verify_aud=False" =>
                IF cfg.audience = None THEN tok.aud = {} ELSE cfg.audience \in tok.aud
  <1> DEFINE found == find_key_by_kid(tok.kid, jwks.keys, tok.alg)
             pre == FirstErr(<<validate_jwks_response(jwks), extract_jwt_header_fields(tok)>>)
  <1>1. pre = "ok" /\ DecodeFound(tok, cfg, disco, found) = "ok"
    BY DEF ResolveAndDecode
  <1>2. found.err = "ok"
    BY <1>1 DEF DecodeFound
  <1>3. PICK i \in DOMAIN jwks.keys :
             /\ found.key = jwks.keys[i] /\ tok.kid \in {None, jwks.keys[i].kid}
             /\ tok.alg = None \/ jwks.keys[i].alg \in {None, tok.alg}
             /\ found.alg = IF jwks.keys[i].alg # None THEN jwks.keys[i].alg
                            ELSE IF tok.alg # None THEN tok.alg ELSE "RS256"
    BY <1>2, FoundFacts DEF IsKeySet
  <1> HIDE DEF found
  <1> DEFINE key == jwks.keys[i]
             rcfg == [cfg EXCEPT !.key = <<found.key>>, !.algorithms = <<found.alg>>]
  <1>4. decode_with_config(tok, rcfg, {disco.issuer}) = "ok"
    BY <1>1 DEF DecodeFound, DecodeResolved, build_resolved_config
  <1>5. /\ rcfg.key = <<key>> /\ rcfg.algorithms = <<found.alg>> /\ rcfg.allowed = cfg.allowed
        /\ rcfg.audience = cfg.audience /\ rcfg.options = cfg.options /\ rcfg.leeway = cfg.leeway
    BY <1>3 DEF CfgFields
  <1> HIDE DEF rcfg
  <1>6. rcfg.key[1] = key /\ rcfg.algorithms[1] = found.alg /\ IsKey(key)
    BY <1>5 DEF IsKeySet
  <1>7. {disco.issuer} # NoIssuer
    BY DEF NoIssuer
  <1>8. /\ tok.wf /\ ~Expired(tok, cfg.leeway) /\ tok.alg = found.alg
        /\ key.mat = tok.mat /\ key.kty = KtyOf(tok.alg) /\ tok.iss \in {disco.issuer}
        /\ cfg.allowed # NoIssuer => tok.iss \in cfg.allowed
        /\ cfg.options # "verify_aud=False" =>
             IF cfg.audience = None THEN tok.aud = {} ELSE cfg.audience \in tok.aud
    BY <1>4, <1>5, <1>6, <1>7, DecodeConfigSound
  <1>9. tok.alg # None
    BY <1>3, <1>8 DEF None
  <1>10. key \in Members(jwks.keys) /\ key.alg \in {None, tok.alg} /\ tok.kid \in {None, key.kid}
    BY <1>3, <1>9 DEF Members
  <1> QED BY <1>8, <1>10

\* A response of the JWKS endpoint.
IsJwks(jwks) == jwks = [st |-> jwks.st, keys |-> jwks.keys] /\ IsKeySet(jwks.keys)

\* What validate_token may learn from the provider.
IsEnv(env) ==
    /\ env = [address |-> env.address, disco |-> env.disco, attempt |-> env.attempt,
              jwks |-> env.jwks, jwks2 |-> env.jwks2, jwks3 |-> env.jwks3]
    /\ IsJwks(env.jwks) /\ IsJwks(env.jwks2) /\ IsJwks(env.jwks3)
    /\ env.attempt.miss \in BOOLEAN /\ env.attempt.retry \in BOOLEAN
    /\ env.disco.st \in {"ok", "network"} => env.address
    /\ env.disco.st = "ok" => env.disco.issuer # None
    /\ env.disco.st = "ok" /\ env.jwks.st = "ok" => env.disco.jwks_uri

IsConfig(cfg) ==
    DOMAIN cfg = CfgFields /\ (cfg.key = <<>> \/ (DOMAIN cfg.key = {1} /\ IsKey(cfg.key[1])))

\* The keys that a token is looked up in were obtained.
LEMMA LookedObtained ==
    ASSUME NEW tok, NEW env
    PROVE  Looked(tok, env) \in Obtained(env)
  BY DEF Looked, Obtained

\* A token that is decoded is genuine.
LEMMA DecodedSound ==
    ASSUME NEW tok, NEW cfg, IsConfig(cfg), NEW env, IsEnv(env), Decoded(tok, cfg, env) = "ok"
    PROVE  Genuine(tok, cfg, env)
  <1>1. IF cfg.perform_disco THEN DiscoAndDecode(tok, cfg, env) = "ok"
        ELSE decode_with_config(tok, cfg, NoIssuer) = "ok"
    BY FirstErr2 DEF Decoded
  <1>2. CASE cfg.perform_disco
    <2> DEFINE pre == FirstErr(<<Check(env.address, "Configuration"),
                                 validate_disco_response(env.disco), validate_jwks_uri(env.disco)>>)
    <2>1. /\ pre = "ok"
          /\ Retried(_discover_and_resolve_key(tok, cfg, env), _retry_with_refreshed_jwks(tok, cfg, env)) = "ok"
      BY <1>1, <1>2 DEF DiscoAndDecode
    <2>2. validate_disco_response(env.disco) = "ok"
      BY <2>1, FirstErr3
    <2>3. env.disco.st = "ok"
      BY <2>2 DEF validate_disco_response, Check
    <2>4. PICK jwks \in Obtained(env) : ResolveAndDecode(tok, cfg, env.disco, jwks) = "ok"
      <3>1. CASE _discover_and_resolve_key(tok, cfg, env) = "ok"
        <4>1. ResolveAndDecode(tok, cfg, env.disco, Looked(tok, env)) = "ok"
          BY <3>1 DEF _discover_and_resolve_key
        <4> QED BY <4>1, LookedObtained
      <3>2. CASE _retry_with_refreshed_jwks(tok, cfg, env) = "ok"
        <4>1. env.attempt.retry /\ ResolveAndDecode(tok, cfg, env.disco, env.jwks3) = "ok"
          BY <3>2 DEF _retry_with_refreshed_jwks
        <4> QED BY <4>1 DEF Obtained
      <3> QED BY <2>1, <3>1, <3>2 DEF Retried
    <2>5. IsKeySet(jwks.keys) /\ env.disco.issuer # None /\ DOMAIN cfg = CfgFields
      BY <2>3 DEF IsEnv, IsJwks, IsConfig, Obtained
    <2>6. /\ tok.wf /\ ~Expired(tok, cfg.leeway) /\ tok.iss = env.disco.issuer
          /\ \E k \in Members(jwks.keys) :
               /\ k.mat = tok.mat /\ k.kty = KtyOf(tok.alg)
               /\ k.alg \in {None, tok.alg} /\ tok.kid \in {None, k.kid}
          /\ cfg.allowed # NoIssuer => tok.iss \in cfg.allowed
          /\ cfg.options # "verify_aud=False" =>
               IF cfg.audience = None THEN tok.aud = {} ELSE cfg.audience \in tok.aud
      BY <2>4, <2>5, ResolveSound
    <2>7. Members(jwks.keys) \subseteq Published(env)
      BY DEF Published
    <2> QED BY <1>2, <2>6, <2>7 DEF Genuine
  <1>3. CASE ~cfg.perform_disco
    <2>1. decode_with_config(tok, cfg, NoIssuer) = "ok"
      BY <1>1, <1>3
    <2>2. cfg.key # <<>> => IsKey(cfg.key[1]) /\ DOMAIN cfg.key = {1}
      BY DEF IsConfig
    <2>3. /\ tok.wf /\ ~Expired(tok, cfg.leeway) /\ cfg.key # <<>>
          /\ cfg.key[1].mat = tok.mat /\ cfg.key[1].kty = KtyOf(tok.alg)
          /\ cfg.issuer # NoIssuer => tok.iss \in cfg.issuer
          /\ cfg.allowed # NoIssuer => tok.iss \in cfg.allowed
          /\ cfg.options # "verify_aud=False" =>
               IF cfg.audience = None THEN tok.aud = {} ELSE cfg.audience \in tok.aud
      BY <2>1, <2>2, DecodeConfigSound
    <2>4. cfg.key[1] \in Members(cfg.key)
      BY <2>2, <2>3 DEF Members
    <2> QED BY <1>3, <2>3, <2>4 DEF Genuine
  <1> QED BY <1>2, <1>3

\* What validate_token, or the function around it, accepts was decoded.
LEMMA TwinDecodes ==
    ASSUME NEW rq, rq.kind \in {"http", "ws", "token", "id_token", "logout_token"}, NEW env, NEW async,
           Twin(rq, env, async) = "ok"
    PROVE  Decoded(rq.tok, ConfigOf(rq), env) = "ok"
  <1> DEFINE tok == rq.tok
  <1>1. ASSUME NEW cfg, validate_token_aio(tok, cfg, env) = "ok" \/ validate_token_sync(tok, cfg, env) = "ok"
        PROVE  Decoded(tok, cfg, env) = "ok"
    BY <1>1, FirstErr2 DEF validate_token_aio, validate_token_sync
  <1>2. CASE rq.kind \in {"http", "ws"}
    BY <1>1, <1>2 DEF Twin, ServerErr, ConfigOf
  <1>3. CASE rq.kind = "token"
    BY <1>1, <1>3 DEF Twin, ConfigOf
  <1>4. CASE rq.kind = "id_token"
    <2>1. \/ validate_token_aio(tok, Config(rq), env) = "ok"
          \/ validate_token_sync(tok, Config(rq), env) = "ok"
      BY <1>4, FirstErr2 DEF Twin, validate_id_token_aio, validate_id_token_sync
    <2> QED BY <1>1, <1>4, <2>1 DEF ConfigOf
  <1>5. CASE rq.kind = "logout_token"
    <2>1. \/ validate_token_aio(tok, Config(rq), env) = "ok"
          \/ validate_token_sync(tok, Config(rq), env) = "ok"
      BY <1>5, FirstErr2 DEF Twin, validate_logout_token_aio, validate_logout_token_sync
    <2> QED BY <1>1, <1>5, <2>1 DEF ConfigOf
  <1> QED BY <1>2, <1>3, <1>4, <1>5

\* The configuration of every request has the fields of TokenValidationConfig.
LEMMA ConfigOfType ==
    ASSUME NEW h \in DOMAIN Work, NEW rq \in Requests[h]
    PROVE  IsConfig(ConfigOf(rq))
  <1>1. DOMAIN ServerConfig(rq.tok) = CfgFields /\ ServerConfig(rq.tok).key = <<>>
    BY DEF ServerConfig, CfgFields
  <1>2. DOMAIN rq.cfg = CfgFields /\ (rq.cfg.key = <<>> \/ (DOMAIN rq.cfg.key = {1} /\ IsKey(rq.cfg.key[1])))
    BY <1>1, RequestsAssumption
  <1>3. DOMAIN Config(rq) = CfgFields /\ Config(rq).key = rq.cfg.key
    BY <1>2 DEF Config, CfgFields
  <1> QED BY <1>1, <1>2, <1>3 DEF ConfigOf, IsConfig

-----------------------------------------------------------------------------
(* What the provider answers                                               *)

\* The empty key set is one.
LEMMA NoKeys == IsKeySet(<<>>)
  <1>1. DOMAIN <<>> = {}
    OBVIOUS
  <1> QED BY <1>1, FS_EmptySet DEF IsKeySet

\* What is parsed from an answer of the JWKS endpoint is a key set.
LEMMA ParsedKeys ==
    ASSUME NEW h \in DOMAIN Work, NEW answer \in JwksAnswers[h],
           NEW doc \in {answer.first, answer.miss, answer.retry}
    PROVE  IsJwks(parse_jwks_response(doc, MaxSize, MaxKeys))
  <1> DEFINE usable == _build_jwks_keys(doc.keys)
             jwks == parse_jwks_response(doc, MaxSize, MaxKeys)
  <1>1. /\ DOMAIN doc.keys \subseteq Nat /\ IsFiniteSet(DOMAIN doc.keys)
        /\ \A i \in DOMAIN doc.keys : IsKey(doc.keys[i].key) /\ doc.keys[i].key.form = "dict"
    BY RequestsAssumption
  <1>2. ASSUME NEW i \in DOMAIN doc.keys, JsonWebKey(doc.keys[i].key) = "ok"
        PROVE  doc.keys[i].key.kty # None
    BY <1>2 DEF JsonWebKey, Check
  <1>3. IsKeySet(usable)
    <2>1. DOMAIN usable \subseteq DOMAIN doc.keys
      BY DEF _build_jwks_keys
    <2>2. IsFiniteSet(DOMAIN usable)
      BY <1>1, <2>1, FS_Subset
    <2> HIDE DEF usable
    <2>3. \A i \in DOMAIN usable : IsKey(usable[i]) /\ usable[i].form = "dict" /\ usable[i].kty # None
      BY <1>1, <1>2 DEF usable, _build_jwks_keys
    <2> QED BY <1>1, <2>1, <2>2, <2>3 DEF IsKeySet
  <1> HIDE DEF usable
  <1>4. \/ jwks = JwksFailed
        \/ jwks = handle_jwks_error("JSONDecodeError")
        \/ jwks = [st |-> "ok", keys |-> _build_jwks_keys(doc.keys)]
    BY Zenon DEF parse_jwks_response
  <1> HIDE DEF jwks
  <1>5. IsJwks(jwks)
    <2>1. CASE jwks = JwksFailed
      BY <2>1, NoKeys DEF JwksFailed, IsJwks
    <2>2. CASE jwks = handle_jwks_error("JSONDecodeError")
      BY <2>2, NoKeys DEF handle_jwks_error, IsJwks
    <2>3. CASE jwks = [st |-> "ok", keys |-> usable]
      BY <1>3, <2>3 DEF IsJwks
    <2> QED BY <1>4, <2>1, <2>2, <2>3 DEF usable
  <1> QED BY <1>5 DEF jwks

\* A URL that passes the scheme check is there.
LEMMA SchemeOk ==
    ASSUME NEW url, NEW policy, validate_url_scheme(url, policy) = "ok"
    PROVE  url # NoUrl
  BY FirstErr2 DEF validate_url_scheme, Check

\* get_jwks brings a set of keys; with an answer there was a jwks_uri.
LEMMA GotJwks ==
    ASSUME NEW h \in DOMAIN Work, NEW answer \in JwksAnswers[h],
           NEW a \in {answer.first, answer.miss, answer.retry}, NEW want, NEW doc
    PROVE  LET jwks == get_jwks(want, doc, a) IN
           IsJwks(jwks) /\ (jwks.st = "ok" => doc.endpoints[1] # NoUrl)
  <1> DEFINE jwks == get_jwks(want, doc, a)
             url == doc.endpoints[1]
             parsed == parse_jwks_response(a, MaxSize, MaxKeys)
  <1>1. IsJwks(parsed)
    BY ParsedKeys
  <1>2. \A e : LET f == handle_jwks_error(e) IN
               f = [st |-> f.st, keys |-> f.keys] /\ f.keys = <<>> /\ f.st # "ok"
    BY DEF handle_jwks_error
  <1>3. \/ \E e : jwks = handle_jwks_error(e)
        \/ jwks = parsed /\ validate_url_scheme(url, want.policy) = "ok"
    BY DEF get_jwks
  <1> HIDE DEF jwks, parsed
  <1>4. CASE \E e : jwks = handle_jwks_error(e)
    BY <1>2, <1>4, NoKeys DEF jwks, IsJwks
  <1>5. CASE jwks = parsed /\ validate_url_scheme(url, want.policy) = "ok"
    BY <1>1, <1>5, SchemeOk DEF jwks
  <1> QED BY <1>3, <1>4, <1>5

\* A request that asks nobody is handed well formed answers.
LEMMA NoEnvType ==
    ASSUME NEW rq
    PROVE  IsEnv(NoEnv(rq)) /\ NoEnv(rq).disco.st = "other"
  <1> DEFINE e == NoEnv(rq)
  <1>1. /\ e.disco.st = "other" /\ e.jwks = JwksFailed /\ e.jwks2 = JwksFailed /\ e.jwks3 = JwksFailed
        /\ e.attempt.miss = FALSE /\ e.attempt.retry = FALSE
        /\ e = [address |-> e.address, disco |-> e.disco, attempt |-> e.attempt,
                jwks |-> e.jwks, jwks2 |-> e.jwks2, jwks3 |-> e.jwks3]
    BY DEF NoEnv, DiscoEnv, DiscoFailed
  <1> HIDE DEF e
  <1>2. IsJwks(JwksFailed)
    BY NoKeys DEF JwksFailed, IsJwks
  <1>3. IsEnv(e)
    BY <1>1, <1>2 DEF IsEnv
  <1> QED BY <1>1, <1>3 DEF e

\* So is a request that asks the provider.
LEMMA EnvOfType ==
    ASSUME NEW h \in DOMAIN Work, NEW answer \in JwksAnswers[h], NEW want \in Wants, NEW resp,
           resp.ok => resp \in get_discovery_document[want]
    PROVE  IsEnv(EnvOf(want, resp, answer))
  <1> DEFINE e == EnvOf(want, resp, answer)
             doc == resp.doc[1]
             j1 == get_jwks(want, doc, answer.first)
             j2 == get_jwks(want, doc, answer.miss)
             j3 == get_jwks(want, doc, answer.retry)
  <1>1. /\ e = [address |-> e.address, disco |-> e.disco, attempt |-> e.attempt,
                jwks |-> e.jwks, jwks2 |-> e.jwks2, jwks3 |-> e.jwks3]
        /\ e.address = TRUE /\ e.disco = DiscoEnv(resp) /\ e.attempt = answer.attempt
        /\ e.jwks = IF resp.ok THEN j1 ELSE JwksFailed
        /\ e.jwks2 = IF resp.ok THEN j2 ELSE JwksFailed
        /\ e.jwks3 = IF resp.ok THEN j3 ELSE JwksFailed
    BY DEF EnvOf
  <1>2. IsJwks(JwksFailed) /\ JwksFailed.st # "ok"
    BY NoKeys DEF JwksFailed, IsJwks
  <1>3. IsJwks(j1) /\ (j1.st = "ok" => doc.endpoints[1] # NoUrl)
    BY GotJwks
  <1>4. IsJwks(j2) /\ IsJwks(j3)
    BY GotJwks
  <1> HIDE DEF e, j1, j2, j3
  <1>5. resp.ok => doc.issuer.host # None
    <2>1. SUFFICES ASSUME resp.ok PROVE doc.issuer.host # None
      OBVIOUS
    <2>2. PICK a \in Answers[want.address] : resp = build_discovery_response(a)
      BY <2>1 DEF get_discovery_document, process_discovery_response, handle_discovery_error,
         handle_unsuccessful_response, DiscoFailed
    <2>3. doc = a
      BY <2>2 DEF build_discovery_response
    <2> QED BY <2>3, WantsAssumption
  <1>6. /\ e.disco.st = "ok" => resp.ok
        /\ resp.ok => e.disco.issuer = doc.issuer.host
        /\ resp.ok /\ doc.endpoints[1] # NoUrl => e.disco.jwks_uri
    <2>1. e.disco = DiscoEnv(resp)
      BY <1>1
    <2>2. e.disco.st = "ok" => resp.ok
      BY <2>1 DEF DiscoEnv
    <2>3. resp.ok => e.disco.issuer = doc.issuer.host
      BY <2>1 DEF DiscoEnv
    <2>4. e.disco.jwks_uri = (resp.ok /\ doc.endpoints[1] # NoUrl)
      BY <2>1 DEF DiscoEnv
    <2> QED BY <2>2, <2>3, <2>4
  <1>7. e.disco.st = "ok" => e.disco.issuer # None
    BY <1>5, <1>6
  <1>8. e.disco.st = "ok" /\ e.jwks.st = "ok" => e.disco.jwks_uri
    BY <1>1, <1>3, <1>6
  <1>9. IsJwks(e.jwks) /\ IsJwks(e.jwks2) /\ IsJwks(e.jwks3)
    BY <1>1, <1>2, <1>3, <1>4
  <1>10. e.attempt.miss \in BOOLEAN /\ e.attempt.retry \in BOOLEAN
    BY <1>1, RequestsAssumption
  <1>11. IsEnv(e)
    BY <1>1, <1>7, <1>8, <1>9, <1>10 DEF IsEnv
  <1> QED BY <1>11 DEF e

-----------------------------------------------------------------------------
(* The inductive invariant of the requests                                 *)

ConnFields == {"pc", "req", "env", "err", "user", "status"}
IsConn(x) == x = [f \in ConnFields |-> x[f]]

\* A request x whose token was validated ended as validate_token, or the function around
\* it, says, and was answered accordingly.
Verdict(x, async) ==
    LET rq == x.req[1]
        auth == _authenticate(rq.tok, x.err)
    IN  /\ IsEnv(x.env[1]) /\ x.err = Twin(rq, x.env[1], async)
        /\ rq.kind = "http" =>
             /\ x.user = (auth = 0)
             /\ x.pc = "route" => auth = 0 /\ x.status = 0
             /\ x.pc = "end" => x.status = IF auth = 0 THEN RouteStatus(rq, x.user) ELSE auth
        /\ rq.kind = "ws" => x.pc = "end" /\ x.status = authenticate_websocket(rq.tok, x.err)

\* A request x without a validated token has no user, and no place but a public one.
Unjudged(x) ==
    /\ x.err = "none" /\ x.user = FALSE
    /\ x.pc \in {"route", "end"} => x.req[1].kind \in {"http", "ws"}
    /\ x.pc = "route" => x.req[1].kind = "http"
    /\ x.pc = "end" => x.status \in {401, 1008}

ConnOK(x, reqs, async) ==
    /\ IsConn(x) /\ x.pc \in {"idle", "validating", "route", "end"}
    /\ x.pc # "idle" => x.req[1] \in reqs
    /\ x.env # <<>> => x.pc \in {"route", "end"} /\ Verdict(x, async)
    /\ x.env = <<>> => Unjudged(x)

ConnInv ==
    conn = [c \in Callers |-> conn[c]] /\ \A c \in Callers : ConnOK(conn[c], Requests[home], Async(c))

\* How validate_token may report a failed connection.
Outages == {"FetchNetwork", "Network"}

\* Either chain of except clauses has an answer for everything that validate_token
\* ends with: 0 for an accepted token only, 503 and 1013 for an outage only.
LEMMA Refusals ==
    ASSUME NEW tok, NEW err
    PROVE  /\ _authenticate(tok, err) \in {0, 401, 500, 503}
           /\ _authenticate(tok, err) = 0 <=> err = "ok" /\ evaluate_token_type(tok)
           /\ _authenticate(tok, err) = 503 <=> err \in Outages
           /\ authenticate_websocket(tok, err) \in {0, 1008, 1011, 1013}
           /\ authenticate_websocket(tok, err) = 0 <=> err = "ok" /\ evaluate_token_type(tok)
           /\ authenticate_websocket(tok, err) = 1013 <=> err \in Outages
  <1>1. "ok" \notin Typed /\ "InvalidTokenError" \notin Typed /\ Outages \subseteq Typed
    BY DEF Typed, Outages
  <1>2. err = "Network" \/ _is_upstream_fetch_failure(err) <=> err \in Outages
    BY DEF Outages, _is_upstream_fetch_failure
  <1>3. CASE err = "ok"
    BY <1>1, <1>3 DEF _authenticate, authenticate_websocket
  <1>4. CASE err \in Typed
    BY <1>1, <1>2, <1>4 DEF _authenticate, authenticate_websocket
  <1>5. CASE err \notin Typed /\ err # "ok"
    BY <1>1, <1>5 DEF _authenticate, authenticate_websocket
  <1> QED BY <1>3, <1>4, <1>5

\* A protected route answers 401 without a user, and 200 or 403 with one.
LEMMA RouteAnswers ==
    ASSUME NEW rq, rq.needs.kind \in {"user", "claim", "scope"}, NEW user
    PROVE  /\ user = FALSE => RouteStatus(rq, user) = 401
           /\ user = TRUE => RouteStatus(rq, user) \in {200, 403}
  BY DEF RouteStatus, get_current_user, require_claim, require_scope

\* A caller without a request satisfies the invariant.
LEMMA NoConnOK ==
    ASSUME NEW reqs, NEW async
    PROVE  ConnOK(NoConn, reqs, async)
  BY DEF ConnOK, NoConn, IsConn, ConnFields, Unjudged

\* A request that is accepted, and has not been validated.
LEMMA AcceptedOK ==
    ASSUME NEW reqs, NEW rq \in reqs, NEW async, NEW l \in {"validating", "route"},
           l = "route" => rq.kind = "http"
    PROVE  ConnOK([NoConn EXCEPT !.pc = l, !.req = <<rq>>], reqs, async)
  <1> DEFINE x == [NoConn EXCEPT !.pc = l, !.req = <<rq>>]
  <1>1. /\ IsConn(x) /\ x.pc = l /\ x.req = <<rq>> /\ x.env = <<>> /\ x.err = "none" /\ x.user = FALSE
    BY DEF NoConn, IsConn, ConnFields
  <1> HIDE DEF x
  <1>2. x.req[1] = rq
    BY <1>1
  <1>3. ConnOK(x, reqs, async)
    BY <1>1, <1>2 DEF ConnOK, Unjudged
  <1> QED BY <1>3 DEF x

\* A request that is answered without a validation.
LEMMA AnsweredOK ==
    ASSUME NEW rq \in Requests[home], rq.kind \in {"http", "ws"}, NEW c, NEW status,
           status = 401 \/ status = 1008, Answered(c, rq, status)
    PROVE  \E x : conn' = [conn EXCEPT ![c] = x] /\ ConnOK(x, Requests[home], Async(c))
  <1> DEFINE x == [NoConn EXCEPT !.pc = "end", !.req = <<rq>>, !.status = status]
  <1>1. conn' = [conn EXCEPT ![c] = x]
    BY DEF Answered
  <1>2. DOMAIN NoConn = ConnFields /\ NoConn.env = <<>> /\ NoConn.err = "none" /\ NoConn.user = FALSE
    BY DEF NoConn, ConnFields
  <1>3. IsConn(x)
    BY <1>2 DEF IsConn
  <1>4. /\ x.pc = "end" /\ x.req = <<rq>> /\ x.env = <<>> /\ x.err = "none"
        /\ x.user = FALSE /\ x.status = status
    BY <1>2 DEF ConnFields
  <1> HIDE DEF x
  <1>5. x.req[1] = rq
    BY <1>4
  <1>6. Unjudged(x)
    BY <1>4, <1>5 DEF Unjudged
  <1>7. ConnOK(x, Requests[home], Async(c))
    BY <1>3, <1>4, <1>5, <1>6 DEF ConnOK
  <1> QED BY <1>1, <1>7

\* A library call that asks nobody.
LEMMA CalledOK ==
    ASSUME NEW reqs, NEW rq \in reqs, rq.kind \in {"token", "id_token", "logout_token"}, NEW async
    PROVE  ConnOK([NoConn EXCEPT !.pc = "end", !.req = <<rq>>, !.env = <<NoEnv(rq)>>,
                                 !.err = Twin(rq, NoEnv(rq), async)], reqs, async)
  <1> DEFINE env == NoEnv(rq)
             err == Twin(rq, env, async)
             x == [NoConn EXCEPT !.pc = "end", !.req = <<rq>>, !.env = <<env>>, !.err = err]
  <1>1. IsEnv(env)
    BY NoEnvType
  <1> HIDE DEF env
  <1>2. /\ IsConn(x) /\ x.pc = "end" /\ x.req = <<rq>> /\ x.env = <<env>> /\ x.err = err
    BY DEF NoConn, IsConn, ConnFields
  <1> HIDE DEF x
  <1>3. x.req[1] = rq /\ x.env[1] = env /\ x.env # <<>>
    BY <1>2
  <1>4. Verdict(x, async)
    BY <1>1, <1>2, <1>3 DEF Verdict
  <1>5. ConnOK(x, reqs, async)
    BY <1>2, <1>3, <1>4 DEF ConnOK
  <1> QED BY <1>5 DEF x, env

\* The rest of validate_token.
LEMMA JudgedOK ==
    ASSUME NEW reqs, NEW async, NEW rq \in reqs, NEW env, IsEnv(env), NEW x, IsConn(x),
           x.req[1] = rq, x.env = <<env>>, x.err = Twin(rq, env, async),
           rq.kind = "http" => x.status = _authenticate(rq.tok, x.err),
           rq.kind = "ws" => x.status = authenticate_websocket(rq.tok, x.err),
           x.user = (rq.kind = "http" /\ x.status = 0), x.pc = IF x.user THEN "route" ELSE "end"
    PROVE  ConnOK(x, reqs, async)
  <1>1. x.env[1] = env /\ x.env # <<>>
    OBVIOUS
  <1>2. Verdict(x, async)
    <2>1. CASE rq.kind = "http"
      BY <1>1, <2>1 DEF Verdict
    <2>2. CASE rq.kind = "ws"
      BY <1>1, <2>2 DEF Verdict
    <2>3. CASE rq.kind \notin {"http", "ws"}
      BY <1>1, <2>3 DEF Verdict
    <2> QED BY <2>1, <2>2, <2>3
  <1> QED BY <1>1, <1>2 DEF ConnOK

\* The route answers.
LEMMA RoutedOK ==
    ASSUME NEW reqs, NEW async, NEW q, ConnOK(q, reqs, async), q.pc = "route",
           q.req[1].kind = "http" => q.req[1].needs.kind \in {"user", "claim", "scope"}
    PROVE  ConnOK([q EXCEPT !.pc = "end", !.status = RouteStatus(q.req[1], q.user)], reqs, async)
  <1> DEFINE rq == q.req[1]
             st == RouteStatus(rq, q.user)
             x == [q EXCEPT !.pc = "end", !.status = st]
  <1>1. IsConn(q) /\ rq \in reqs
    BY DEF ConnOK
  <1>2. /\ IsConn(x) /\ x.pc = "end" /\ x.req = q.req /\ x.env = q.env /\ x.err = q.err
        /\ x.status = st /\ x.user = q.user
    BY <1>1 DEF IsConn, ConnFields
  <1> HIDE DEF x
  <1>3. CASE q.env = <<>>
    <2>1. Unjudged(q)
      BY <1>3 DEF ConnOK
    <2>2. st = 401
      <3>1. q.user = FALSE /\ rq.needs.kind \in {"user", "claim", "scope"}
        BY <2>1 DEF Unjudged
      <3> QED BY <3>1 DEF RouteStatus, get_current_user, require_claim, require_scope
    <2>3. Unjudged(x)
      BY <1>2, <2>1, <2>2 DEF Unjudged
    <2> QED BY <1>1, <1>2, <1>3, <2>3 DEF ConnOK, x
  <1>4. CASE q.env # <<>>
    <2>1. Verdict(q, async)
      BY <1>4 DEF ConnOK
    <2>2. rq.kind = "http" => _authenticate(rq.tok, q.err) = 0 /\ q.user = TRUE
      BY <2>1 DEF Verdict
    <2>3. rq.kind # "ws"
      BY <2>1 DEF Verdict
    <2>4. Verdict(x, async)
      BY <1>2, <2>1, <2>2, <2>3 DEF Verdict
    <2> QED BY <1>1, <1>2, <1>4, <2>4 DEF ConnOK, x
  <1> QED BY <1>3, <1>4

\* Callers stay where they are.
LEMMA HomeKept == [DiscoNext]_vars => home' = home
  BY DEF DiscoNext, vars, Begin, Step, Lookup, Touch, Acquire, Fetched, Apply, Return, Cancel,
     clear_discovery_cache, Tick

\* The request of c becomes x.
LEMMA ConnBecomes ==
    ASSUME ConnInv, home' = home, NEW c \in Callers, NEW x, conn' = [conn EXCEPT ![c] = x],
           ConnOK(x, Requests[home], Async(c))
    PROVE  ConnInv'
  <1>1. conn' = [o \in Callers |-> conn'[o]] /\ conn'[c] = x
    BY DEF ConnInv
  <1>2. \A o \in Callers \ {c} : conn'[o] = conn[o]
    BY DEF ConnInv
  <1>3. \A o \in Callers : Async(o)' = Async(o)
    BY DEF Async, Side
  <1>4. Requests[home'] = Requests[home]
    OBVIOUS
  <1>5. ASSUME NEW o \in Callers PROVE ConnOK(conn'[o], Requests[home'], Async(o)')
    <2>1. CASE o = c
      BY <1>1, <1>3, <1>4, <2>1
    <2>2. CASE o # c
      BY <1>2, <1>3, <1>4, <2>2 DEF ConnInv
    <2> QED BY <2>1, <2>2
  <1> QED BY <1>1, <1>5 DEF ConnInv

\* A request that arrives is not judged yet, or refused at once.
LEMMA ArrivalKeeps ==
    ASSUME ConnInv, home' = home, NEW c \in Callers, dispatch(c) \/ connect(c) \/ Call(c)
    PROVE  ConnInv'
  <1> DEFINE reqs == Requests[home]
  <1>1. CASE dispatch(c)
    <2>1. PICK rq \in reqs :
            /\ rq.kind = "http"
            /\ Accept(c, rq, "route") \/ Answered(c, rq, 401) \/ Accept(c, rq, "validating")
      BY <1>1 DEF dispatch
    <2>2. CASE Accept(c, rq, "route") \/ Accept(c, rq, "validating")
      <3>1. PICK l \in {"route", "validating"} : Accept(c, rq, l)
        BY <2>2
      <3> QED BY <2>1, <3>1, AcceptedOK, ConnBecomes DEF Accept
    <2>3. CASE Answered(c, rq, 401)
      <3>1. PICK st : st = 401
        OBVIOUS
      <3>2. Answered(c, rq, st)
        BY <2>3, <3>1
      <3>3. \E x : conn' = [conn EXCEPT ![c] = x] /\ ConnOK(x, Requests[home], Async(c))
        BY <2>1, <3>1, <3>2, AnsweredOK
      <3> QED BY <3>3, ConnBecomes
    <2> QED BY <2>1, <2>2, <2>3
  <1>2. CASE connect(c)
    <2>1. PICK rq \in reqs :
            rq.kind = "ws" /\ (Answered(c, rq, 1008) \/ Accept(c, rq, "validating"))
      BY <1>2 DEF connect
    <2>2. CASE Accept(c, rq, "validating")
      BY <2>1, <2>2, AcceptedOK, ConnBecomes DEF Accept
    <2>3. CASE Answered(c, rq, 1008)
      <3>1. PICK st : st = 1008
        OBVIOUS
      <3>2. Answered(c, rq, st)
        BY <2>3, <3>1
      <3>3. \E x : conn' = [conn EXCEPT ![c] = x] /\ ConnOK(x, Requests[home], Async(c))
        BY <2>1, <3>1, <3>2, AnsweredOK
      <3> QED BY <3>3, ConnBecomes
    <2> QED BY <2>1, <2>2, <2>3
  <1>3. CASE Call(c)
    <2>1. PICK rq \in reqs :
            /\ rq.kind \in {"token", "id_token", "logout_token"}
            /\ \/ Accept(c, rq, "validating")
               \/ conn' = [conn EXCEPT ![c] = [NoConn EXCEPT !.pc = "end", !.req = <<rq>>,
                             !.env = <<NoEnv(rq)>>, !.err = Twin(rq, NoEnv(rq), Async(c))]]
      BY <1>3 DEF Call
    <2>2. CASE Accept(c, rq, "validating")
      BY <2>1, <2>2, AcceptedOK, ConnBecomes DEF Accept
    <2>3. CASE conn' = [conn EXCEPT ![c] = [NoConn EXCEPT !.pc = "end", !.req = <<rq>>,
                          !.env = <<NoEnv(rq)>>, !.err = Twin(rq, NoEnv(rq), Async(c))]]
      BY <2>1, <2>3, CalledOK, ConnBecomes
    <2> QED BY <2>1, <2>2, <2>3
  <1> QED BY <1>1, <1>2, <1>3

\* Validation ends in the verdict of the request's twin.
LEMMA ValidatedKeeps ==
    ASSUME ConnInv, DiscoInv, home' = home, NEW c \in Callers, Validated(c)
    PROVE  ConnInv'
  <1> DEFINE q == conn[c]
             rq == q.req[1]
             want == task[c].want
             resp == task[c].resp
             async == Async(c)
  <1>1. q.pc = "validating" /\ task[c].pc = "done"
    BY DEF Validated, Return
  <1>2. PICK answer \in JwksAnswers[home] : Judged(c, EnvOf(want, resp, answer))
    BY DEF Validated
  <1> DEFINE env == EnvOf(want, resp, answer)
             err == Twin(rq, env, async)
             status == CASE rq.kind = "http" -> _authenticate(rq.tok, err)
                         [] rq.kind = "ws"   -> authenticate_websocket(rq.tok, err)
                         [] OTHER             -> 0
             in == rq.kind = "http" /\ status = 0
             l == IF in THEN "route" ELSE "end"
             x == [q EXCEPT !.env = <<env>>, !.err = err, !.status = status, !.user = in, !.pc = l]
  <1>3. home \in DOMAIN Work /\ want \in Wants /\ (resp.ok => resp \in get_discovery_document[want])
    BY <1>1 DEF DiscoInv, TasksInv, TaskInv, Phase
  <1>4. IsEnv(env)
    BY <1>3, EnvOfType
  <1>5. conn' = [conn EXCEPT ![c] = x]
    BY <1>2 DEF Judged, Ends
  <1>6. ConnOK(q, Requests[home], async)
    BY DEF ConnInv
  <1> HIDE DEF env
  <1>7. ConnOK(x, Requests[home], async)
    <2>1. IsConn(q) /\ rq \in Requests[home]
      BY <1>1, <1>6 DEF ConnOK
    <2>2. /\ rq.kind = "http" => status = _authenticate(rq.tok, err)
          /\ rq.kind = "ws" => status = authenticate_websocket(rq.tok, err)
      OBVIOUS
    <2>3. err = Twin(rq, env, async)
      OBVIOUS
    <2> HIDE DEF status, err, async
    <2>4. /\ IsConn(x) /\ x.req = q.req /\ x.env = <<env>> /\ x.err = err /\ x.status = status
          /\ x.user = in /\ x.pc = l
      BY <2>1 DEF IsConn, ConnFields
    <2>5. x.req[1] = rq
      BY <2>4
    <2> HIDE DEF x, rq, q
    <2> QED BY <1>4, <2>1, <2>2, <2>3, <2>4, <2>5, JudgedOK
  <1> HIDE DEF x, async
  <1> QED BY <1>5, <1>7, ConnBecomes DEF async

\* The route answers according to the verdict.
LEMMA RouteKeeps ==
    ASSUME ConnInv, DiscoInv, home' = home, NEW c \in Callers, Route(c)
    PROVE  ConnInv'
  <1> DEFINE q == conn[c]
             x == [q EXCEPT !.pc = "end", !.status = RouteStatus(q.req[1], q.user)]
  <1>1. q.pc = "route" /\ conn' = [conn EXCEPT ![c] = x]
    BY DEF Route
  <1>2. ConnOK(q, Requests[home], Async(c))
    BY DEF ConnInv
  <1>3. q.req[1].kind = "http" => q.req[1].needs.kind \in {"user", "claim", "scope"}
    BY <1>1, <1>2, RequestsAssumption DEF ConnOK, DiscoInv
  <1>4. ConnOK(x, Requests[home], Async(c))
    BY <1>1, <1>2, <1>3, RoutedOK
  <1> HIDE DEF x
  <1> QED BY <1>1, <1>4, ConnBecomes

\* Every step keeps the verdicts.
LEMMA ConnStep ==
    ASSUME ConnInv, DiscoInv, [Next]_rsVars
    PROVE  ConnInv'
  <1>1. home' = home
    BY DiscoSteps, HomeKept DEF DiscoInv
  <1>2. ASSUME conn' = conn PROVE ConnInv'
    <2>1. \A c \in Callers : Async(c)' = Async(c)
      BY <1>1 DEF Async, Side
    <2>2. ASSUME NEW c \in Callers PROVE ConnOK(conn'[c], Requests[home'], Async(c)')
      BY <1>1, <1>2, <2>1 DEF ConnInv
    <2> QED BY <1>2, <2>2 DEF ConnInv
  <1>3. ASSUME NEW c \in Callers, Handle(c) PROVE ConnInv'
    <2>1. CASE dispatch(c) \/ connect(c) \/ Call(c)
      BY <1>1, <2>1, ArrivalKeeps
    <2>2. CASE UNCHANGED conn
      BY <1>2, <2>2
    <2>3. CASE Validated(c)
      BY <1>1, <2>3, ValidatedKeeps
    <2>4. CASE Route(c)
      BY <1>1, <2>4, RouteKeeps
    <2>5. CASE Finish(c) \/ Disconnect(c)
      BY <1>1, <2>5, NoConnOK, ConnBecomes DEF Finish, Disconnect
    <2> QED BY <1>3, <2>1, <2>2, <2>3, <2>4, <2>5 DEF Handle
  <1> QED BY <1>2, <1>3 DEF Next, rsVars

\* The verdicts hold throughout.
LEMMA ConnInvariant == Spec => []ConnInv
  <1>1. Init_RS => ConnInv
    <2> SUFFICES ASSUME Init_RS PROVE ConnInv
      OBVIOUS
    <2>1. conn = [c \in Callers |-> NoConn]
      BY DEF Init_RS
    <2> QED BY <2>1, NoConnOK DEF ConnInv
  <1>2. DiscoInv /\ ConnInv /\ [Next]_rsVars => ConnInv'
    BY ConnStep
  <1> QED BY <1>1, <1>2, DiscoInvariant, PTL DEF Spec

-----------------------------------------------------------------------------
(* Who is let in                                                           *)

\* A request that was validated and let in had a token that validate_token accepts.
LEMMA LetIn ==
    ASSUME NEW x, NEW reqs, NEW async, ConnOK(x, reqs, async), x.pc = "end",
           x.req[1].kind = "http" => x.req[1].needs.kind \in {"user", "claim", "scope"},
           CASE x.req[1].kind = "http" -> x.status = 200
             [] x.req[1].kind = "ws"   -> x.status = 0
             [] OTHER                  -> x.err = "ok"
    PROVE  x.env # <<>> /\ x.err = "ok"
  <1> DEFINE rq == x.req[1]
             auth == _authenticate(rq.tok, x.err)
             ws == authenticate_websocket(rq.tok, x.err)
  <1>1. x.env # <<>>
    <2>1. SUFFICES ASSUME x.env = <<>> PROVE FALSE
      OBVIOUS
    <2>2. x.err = "none" /\ x.status \in {401, 1008} /\ rq.kind \in {"http", "ws"}
      BY <2>1 DEF ConnOK, Unjudged
    <2> QED BY <2>2
  <1>2. Verdict(x, async)
    BY <1>1 DEF ConnOK
  <1>3. auth \in {0, 401, 500, 503} /\ (auth = 0 => x.err = "ok") /\ (ws = 0 => x.err = "ok")
    BY Refusals
  <1>4. CASE rq.kind = "http"
    <2>1. x.status = 200 /\ (x.status = IF auth = 0 THEN RouteStatus(rq, x.user) ELSE auth)
      BY <1>2, <1>4 DEF Verdict
    <2> HIDE DEF auth
    <2>2. auth = 0
      BY <1>3, <2>1
    <2> QED BY <1>1, <1>3, <2>2
  <1>5. CASE rq.kind = "ws"
    <2>1. x.status = 0 /\ x.status = ws
      BY <1>2, <1>5 DEF Verdict
    <2> QED BY <1>1, <1>3, <2>1
  <1>6. CASE rq.kind \notin {"http", "ws"}
    BY <1>1, <1>6
  <1> QED BY <1>4, <1>5, <1>6

\* Nobody is let in with a token that the provider did not make for this server,
\* whatever the keys, policies, configurations and requests: middleware, socket and
\* library calls accept genuine tokens only, even when requests overlap, are
\* cancelled or share an answer of the discovery cache.
THEOREM SoundAcceptHolds == Spec => []SoundAccept
  <1>1. DiscoInv /\ ConnInv => SoundAccept
    <2> SUFFICES ASSUME DiscoInv, ConnInv, NEW c \in Callers, conn[c].pc = "end",
                        CASE conn[c].req[1].kind = "http" -> conn[c].status = 200
                          [] conn[c].req[1].kind = "ws"   -> conn[c].status = 0
                          [] OTHER                        -> conn[c].err = "ok"
                 PROVE  /\ Decided(c)
                        /\ Genuine(conn[c].req[1].tok, ConfigOf(conn[c].req[1]), conn[c].env[1])
      BY DEF SoundAccept
    <2> DEFINE x == conn[c]
               rq == x.req[1]
               env == x.env[1]
    <2>1. ConnOK(x, Requests[home], Async(c)) /\ home \in DOMAIN Work
      BY DEF ConnInv, DiscoInv
    <2>2. rq \in Requests[home]
      BY <2>1 DEF ConnOK
    <2>3. /\ rq.kind \in {"http", "ws", "token", "id_token", "logout_token"}
          /\ rq.kind = "http" => rq.needs.kind \in {"user", "claim", "scope"}
      BY <2>1, <2>2, RequestsAssumption
    <2>4. x.env # <<>> /\ x.err = "ok"
      BY <2>1, <2>3, LetIn
    <2>5. IsEnv(env) /\ x.err = Twin(rq, env, Async(c))
      BY <2>1, <2>4 DEF ConnOK, Verdict
    <2>6. IsConfig(ConfigOf(rq))
      BY <2>1, <2>2, ConfigOfType
    <2> HIDE DEF env, rq
    <2>7. Decoded(rq.tok, ConfigOf(rq), env) = "ok"
      BY <2>3, <2>4, <2>5, TwinDecodes
    <2>8. Genuine(rq.tok, ConfigOf(rq), env)
      BY <2>5, <2>6, <2>7, DecodedSound
    <2> QED BY <2>4, <2>8 DEF Decided, env, rq
  <1> QED BY <1>1, DiscoInvariant, ConnInvariant, PTL

\* A token whose nonce was checked carries one, and what carries one is refused
\* elsewhere.
LEMMA NonceRefused ==
    ASSUME NEW tok, tok.nonce # None, NEW cfg, NEW env, NEW err
    PROVE  /\ validate_logout_token_aio(tok, cfg, env) # "ok"
           /\ _authenticate(tok, err) # 0 /\ authenticate_websocket(tok, err) # 0
  <1>1. ~evaluate_token_type(tok)
    BY DEF evaluate_token_type
  <1>2. validate_logout_token_claims(tok) # "ok"
    BY FirstErr4 DEF validate_logout_token_claims, Check
  <1>3. validate_logout_token_aio(tok, cfg, env) # "ok"
    BY <1>2, FirstErr2 DEF validate_logout_token_aio
  <1> QED BY <1>1, <1>3, Refusals

\* An ID token accepted for a login with a nonce has a nonce.
LEMMA NonceChecked ==
    ASSUME NEW tok, NEW client, NEW want, NEW leeway, want.nonce # None,
           validate_id_token_claims(tok, client, want, leeway) = "ok"
    PROVE  tok.nonce # None
  <1> DEFINE s == <<Check(tok.sub # None, "IdToken"),
               Check(Cardinality(tok.aud) <= 1 \/ tok.azp # None, "IdToken"),
               Check(tok.azp = None \/ client \in {None, tok.azp}, "IdToken"),
               Check(want.nonce = None \/ _hashes_equal(tok.nonce, want.nonce), "IdToken"),
               Check(want.max_age = Never
                       \/ (tok.auth_time # Never /\ Now <= tok.auth_time + want.max_age + leeway),
                     "IdToken"),
               Bound(want.access_token, tok.at_hash, tok.alg),
               Bound(want.code, tok.c_hash, tok.alg)>>
  <1>1. DOMAIN s = {1, 2, 3, 4, 5, 6, 7}
    OBVIOUS
  <1>2. s[4] = Check(want.nonce = None \/ _hashes_equal(tok.nonce, want.nonce), "IdToken")
    OBVIOUS
  <1>3. FirstErr(s) = "ok"
    BY DEF validate_id_token_claims
  <1> HIDE DEF s
  <1>4. s[4] = "ok"
    BY <1>1, <1>3, FirstErrOk
  <1> QED BY <1>2, <1>4 DEF Check, _hashes_equal

\* An ID token that answers a login is never also a logout token or an access token,
\* whatever its claims and the configuration (validate_id_token, ws.py, middleware.py).
THEOREM NotInterchangeableHolds == Spec => []NotInterchangeable
  <1>1. ConnInv => NotInterchangeable
    <2> SUFFICES ASSUME ConnInv, NEW c \in Callers, Decided(c), conn[c].req[1].kind = "id_token",
                        conn[c].err = "ok", conn[c].req[1].want.nonce # None
                 PROVE  conn[c].req[1].tok.nonce # None
      BY NonceRefused DEF NotInterchangeable
    <2> DEFINE rq == conn[c].req[1]
               env == conn[c].env[1]
               cfg == Config(rq)
               claims == validate_id_token_claims(rq.tok, cfg.audience, rq.want, cfg.leeway)
    <2>1. Twin(rq, env, Async(c)) = "ok"
      BY DEF ConnInv, ConnOK, Verdict, Decided
    <2>2. \/ validate_id_token_aio(rq.tok, cfg, env, rq.want) = "ok"
          \/ validate_id_token_sync(rq.tok, cfg, env, rq.want) = "ok"
      BY <2>1 DEF Twin
    <2>3. claims = "ok"
      BY <2>2, FirstErr2 DEF validate_id_token_aio, validate_id_token_sync
    <2> QED BY <2>3, NonceChecked
  <1> QED BY <1>1, ConnInvariant, PTL

-----------------------------------------------------------------------------
(* What the clients are told                                               *)

\* The first failure of a list is one of its members.
LEMMA FirstErrIn ==
    ASSUME NEW s, DOMAIN s \subseteq Nat, FirstErr(s) # "ok"
    PROVE  \E i \in DOMAIN s : FirstErr(s) = s[i]
  <1> DEFINE bad == {j \in DOMAIN s : s[j] # "ok"}
  <1>1. bad # {}
    BY DEF FirstErr
  <1>2. PICK m \in bad : \A k \in bad : m <= k
    BY <1>1, LeastPosition
  <1>3. FirstErr(s) = s[m]
    BY <1>2, FirstErrAt
  <1> QED BY <1>3

\* PyJWT knows nothing of the network.
LEMMA PyjwtOffline ==
    ASSUME NEW tok, NEW key, NEW algorithms, NEW audience, NEW issuer, NEW options, NEW leeway
    PROVE  pyjwt_decode(tok, key, algorithms, audience, issuer, options, leeway) \notin Outages
  <1> DEFINE s == <<PyJWK(key, algorithms[1]),
               Check(tok.wf /\ tok.alg \in Members(algorithms), "InvalidTokenError"),
               Check(tok.mat = key.mat /\ tok.alg = algorithms[1], "InvalidSignatureError"),
               Check(~Expired(tok, leeway), "ExpiredSignatureError"),
               Check(issuer = NoIssuer \/ tok.iss # None, "InvalidTokenError"),
               Check(issuer = NoIssuer \/ tok.iss \in issuer, "InvalidIssuerError"),
               Check(options = "verify_aud=False" \/ audience # None \/ tok.aud = {},
                     "InvalidAudienceError"),
               Check(options = "verify_aud=False" \/ audience = None \/ tok.aud # {},
                     "InvalidTokenError"),
               Check(options = "verify_aud=False" \/ audience \in {None} \cup tok.aud,
                     "InvalidAudienceError")>>
  <1>1. DOMAIN s = {1, 2, 3, 4, 5, 6, 7, 8, 9}
    OBVIOUS
  <1>2. /\ s[1] \notin Outages /\ s[2] \notin Outages /\ s[3] \notin Outages /\ s[4] \notin Outages
        /\ s[5] \notin Outages /\ s[6] \notin Outages /\ s[7] \notin Outages /\ s[8] \notin Outages
        /\ s[9] \notin Outages /\ "ok" \notin Outages
    BY DEF PyJWK, Check, Outages
  <1>3. pyjwt_decode(tok, key, algorithms, audience, issuer, options, leeway) = FirstErr(s)
    BY DEF pyjwt_decode
  <1> HIDE DEF s
  <1>4. FirstErr(s) = "ok" \/ \E i \in DOMAIN s : FirstErr(s) = s[i]
    BY <1>1, FirstErrIn
  <1> QED BY <1>1, <1>2, <1>3, <1>4

\* Nor does the rest of decode_with_config.
LEMMA DecodeOffline ==
    ASSUME NEW tok, NEW cfg, NEW issuer
    PROVE  decode_with_config(tok, cfg, issuer) \notin Outages
  <1>1. ASSUME NEW eff
        PROVE  decode_and_validate_jwt(tok, cfg.key[1], cfg.algorithms, cfg.audience, eff,
                                       cfg.options, cfg.leeway, cfg.subject) \notin Outages
    <2> DEFINE key == cfg.key[1]
               pre == FirstErr(<<Check(cfg.algorithms # <<>>, "Configuration"),
                                 Check(eff # {}, "Configuration"),
                                 _sanitize_options(cfg.options),
                                 Check(key.form # "other", "Configuration")>>)
               d == pyjwt_decode(tok, _normalize_verification_key(key), cfg.algorithms, cfg.audience, eff,
                                 cfg.options, cfg.leeway)
               last == Check(cfg.subject \in {None, tok.sub}, "TokenValidation")
    <2>1. pre \notin Outages
      BY FirstErr4 DEF Check, _sanitize_options, Outages
    <2>2. d \notin Outages
      BY PyjwtOffline
    <2>3. last \notin Outages /\ "ok" \notin Outages
      BY DEF Check, Outages
    <2>4. decode_and_validate_jwt(tok, key, cfg.algorithms, cfg.audience, eff, cfg.options, cfg.leeway,
                                  cfg.subject)
            = IF pre # "ok" THEN pre ELSE FirstErr(<<Wrapped(d), last>>)
      BY DEF decode_and_validate_jwt
    <2> HIDE DEF pre, d, last
    <2>5. Wrapped(d) \notin Outages
      BY <2>2 DEF Wrapped, Outages
    <2> QED BY <2>1, <2>3, <2>4, <2>5, FirstErr2
  <1> DEFINE eff == IF issuer # NoIssuer THEN issuer ELSE cfg.issuer
             a == Check(cfg.key # <<>> /\ cfg.algorithms # <<>>, "Configuration")
             b == IF cfg.allowed = NoIssuer THEN "ok" ELSE _enforce_allowed_issuers(eff, cfg.allowed)
             d == decode_and_validate_jwt(tok, cfg.key[1], cfg.algorithms, cfg.audience, eff,
                                          cfg.options, cfg.leeway, cfg.subject)
             e == IF cfg.key = <<>> THEN "Configuration" ELSE d
  <1>2. a \notin Outages /\ b \notin Outages /\ "Configuration" \notin Outages /\ "ok" \notin Outages
    BY DEF Check, _enforce_allowed_issuers, Outages
  <1>3. d \notin Outages
    BY <1>1
  <1>4. decode_with_config(tok, cfg, issuer) = FirstErr(<<a, b, e>>)
    BY DEF decode_with_config
  <1> HIDE DEF a, b, d
  <1> QED BY <1>2, <1>3, <1>4, FirstErr3

\* A failed connection to the JWKS endpoint is reported at once, and nothing else is
\* reported as one.
LEMMA ResolveOutage ==
    ASSUME NEW tok, NEW cfg, NEW disco, NEW jwks
    PROVE  /\ jwks.st = "network" => ResolveAndDecode(tok, cfg, disco, jwks) = "FetchNetwork"
           /\ jwks.st # "network" => ResolveAndDecode(tok, cfg, disco, jwks) \notin Outages
  <1> DEFINE found == find_key_by_kid(tok.kid, jwks.keys, tok.alg)
             v == validate_jwks_response(jwks)
             h == extract_jwt_header_fields(tok)
             d == DecodeFound(tok, cfg, disco, found)
  <1>1. ResolveAndDecode(tok, cfg, disco, jwks) = IF FirstErr(<<v, h>>) # "ok" THEN FirstErr(<<v, h>>) ELSE d
    BY DEF ResolveAndDecode
  <1>2. (jwks.st = "network" => v = "FetchNetwork") /\ (jwks.st # "network" => v \notin Outages)
    BY FirstErr2 DEF validate_jwks_response, Check, Outages
  <1>3. h \notin Outages /\ "ok" \notin Outages
    BY DEF extract_jwt_header_fields, Check, Outages
  <1>4. d \notin Outages
    <2>1. found.err \notin Outages
      BY DEF find_key_by_kid, Picked, NoKey, Outages
    <2>2. ASSUME NEW f, f.err \notin Outages
          PROVE  DecodeFound(tok, cfg, disco, f) \notin Outages
      <3> DEFINE r == build_resolved_config(cfg, f)
      <3>1. r.err \notin Outages
        BY DEF build_resolved_config, Check, Outages
      <3> HIDE DEF r
      <3> QED BY <2>2, <3>1, DecodeOffline DEF DecodeFound, DecodeResolved, r
    <2> QED BY <2>1, <2>2
  <1> HIDE DEF v, h, d
  <1> QED BY <1>1, <1>2, <1>3, <1>4, FirstErr2

\* Likewise for the keys that validate_token begins with: the cached or fetched ones,
\* and those of the refresh for an unknown kid.
LEMMA DiscoverOutage ==
    ASSUME NEW tok, NEW cfg, NEW env
    PROVE  LET r == _discover_and_resolve_key(tok, cfg, env) IN
           /\ env.jwks.st = "network" => r = "FetchNetwork"
           /\ r \in Outages => r = "FetchNetwork" /\ \E jwks \in Obtained(env) : jwks.st = "network"
  <1> DEFINE v == validate_jwks_response(env.jwks)
             h == extract_jwt_header_fields(tok)
             looked == Looked(tok, env)
             s == ResolveAndDecode(tok, cfg, env.disco, looked)
             r == _discover_and_resolve_key(tok, cfg, env)
  <1>1. r = IF FirstErr(<<v, h>>) # "ok" THEN FirstErr(<<v, h>>) ELSE s
    BY DEF _discover_and_resolve_key
  <1>2. (env.jwks.st = "network" => v = "FetchNetwork") /\ (env.jwks.st # "network" => v \notin Outages)
    BY FirstErr2 DEF validate_jwks_response, Check, Outages
  <1>3. h \notin Outages /\ "ok" \notin Outages
    BY DEF extract_jwt_header_fields, Check, Outages
  <1>4. looked \in Obtained(env) /\ env.jwks \in Obtained(env)
    BY LookedObtained DEF Obtained
  <1>5. (looked.st = "network" => s = "FetchNetwork") /\ (looked.st # "network" => s \notin Outages)
    BY ResolveOutage
  <1> HIDE DEF v, h, s, r, looked
  <1>6. /\ env.jwks.st = "network" => r = "FetchNetwork"
        /\ r \in Outages => r = "FetchNetwork" /\ (env.jwks.st = "network" \/ looked.st = "network")
    BY <1>1, <1>2, <1>3, <1>5, FirstErr2
  <1> QED BY <1>4, <1>6 DEF r

\* And for those of the refresh after a bad signature.
LEMMA RetryOutage ==
    ASSUME NEW tok, NEW cfg, NEW env
    PROVE  LET r == _retry_with_refreshed_jwks(tok, cfg, env) IN
           r \in Outages => r = "FetchNetwork" /\ \E jwks \in Obtained(env) : jwks.st = "network"
  <1> DEFINE s == ResolveAndDecode(tok, cfg, env.disco, env.jwks3)
             r == _retry_with_refreshed_jwks(tok, cfg, env)
  <1>1. r = IF env.attempt.retry THEN s ELSE "SignatureVerification"
    BY DEF _retry_with_refreshed_jwks
  <1>2. "SignatureVerification" \notin Outages
    BY DEF Outages
  <1>3. (env.jwks3.st = "network" => s = "FetchNetwork") /\ (env.jwks3.st # "network" => s \notin Outages)
    BY ResolveOutage
  <1>4. env.attempt.retry => env.jwks3 \in Obtained(env)
    BY DEF Obtained
  <1> HIDE DEF s, r
  <1> QED BY <1>1, <1>2, <1>3, <1>4 DEF r

\* The configuration of the server passes its own check.
LEMMA ServerConfigOk ==
    ASSUME NEW tok
    PROVE  validate_token_config(ServerConfig(tok)) = "ok"
  <1> DEFINE cfg == ServerConfig(tok)
  <1>1. cfg.issuer = NoIssuer /\ cfg.leeway = 0 /\ cfg.perform_disco = TRUE
    BY DEF ServerConfig
  <1> HIDE DEF cfg
  <1>2. cfg.issuer # {} /\ "" \notin cfg.issuer /\ cfg.leeway >= 0
    BY <1>1 DEF NoIssuer, None
  <1>3. validate_token_config(cfg) = "ok"
    BY <1>1, <1>2, FirstErr3 DEF validate_token_config, Check
  <1> QED BY <1>3 DEF cfg

\* The server's calls end as DiscoAndDecode does, or with the claims validator.
LEMMA ServerErrIs ==
    ASSUME NEW tok, NEW env
    PROVE  ServerErr(tok, env) = FirstErr(<<DiscoAndDecode(tok, ServerConfig(tok), env),
                                            validate_async_claims(ServerConfig(tok).validator)>>)
  <1> DEFINE cfg == ServerConfig(tok)
             d == DiscoAndDecode(tok, cfg, env)
             m == FirstErr(<<validate_config_for_manual_validation(cfg),
                             decode_with_config(tok, cfg, NoIssuer)>>)
  <1>1. validate_token_config(cfg) = "ok" /\ cfg.perform_disco = TRUE
    BY ServerConfigOk DEF ServerConfig
  <1>2. Decoded(tok, cfg, env) = FirstErr(<<validate_token_config(cfg), IF cfg.perform_disco THEN d ELSE m>>)
    BY DEF Decoded
  <1> HIDE DEF cfg, d, m
  <1>3. Decoded(tok, cfg, env) = d
    BY <1>1, <1>2, FirstErr2
  <1> QED BY <1>3 DEF ServerErr, validate_token_aio, cfg, d

\* An outage that the server's calls report was one of the document or of the keys.
LEMMA OutageSource ==
    ASSUME NEW tok, NEW env, ServerErr(tok, env) \in Outages
    PROVE  "network" \in {env.disco.st} \cup {jwks.st : jwks \in Obtained(env)}
  <1> DEFINE cfg == ServerConfig(tok)
             a == Check(env.address, "Configuration")
             b == validate_disco_response(env.disco)
             u == validate_jwks_uri(env.disco)
             pre == FirstErr(<<a, b, u>>)
             r1 == _discover_and_resolve_key(tok, cfg, env)
             r2 == _retry_with_refreshed_jwks(tok, cfg, env)
             v == validate_async_claims(cfg.validator)
             d == DiscoAndDecode(tok, cfg, env)
  <1>1. ServerErr(tok, env) = FirstErr(<<d, v>>)
    BY ServerErrIs
  <1>2. v \notin Outages /\ a \notin Outages /\ u \notin Outages /\ "ok" \notin Outages
    BY DEF validate_async_claims, validate_jwks_uri, Check, Outages
  <1>3. d = IF pre # "ok" THEN pre ELSE Retried(r1, r2)
    BY DEF DiscoAndDecode
  <1>4. b \in Outages => env.disco.st = "network"
    BY DEF validate_disco_response, Check, Outages
  <1>5. r1 \in Outages \/ r2 \in Outages => \E jwks \in Obtained(env) : jwks.st = "network"
    BY DiscoverOutage, RetryOutage
  <1>6. Retried(r1, r2) \in {r1, r2}
    BY DEF Retried
  <1> HIDE DEF v, a, b, u, r1, r2, d
  <1>7. d \in Outages
    BY <1>1, <1>2, FirstErr2
  <1>8. pre \in Outages => b \in Outages
    BY <1>2, FirstErr3
  <1> HIDE DEF pre
  <1>9. b \in Outages \/ r1 \in Outages \/ r2 \in Outages
    BY <1>3, <1>6, <1>7, <1>8
  <1> QED BY <1>4, <1>5, <1>9

\* When discovery fails on the network, that is what validate_token reports.
LEMMA OutageReported ==
    ASSUME NEW tok, NEW env, IsEnv(env), env.disco.st = "network"
    PROVE  ServerErr(tok, env) = "FetchNetwork"
  <1> DEFINE cfg == ServerConfig(tok)
  <1>1. validate_token_config(cfg) = "ok" /\ cfg.perform_disco = TRUE
    BY ServerConfigOk DEF ServerConfig
  <1> HIDE DEF cfg
  <1>2. validate_disco_response(env.disco) = "FetchNetwork"
    BY DEF validate_disco_response, Check
  <1>3. Check(env.address, "Configuration") = "ok"
    BY DEF IsEnv, Check
  <1>4. DiscoAndDecode(tok, cfg, env) = "FetchNetwork"
    BY <1>2, <1>3, FirstErr3 DEF DiscoAndDecode
  <1>5. Decoded(tok, cfg, env) = "FetchNetwork"
    BY <1>1, <1>4, FirstErr2 DEF Decoded
  <1> QED BY <1>5, FirstErr2 DEF ServerErr, validate_token_aio, cfg

\* Keys that did not arrive have no part in a verdict that is not an outage.
LEMMA HealedSame ==
    ASSUME NEW tok, NEW env, IsEnv(env), ServerErr(tok, env) # "FetchNetwork"
    PROVE  ServerErr(tok, Healed(tok, env)) = ServerErr(tok, env)
  <1> DEFINE cfg == ServerConfig(tok)
             h == Healed(tok, env)
             good == Vouching(tok)
             pre == FirstErr(<<Check(env.address, "Configuration"), validate_disco_response(env.disco),
                               validate_jwks_uri(env.disco)>>)
             D(e) == _discover_and_resolve_key(tok, cfg, e)
             R(e) == _retry_with_refreshed_jwks(tok, cfg, e)
             S(jwks) == ResolveAndDecode(tok, cfg, env.disco, jwks)
             v == validate_async_claims(cfg.validator)
             d == DiscoAndDecode(tok, cfg, env)
             dh == DiscoAndDecode(tok, cfg, h)
  <1>1. /\ h.address = env.address /\ h.disco = env.disco /\ h.attempt = env.attempt
        /\ env.jwks.st # "network" => h.jwks = env.jwks
        /\ env.jwks2.st # "network" => h.jwks2 = env.jwks2
        /\ env.jwks3.st # "network" => h.jwks3 = env.jwks3
    BY DEF Healed, IsEnv
  <1> HIDE DEF h, cfg
  <1>2. \A jwks : jwks.st = "network" => S(jwks) = "FetchNetwork"
    BY ResolveOutage
  <1>3. D(env) = "FetchNetwork" \/ D(h) = D(env)
    <2>1. CASE env.jwks.st = "network"
      BY <2>1, DiscoverOutage
    <2>2. CASE env.jwks.st # "network"
      <3> DEFINE first == FirstErr(<<validate_jwks_response(env.jwks), extract_jwt_header_fields(tok)>>)
      <3>1. h.jwks = env.jwks
        BY <1>1, <2>2
      <3>2. /\ D(env) = IF first # "ok" THEN first ELSE S(Looked(tok, env))
            /\ D(h) = IF first # "ok" THEN first ELSE S(Looked(tok, h))
        BY <1>1, <3>1 DEF _discover_and_resolve_key
      <3>3. Looked(tok, env).st # "network" => Looked(tok, h) = Looked(tok, env)
        BY <1>1, <3>1 DEF Looked
      <3> HIDE DEF first, D, S
      <3> QED BY <1>2, <3>2, <3>3
    <2> QED BY <2>1, <2>2
  <1>4. R(env) = "FetchNetwork" \/ R(h) = R(env)
    <2>1. /\ R(env) = IF env.attempt.retry THEN S(env.jwks3) ELSE "SignatureVerification"
          /\ R(h) = IF env.attempt.retry THEN S(h.jwks3) ELSE "SignatureVerification"
      BY <1>1 DEF _retry_with_refreshed_jwks
    <2> HIDE DEF R, S
    <2> QED BY <1>1, <1>2, <2>1
  <1>5. /\ d = IF pre # "ok" THEN pre ELSE Retried(D(env), R(env))
        /\ dh = IF pre # "ok" THEN pre ELSE Retried(D(h), R(h))
    BY <1>1 DEF DiscoAndDecode
  <1>6. ServerErr(tok, env) = FirstErr(<<d, v>>) /\ ServerErr(tok, h) = FirstErr(<<dh, v>>)
    BY ServerErrIs DEF cfg
  <1> HIDE DEF d, dh, v, pre, D, R
  <1>7. d # "FetchNetwork"
    BY <1>6, FirstErr2
  <1>8. dh = d
    BY <1>3, <1>4, <1>5, <1>7 DEF Retried
  <1> QED BY <1>6, <1>8 DEF h

\* Who is told to come back, and who is not.
LEMMA ToldStatus ==
    ASSUME NEW x, NEW async, Verdict(x, async), x.pc \in {"route", "end"}, NEW rq, rq = x.req[1],
           rq.kind \in {"http", "ws"}, rq.kind = "http" => rq.needs.kind \in {"user", "claim", "scope"}
    PROVE  x.status \in {503, 1013} <=> x.err \in Outages
  <1> DEFINE http == _authenticate(rq.tok, x.err)
             ws == authenticate_websocket(rq.tok, x.err)
  <1>1. /\ http \in {0, 401, 500, 503} /\ (http = 503 <=> x.err \in Outages)
        /\ ws \in {0, 1008, 1011, 1013} /\ (ws = 1013 <=> x.err \in Outages)
    BY Refusals
  <1>2. CASE rq.kind = "ws"
    BY <1>1, <1>2 DEF Verdict
  <1>3. CASE rq.kind = "http"
    <2>1. /\ x.user = (http = 0) /\ (x.pc = "route" => http = 0 /\ x.status = 0)
          /\ x.pc = "end" => x.status = IF http = 0 THEN RouteStatus(rq, x.user) ELSE http
      BY <1>3 DEF Verdict
    <2> HIDE DEF http, ws
    <2>2. CASE http = 0
      <3> HIDE DEF http
      <3>0. x.user = TRUE /\ rq.needs.kind \in {"user", "claim", "scope"}
        BY <1>3, <2>1, <2>2
      <3>1. RouteStatus(rq, x.user) = 200 \/ RouteStatus(rq, x.user) = 403
        BY ONLY <3>0 DEF RouteStatus, get_current_user, require_claim, require_scope
      <3>2. x.status = 0 \/ x.status = 200 \/ x.status = 403
        BY <2>1, <2>2, <3>1
      <3> QED BY ONLY <1>1, <2>2, <3>2
    <2>3. CASE http # 0
      <3>1. x.status = http
        BY <2>1, <2>3
      <3> QED BY ONLY <1>1, <3>1
    <2> QED BY <2>2, <2>3
  <1> QED BY <1>2, <1>3

\* An outage of the network is told as one and never blamed on the token: a client of the
\* middleware or of the socket that is not told to come back has the verdict that it would
\* have if every fetch of keys that failed had brought the one that signed its token, and
\* one that is told so met a failed fetch (validate_token, _authenticate,
\* authenticate_websocket).  Failures of the network only, not answers with a 5xx status.
THEOREM OutageToldHolds == Spec => []OutageTold
  <1>1. ASSUME DiscoInv, ConnInv, NEW c \in Callers, Decided(c), conn[c].req[1].kind \in {"http", "ws"}
        PROVE  LET tok == conn[c].req[1].tok
                   env == conn[c].env[1]
               IN  IF conn[c].status \in {503, 1013}
                   THEN "network" \in {env.disco.st} \cup {jwks.st : jwks \in Obtained(env)}
                   ELSE env.disco.st # "network" /\ conn[c].err = ServerErr(tok, Healed(tok, env))
    <2> DEFINE x == conn[c]
               rq == x.req[1]
               tok == rq.tok
               env == x.env[1]
    <2>1. ConnOK(x, Requests[home], Async(c)) /\ home \in DOMAIN Work
      BY <1>1 DEF ConnInv, DiscoInv
    <2>2. Verdict(x, Async(c)) /\ x.pc \in {"route", "end"} /\ rq \in Requests[home]
      BY <1>1, <2>1 DEF ConnOK, Decided
    <2>3. IsEnv(env) /\ x.err = ServerErr(tok, env)
      BY <1>1, <2>2 DEF Verdict, Twin
    <2>4. rq.kind = "http" => rq.needs.kind \in {"user", "claim", "scope"}
      BY <2>1, <2>2, RequestsAssumption
    <2>5. x.status \in {503, 1013} <=> x.err \in Outages
      <3>1. rq = x.req[1] /\ rq.kind \in {"http", "ws"}
        BY <1>1
      <3> HIDE DEF x, rq
      <3> QED BY <2>2, <2>4, <3>1, ToldStatus
    <2> HIDE DEF x, tok, env
    <2>6. x.err \in Outages => "network" \in {env.disco.st} \cup {jwks.st : jwks \in Obtained(env)}
      BY <2>3, OutageSource
    <2>7. env.disco.st = "network" => x.err \in Outages
      BY <2>3, OutageReported DEF Outages
    <2>8. x.err \notin Outages => x.err = ServerErr(tok, Healed(tok, env))
      BY <2>3, HealedSame DEF Outages
    <2>9. IF x.status \in {503, 1013}
          THEN "network" \in {env.disco.st} \cup {jwks.st : jwks \in Obtained(env)}
          ELSE env.disco.st # "network" /\ x.err = ServerErr(tok, Healed(tok, env))
      BY <2>5, <2>6, <2>7, <2>8
    <2> QED BY <2>9 DEF x, tok, env
  <1>2. DiscoInv /\ ConnInv => OutageTold
    BY <1>1 DEF OutageTold
  <1> QED BY <1>2, DiscoInvariant, ConnInvariant, PTL

-----------------------------------------------------------------------------
(* What the checks let through                                             *)

\* A key that is the only one of its kid is found, if it fits the header.
LEMMA NamedFound ==
    ASSUME NEW tok, tok.kid # None, NEW keys, NEW i \in Nat,
           {j \in DOMAIN keys : keys[j].kid = tok.kid} = {i},
           NEW key, key = keys[i], key.kty # None, key.kty = KtyOf(tok.alg), key.alg \in {None, tok.alg}
    PROVE  LET found == find_key_by_kid(tok.kid, keys, tok.alg) IN
           found.err = "ok" /\ found.key = key /\ found.alg = tok.alg
  <1> DEFINE pool == Pool(tok.kid, keys, tok.alg)
             default == IF tok.alg # None THEN tok.alg ELSE "RS256"
             found == find_key_by_kid(tok.kid, keys, tok.alg)
  <1>1. pool = {i}
    BY DEF Pool
  <1>2. found = Picked(keys, pool, tok.kid, tok.alg, default)
    BY DEF find_key_by_kid
  <1> HIDE DEF pool, found
  <1>3. tok.alg \in DOMAIN _ALG_TO_KTY
    BY DEF KtyOf
  <1>4. tok.alg # None /\ tok.alg # "none" /\ tok.alg # "<number>"
    BY <1>3 DEF _ALG_TO_KTY, None
  <1>5. First(keys, pool) = key
    BY <1>1 DEF First
  <1>6. _validate_key_alg_consistency(key, tok.alg) = "ok"
    BY <1>4, ConsistencyOk
  <1>7. found = [err |-> "ok", key |-> key, alg |-> IF key.alg # None THEN key.alg ELSE default]
    BY <1>1, <1>2, <1>5, <1>6 DEF Picked
  <1>8. found.err = "ok" /\ found.key = key /\ found.alg = tok.alg
    BY <1>4, <1>7
  <1> QED BY <1>8 DEF found

\* A token that a published key made for this server is decoded.
LEMMA ServerDecodes ==
    ASSUME NEW tok, NEW cfg, cfg = ServerConfig(tok), NEW key, IsKey(key), key.form = "dict",
           NEW disco, disco.issuer # None, tok.wf, ~Expired(tok, cfg.leeway), key.mat = tok.mat,
           key.kty = KtyOf(tok.alg), tok.iss = disco.issuer,
           IF cfg.audience = None THEN tok.aud = {} ELSE cfg.audience \in tok.aud,
           NEW found, found.err = "ok", found.key = key, found.alg = tok.alg
    PROVE  DecodeFound(tok, cfg, disco, found) = "ok"
  <1> DEFINE rcfg == [cfg EXCEPT !.key = <<key>>, !.algorithms = <<tok.alg>>]
             issuer == {disco.issuer}
             k == [key EXCEPT !.form = "dict"]
             algs == <<tok.alg>>
  <1>1. /\ DOMAIN cfg = CfgFields /\ cfg.algorithms = <<>> /\ cfg.options = None /\ cfg.subject = None
        /\ cfg.allowed = NoIssuer
    BY DEF ServerConfig, CfgFields
  <1>2. /\ rcfg.key = <<key>> /\ rcfg.algorithms = <<tok.alg>> /\ rcfg.allowed = NoIssuer
        /\ rcfg.audience = cfg.audience /\ rcfg.options = None /\ rcfg.leeway = cfg.leeway
        /\ rcfg.subject = None
    BY <1>1 DEF CfgFields
  <1>3. DecodeFound(tok, cfg, disco, found) = decode_with_config(tok, rcfg, issuer)
    BY <1>1 DEF DecodeFound, DecodeResolved, build_resolved_config, Check
  <1> HIDE DEF rcfg
  <1>4. k.mat = key.mat /\ k.kty = key.kty /\ k.form = "dict"
    BY DEF IsKey
  <1>5. algs[1] = tok.alg /\ tok.alg \in Members(algs) /\ algs # <<>>
    BY DEF Members
  <1>6. issuer # {} /\ issuer # NoIssuer /\ tok.iss \in issuer /\ tok.iss # None
    BY DEF NoIssuer
  <1> HIDE DEF k, algs, issuer
  <1>7. Decodes(tok, k, algs, cfg.audience, issuer, None, cfg.leeway)
    BY <1>4, <1>5, <1>6 DEF Decodes
  <1>8. None # "verify_exp=False" /\ None \in {None, tok.sub} /\ key.form # "other"
    BY DEF None
  <1>9. decode_and_validate_jwt(tok, key, algs, cfg.audience, issuer, None, cfg.leeway, None) = "ok"
    BY <1>5, <1>6, <1>7, <1>8, DecodeOk DEF k
  <1>10. rcfg.key # <<>> /\ rcfg.key[1] = key
    BY <1>2
  <1>11. rcfg.algorithms = algs
    BY <1>2 DEF algs
  <1>12. decode_and_validate_jwt(tok, rcfg.key[1], rcfg.algorithms, rcfg.audience, issuer,
                                 rcfg.options, rcfg.leeway, rcfg.subject) = "ok"
    BY <1>2, <1>9, <1>10, <1>11
  <1>13. decode_with_config(tok, rcfg, issuer) = "ok"
    <2> DEFINE effective == IF issuer # NoIssuer THEN issuer ELSE rcfg.issuer
    <2>1. effective = issuer
      BY <1>6
    <2> QED BY <1>2, <1>5, <1>10, <1>11, <1>12, <2>1, DecodeConfigOk
  <1> QED BY <1>3, <1>13

\* The pipeline of the middleware and of the socket lets such a token through.
LEMMA ServerAccepts ==
    ASSUME NEW tok, NEW cfg, cfg = ServerConfig(tok), cfg.validator = "returns", NEW env, IsEnv(env),
           env.disco.st = "ok", env.jwks.st = "ok", DOMAIN env.jwks.keys # {}, tok.wf,
           NEW used, used = Looked(tok, env), used.st = "ok", DOMAIN used.keys # {},
           NEW found, found = find_key_by_kid(tok.kid, used.keys, tok.alg),
           DecodeFound(tok, cfg, env.disco, found) = "ok"
    PROVE  ServerErr(tok, env) = "ok"
  <1>1. validate_jwks_response(env.jwks) = "ok" /\ validate_jwks_response(used) = "ok"
    BY FirstErr2 DEF validate_jwks_response, Check
  <1>2. extract_jwt_header_fields(tok) = "ok"
    BY DEF extract_jwt_header_fields, Check
  <1>3. _discover_and_resolve_key(tok, cfg, env) = "ok"
    <2>1. ResolveAndDecode(tok, cfg, env.disco, used) = "ok"
      BY <1>1, <1>2, FirstErr2 DEF ResolveAndDecode
    <2> QED BY <1>1, <1>2, <2>1, FirstErr2 DEF _discover_and_resolve_key
  <1>4. env.address /\ env.disco.jwks_uri
    BY DEF IsEnv
  <1>5. /\ Check(env.address, "Configuration") = "ok" /\ validate_disco_response(env.disco) = "ok"
        /\ validate_jwks_uri(env.disco) = "ok"
    BY <1>4 DEF Check, validate_disco_response, validate_jwks_uri
  <1>6. DiscoAndDecode(tok, cfg, env) = "ok"
    BY <1>3, <1>5, FirstErr3 DEF DiscoAndDecode, Retried
  <1>7. validate_token_config(cfg) = "ok" /\ cfg.perform_disco = TRUE
    BY ServerConfigOk DEF ServerConfig
  <1>8. Decoded(tok, cfg, env) = "ok"
    BY <1>6, <1>7, FirstErr2 DEF Decoded
  <1>9. validate_async_claims(cfg.validator) = "ok"
    BY DEF validate_async_claims, Check
  <1>10. validate_token_aio(tok, cfg, env) = "ok"
    BY <1>8, <1>9, FirstErr2 DEF validate_token_aio
  <1> QED BY <1>10 DEF ServerErr

\* The answers of the JWKS endpoint hold no other keys.
LEMMA OnlyPublished ==
    ASSUME NEW keys, NEW e, e.jwks.keys = keys, e.jwks2.keys = keys, e.jwks3.keys = keys
    PROVE  Published(e) \subseteq Members(keys)
  <1>1. \A jwks \in Obtained(e) : jwks.keys = keys
    BY DEF Obtained
  <1> QED BY <1>1 DEF Published

\* What Genuine says for the server.
LEMMA GenuineKey ==
    ASSUME NEW tok, NEW cfg, cfg = ServerConfig(tok), NEW e, Genuine(tok, cfg, e)
    PROVE  /\ tok.wf /\ ~Expired(tok, cfg.leeway) /\ tok.iss = e.disco.issuer
           /\ \E k \in Published(e) :
                k.mat = tok.mat /\ k.kty = KtyOf(tok.alg) /\ k.alg \in {None, tok.alg}
           /\ IF cfg.audience = None THEN tok.aud = {} ELSE cfg.audience \in tok.aud
  <1>1. cfg.perform_disco = TRUE /\ cfg.options = None
    BY DEF ServerConfig
  <1> QED BY <1>1 DEF Genuine, None

\* A genuine token whose kid names one key passes the validation of the server.
LEMMA NamedAccepted ==
    ASSUME NEW tok, tok.kid # None, NEW cfg, cfg = ServerConfig(tok), cfg.validator = "returns",
           NEW env, IsEnv(env), env.disco.st = "ok", env.jwks.st = "ok", DOMAIN env.jwks.keys # {},
           NEW used, used = Looked(tok, env), used.st = "ok",
           NEW named, named = {i \in DOMAIN used.keys : used.keys[i].kid = tok.kid},
           Cardinality(named) = 1, NEW keys, keys = [i \in named |-> used.keys[i]],
           NEW e, e.disco = env.disco, e.jwks.keys = keys, e.jwks2.keys = keys, e.jwks3.keys = keys,
           Genuine(tok, cfg, e)
    PROVE  ServerErr(tok, env) = "ok"
  <1>1. IsKeySet(used.keys) /\ env.disco.issuer # None
    BY DEF IsEnv, IsJwks, Looked
  <1>2. PICK i : named = {i}
    <2>1. IsFiniteSet(named)
      BY <1>1, FS_Subset DEF IsKeySet
    <2> QED BY <2>1, FS_Singleton
  <1> DEFINE key == used.keys[i]
             found == find_key_by_kid(tok.kid, used.keys, tok.alg)
  <1>3. i \in DOMAIN used.keys
    BY <1>2
  <1>4. i \in Nat /\ IsKey(key) /\ key.form = "dict" /\ key.kty # None
    BY <1>1, <1>3 DEF IsKeySet
  <1>5. Published(e) \subseteq {key}
    <2>1. Members(keys) = {key}
      BY <1>2 DEF Members
    <2> QED BY <2>1, OnlyPublished
  <1>6. /\ tok.wf /\ ~Expired(tok, cfg.leeway) /\ tok.iss = env.disco.issuer
        /\ key.mat = tok.mat /\ key.kty = KtyOf(tok.alg) /\ key.alg \in {None, tok.alg}
        /\ IF cfg.audience = None THEN tok.aud = {} ELSE cfg.audience \in tok.aud
    <2>1. PICK k \in Published(e) : k.mat = tok.mat /\ k.kty = KtyOf(tok.alg) /\ k.alg \in {None, tok.alg}
      BY GenuineKey
    <2>2. k = key
      BY <1>5, <2>1
    <2> HIDE DEF key
    <2> QED BY <2>1, <2>2, GenuineKey
  <1>7. found.err = "ok" /\ found.key = key /\ found.alg = tok.alg
    BY <1>2, <1>4, <1>6, NamedFound
  <1>8. found = find_key_by_kid(tok.kid, used.keys, tok.alg)
    OBVIOUS
  <1> HIDE DEF found, key
  <1>9. DecodeFound(tok, cfg, env.disco, found) = "ok"
    BY <1>1, <1>4, <1>6, <1>7, ServerDecodes
  <1>10. DOMAIN used.keys # {}
    BY <1>3
  <1> QED BY <1>6, <1>8, <1>9, <1>10, ServerAccepts

\* What the status of an accepted request is.
LEMMA AcceptedStatus ==
    ASSUME NEW x, NEW async, Verdict(x, async), x.pc \in {"route", "end"}, NEW rq, rq = x.req[1],
           rq.kind \in {"http", "ws"}, rq.kind = "http" => rq.needs.kind \in {"user", "claim", "scope"},
           x.err = "ok", evaluate_token_type(rq.tok)
    PROVE  x.status \in {0, 200, 403}
  <1>1. _authenticate(rq.tok, x.err) = 0 /\ authenticate_websocket(rq.tok, x.err) = 0
    BY Refusals
  <1>2. CASE rq.kind = "ws"
    BY <1>1, <1>2 DEF Verdict
  <1>3. CASE rq.kind = "http"
    <2>1. x.user = TRUE /\ (x.pc = "route" => x.status = 0)
          /\ (x.pc = "end" => x.status = RouteStatus(rq, x.user))
      BY <1>1, <1>3 DEF Verdict
    <2>2. RouteStatus(rq, x.user) = 200 \/ RouteStatus(rq, x.user) = 403
      BY <1>3, <2>1 DEF RouteStatus, get_current_user, require_claim, require_scope
    <2> QED BY <2>1, <2>2
  <1> QED BY <1>2, <1>3

\* The checks reject nothing else: a token whose kid names exactly one published key,
\* which signed it for this server, and which the validator does not refuse, is let in by
\* the middleware and by the socket, whatever else the provider publishes
\* (validate_token, find_key_by_kid, evaluate_token_type).
THEOREM CompleteHolds == Spec => []Complete
  <1>1. ASSUME DiscoInv, ConnInv, NEW c \in Callers, Decided(c), conn[c].req[1].kind \in {"http", "ws"}
        PROVE  LET rq  == conn[c].req[1]
                   cfg  == ServerConfig(rq.tok)
                   env  == conn[c].env[1]
                   used  == Looked(rq.tok, env)
                   named == {i \in DOMAIN used.keys : used.keys[i].kid = rq.tok.kid}
                   keys  == [i \in named |-> used.keys[i]]
               IN  (/\ env.disco.st = "ok" /\ env.jwks.st = "ok" /\ DOMAIN env.jwks.keys # {} /\ used.st = "ok"
                    /\ rq.tok.kid # None /\ Cardinality(named) = 1
                    /\ Genuine(rq.tok, cfg, Publishing(keys, env))
                    /\ cfg.validator = "returns" /\ evaluate_token_type(rq.tok))
                   => conn[c].err = "ok" /\ conn[c].status \in {0, 200, 403}
    <2> DEFINE x == conn[c]
               rq == x.req[1]
               tok == rq.tok
               cfg  == ServerConfig(tok)
               env  == x.env[1]
               used == Looked(tok, env)
               named == {i \in DOMAIN used.keys : used.keys[i].kid = tok.kid}
               keys  == [i \in named |-> used.keys[i]]
               e == Publishing(keys, env)
    <2>1. ConnOK(x, Requests[home], Async(c)) /\ home \in DOMAIN Work
      BY <1>1 DEF ConnInv, DiscoInv
    <2>2. Verdict(x, Async(c)) /\ x.pc \in {"route", "end"} /\ rq \in Requests[home]
      BY <1>1, <2>1 DEF ConnOK, Decided
    <2>3. IsEnv(env) /\ x.err = ServerErr(tok, env)
      BY <1>1, <2>2 DEF Verdict, Twin
    <2>4. rq.kind = "http" => rq.needs.kind \in {"user", "claim", "scope"}
      BY <2>1, <2>2, RequestsAssumption
    <2>5. rq.kind \in {"http", "ws"}
      BY <1>1
    <2> SUFFICES ASSUME env.disco.st = "ok", env.jwks.st = "ok", DOMAIN env.jwks.keys # {}, used.st = "ok",
                        tok.kid # None, Cardinality(named) = 1,
                        Genuine(tok, cfg, e), cfg.validator = "returns", evaluate_token_type(tok)
                 PROVE  x.err = "ok" /\ x.status \in {0, 200, 403}
      OBVIOUS
    <2> HIDE DEF keys, rq
    <2>6. e.disco = env.disco /\ e.jwks.keys = keys /\ e.jwks2.keys = keys /\ e.jwks3.keys = keys
      BY <2>3 DEF IsEnv, IsJwks, Publishing
    <2>7. /\ named = {i \in DOMAIN used.keys : used.keys[i].kid = tok.kid} /\ used = Looked(tok, env)
          /\ keys = [i \in named |-> used.keys[i]] /\ cfg = ServerConfig(tok)
      BY DEF keys
    <2> HIDE DEF e, cfg, env, tok, named, x, used
    <2>8. ServerErr(tok, env) = "ok"
      BY <2>3, <2>6, <2>7, NamedAccepted
    <2>9. x.err = "ok"
      BY <2>3, <2>8
    <2>10. rq = x.req[1] /\ evaluate_token_type(rq.tok)
      BY DEF rq, tok
    <2> QED BY <2>2, <2>4, <2>5, <2>9, <2>10, AcceptedStatus
  <1>2. DiscoInv /\ ConnInv => Complete
    BY <1>1, Zenon DEF Complete
  <1> QED BY <1>2, DiscoInvariant, ConnInvariant, PTL

-----------------------------------------------------------------------------
(* The inductive invariant of the conformance harness                      *)

\* The state that the answer of flow f names.
Named(f) == FieldOf(Answer(f), "state")

\* The flow that request q works for, "" while it has none.
Concerns(q) ==
    IF q.op \in {"authorize", "discover"} THEN q.flow
    ELSE IF q.op = "callback" /\ q.at \notin {"lookup", "pop"} THEN Named(q.flow) ELSE ""

\* A request works for flow f.
Busy(f) == \E r \in Slots : \E q \in {req[r]} : Concerns(q) = f

\* The issuer of flow f can be parsed, without which /authorize goes no further.
ParseOk(f) == spec[f].issuer \notin {"", Unparsable}

\* The test of flow f has a result, if it has a name.
Recorded(f) == spec[f].test = "" \/ spec[f].test \in DOMAIN test_results

\* What a login of flow s with the ID token of flow c says of that token.
Own(c, s) ==
    LET tok == IdToken(c)
    IN  /\ tok.mat[1] = spec[s].issuer /\ tok.iss = spec[s].issuer /\ tok.nonce = s
        /\ spec[s].client_id \in tok.aud
        /\ Fapi(s) => tok.aud = {spec[s].client_id} /\ FieldOf(Answer(c), "iss") = spec[s].issuer

\* The discovery document and the response of flow c passed the checks of session s.
Passed(c, s) == ~BadDisco(s, "callback") /\ _validate_fapi2_callback_issuer(c, s)

\* The ID token of flow c passed the checks of app.py.
Verified(c, s) ==
    \/ Faulty(c, "token", "no id_token")
    \/ /\ IdTokenErr(c, s) = "ok" /\ NonceMatches(IdToken(c), s)
       /\ _validate_fapi2_audience(IdToken(c), s)

\* The records of the state have their fields.
IsReq(q) == q = [op |-> q.op, flow |-> q.flow, at |-> q.at, secret |-> q.secret, left |-> q.left]
IsSession(x) == x = [status |-> x.status, secret |-> x.secret, code |-> x.code, ends |-> x.ends]
IsBegun(b) == b = [registered |-> b.registered, started |-> b.started, logouts |-> b.logouts, told |-> b.told]
IsProvider(p) == p = [asked |-> p.asked, redeemed |-> p.redeemed]
IsHistory(h) == h = [opened |-> h.opened, sent |-> h.sent, turned |-> h.turned, cleared |-> h.cleared]

\* The types, as far as the proofs need them.
HarnessTypes ==
    /\ plan \in Plans
    /\ sessions \subseteq Flows /\ request_objects \subseteq Flows /\ clients \subseteq Flows
    /\ session = [f \in Flows |-> session[f]] /\ \A f \in Flows : IsSession(session[f])
    /\ req = [r \in Slots |-> req[r]] /\ \A r \in Slots : IsReq(req[r])
    /\ IsBegun(begun) /\ IsProvider(provider) /\ IsHistory(history)
    /\ provider.asked \subseteq Flows /\ provider.redeemed \subseteq Flows
    /\ history.sent = [f \in Flows |-> history.sent[f]]
    /\ \A t \in DOMAIN test_results : test_results[t] \in Flows
    /\ lastFlow \in Flows \cup {""}

\* No two requests work for the same flow: a session is taken out once.
Alone ==
    \A r, o \in Slots : \A p \in {req[r]}, q \in {req[o]} :
      Concerns(p) = Concerns(q) /\ Concerns(p) # "" => r = o

\* A result of flow f stands under its test and is a verdict.
Listed(f) ==
    \A t \in DOMAIN test_results :
      test_results[t] = f => spec[f].test = t /\ session[f].status \in {"success", "error"}

\* Flow f has no result yet.
Unlisted(f) == \A t \in DOMAIN test_results : test_results[t] # f

\* A request that starts a flow: the provider does not know the flow yet, no code
\* has gone out, and a client opened for it is still open when the login begins.
StartingOK(q) ==
    /\ q.flow \in begun.started /\ q.flow \notin provider.asked \cup request_objects
    /\ ParseOk(q.flow) /\ history.sent[q.flow] = 0
    /\ IF App THEN q.at \in {"discovery", "par"} /\ (q.op = "authorize" => Unlisted(q.flow))
       ELSE q.at \in {"login", "close"} /\ (q.at = "login" => q.flow \in clients)

\* A callback that has taken session s out: up to the exchange no code has gone
\* out, past a check it has passed it, and at the end it has left its result.
HoldingOK(q, s) ==
    /\ s \in begun.started /\ ParseOk(s)
    /\ IF App THEN q.at \in {"discovery", "exchange", "validate", "userinfo"}
       ELSE q.at \in {"router", "session", "close"}
    /\ q.at \in {"discovery", "exchange", "router"} => history.sent[s] = 0
    /\ q.at \in {"exchange", "validate", "userinfo"} => Passed(q.flow, s)
    /\ q.at = "userinfo" => Verified(q.flow, s)
    /\ q.at = "session" => RouterErr(q.flow, s) = "ok" /\ RouterIdTokenErr(q.flow, s) = "ok"
    /\ q.at = "close" => /\ Recorded(s) \/ Uncaught(s)
                         /\ Honest(s) => session[s].status = "success"

\* What a request knows, by what it is and how far it has come.
ReqOK(q) ==
    \/ q = NoReq
    \/ q.op \in {"authorize", "discover"} /\ q.flow \in Flows /\ StartingOK(q)
    \/ q.op = "callback" /\ q.flow \in Flows /\ q.at \in {"lookup", "pop"} /\ App
    \/ /\ q.op = "callback" /\ q.flow \in Flows /\ q.at \notin {"lookup", "pop"}
       /\ (\E s \in Flows : s = Named(q.flow) /\ HoldingOK(q, s))
    \/ q.op = "clear" /\ q.at = "" /\ ~App /\ q.left \subseteq Flows

\* What is known of a flow: before it starts nothing exists of it; while its session
\* waits nobody works for it; a client is open for a reason; and a flow that the
\* provider knows is waiting, thrown away, being served, or has its verdict.
FlowOK(f) ==
    /\ f \notin begun.started =>
         /\ ~Busy(f) /\ f \notin sessions \cup provider.asked \cup request_objects \cup clients
         /\ history.sent[f] = 0 /\ Unlisted(f)
    /\ f \in sessions => ~Busy(f) /\ history.sent[f] = 0 /\ ParseOk(f) /\ (App \/ f \in clients)
    /\ history.sent[f] \in {0, 1}
    /\ f \in clients => f \in sessions \/ Busy(f) \/ Raises(f, "authorize")
    /\ f \in provider.asked \cup request_objects =>
         \/ f \in sessions \cup history.cleared \/ Busy(f)
         \/ (Uncaught(f) \/ Recorded(f)) /\ (Honest(f) => session[f].status = "success")
    /\ session[f].code # "" => \E c \in Flows : c = session[f].code /\ Own(c, f)
    /\ f \in begun.started /\ spec[f].dyn => f \in begun.registered
    /\ Listed(f)

\* A code that was redeemed came out of the session that its answer names.
RedeemedOK == \A c \in provider.redeemed : \E s \in Flows : s = StateOf(c) /\ history.sent[s] = 1

\* Nothing genuine was turned away.
TurnedOK ==
    /\ \A f, g \in Flows : SameContext(f, g) /\ spec[f].fault.at = "none" /\ spec[g].fault.at = "none" =>
         <<f, g>> \notin history.turned /\ <<f, g, "logout">> \notin history.turned
    /\ \A state \in Members(Logouts) : <<state, state>> \notin history.turned

\* The rest of the globals: each harness leaves alone what only the other has.
RestOK ==
    /\ RedeemedOK /\ TurnedOK
    /\ \A f \in Flows : f = lastFlow => ParseOk(f)
    /\ IF App THEN clients = {} ELSE begun.registered = {}

\* The inductive invariant.
HarnessInv ==
    /\ HarnessTypes /\ Alone /\ RestOK
    /\ \A r \in Slots : \A q \in {req[r]} : ReqOK(q)
    /\ \A f \in Flows : FlowOK(f)

-----------------------------------------------------------------------------
(* What the plan determines                                                *)

\* What the plan says of a flow does not change.
LEMMA FlowKept ==
    ASSUME plan' = plan, NEW f
    PROVE  /\ App' <=> App
           /\ spec' = spec
           /\ Fapi(f)' <=> Fapi(f)
           /\ ParseOk(f)' <=> ParseOk(f)
           /\ StateOf(f)' = StateOf(f)
           /\ Named(f)' = Named(f)
           /\ IdToken(f)' = IdToken(f)
           /\ Answer(f)' = Answer(f)
  <1>1. (App' <=> App) /\ spec' = spec
    BY DEF App, spec
  <1>2. (Fapi(f)' <=> Fapi(f)) /\ (ParseOk(f)' <=> ParseOk(f))
    BY <1>1 DEF Fapi, ParseOk
  <1>3. StateOf(f)' = StateOf(f)
    BY <1>1 DEF StateOf, Faulty
  <1>4. Params(f)' = Params(f)
    BY <1>1, <1>3 DEF Params, Faulty
  <1>5. Answer(f)' = Answer(f)
    BY <1>4 DEF Answer
  <1>6. Named(f)' = Named(f)
    BY <1>5 DEF Named, FieldOf
  <1>7. Signed(f, "RS256")' = Signed(f, "RS256") /\ Signed(f, "ES256")' = Signed(f, "ES256")
    BY <1>1 DEF Signed
  <1>8. WhatAt(f, "token")' = WhatAt(f, "token")
    BY <1>1 DEF WhatAt
  <1>9. IdToken(f)' = IdToken(f)
    BY <1>2, <1>7, <1>8, ZenonT(30) DEF IdToken, Fapi, Signed, WhatAt, Spoilt
  <1> QED BY <1>1, <1>2, <1>3, <1>5, <1>6, <1>9

\* Nor do the verdicts on a callback.
LEMMA VerdictKept ==
    ASSUME plan' = plan, NEW c, NEW s
    PROVE  /\ Raises(s, "authorize")' <=> Raises(s, "authorize")
           /\ Uncaught(s)' <=> Uncaught(s)
           /\ Own(c, s)' <=> Own(c, s)
           /\ Passed(c, s)' <=> Passed(c, s)
           /\ Verified(c, s)' <=> Verified(c, s)
           /\ RouterErr(c, s)' = RouterErr(c, s)
           /\ RouterIdTokenErr(c, s)' = RouterIdTokenErr(c, s)
           /\ SameContext(c, s)' <=> SameContext(c, s)
  <1>1. spec' = spec
    BY FlowKept
  <1>2. /\ IdToken(c)' = IdToken(c) /\ Answer(c)' = Answer(c) /\ (Fapi(s)' <=> Fapi(s))
    BY FlowKept
  <1>3. \A f : StateOf(f)' = StateOf(f)
    BY FlowKept
  <1>4. Disco(s, "callback")' = Disco(s, "callback")
    BY <1>1 DEF Disco, Faulty
  <1>5. Env(s)' = Env(s)
    BY <1>1, <1>4 DEF Env
  <1>6. BadDisco(s, "callback")' <=> BadDisco(s, "callback")
    BY <1>1, <1>4 DEF BadDisco
  <1>7. Raises(s, "authorize")' <=> Raises(s, "authorize")
    BY <1>1 DEF Raises, Faulty
  <1>8. Uncaught(s)' <=> Uncaught(s)
    <2>1. (App' <=> App) /\ \A f : Unhashable(f, s)' <=> Unhashable(f, s)
      BY <1>1, <1>2, FlowKept DEF Unhashable, Faulty
    <2> QED BY <1>1, <1>3, <2>1 DEF Uncaught, Raises, Faulty
  <1>9. Own(c, s)' <=> Own(c, s)
    BY <1>1, <1>2 DEF Own
  <1>10. Passed(c, s)' <=> Passed(c, s)
    BY <1>1, <1>2, <1>4, <1>6 DEF Passed, _validate_fapi2_callback_issuer
  <1>11. IdTokenErr(c, s)' = IdTokenErr(c, s)
    BY <1>1, <1>2, <1>5 DEF IdTokenErr, _id_token_validation_params
  <1>12. Verified(c, s)' <=> Verified(c, s)
    BY <1>1, <1>2, <1>11 DEF Verified, Faulty, NonceMatches, _validate_fapi2_audience
  <1>13. RouterErr(c, s)' = RouterErr(c, s)
    BY <1>1, <1>2, <1>4, <1>6 DEF RouterErr
  <1>14. RouterIdTokenErr(c, s)' = RouterIdTokenErr(c, s)
    BY <1>1, <1>2, <1>5 DEF RouterIdTokenErr, Faulty, NonceMatches
  <1>15. SameContext(c, s)' <=> SameContext(c, s)
    BY <1>1 DEF SameContext
  <1> QED BY <1>7, <1>8, <1>9, <1>10, <1>12, <1>13, <1>14, <1>15

\* What a request concerns depends on the request only.
LEMMA ConcernsKept ==
    ASSUME plan' = plan, NEW q
    PROVE  Concerns(q)' = Concerns(q)
  <1>1. Named(q.flow)' = Named(q.flow)
    BY FlowKept
  <1> QED BY <1>1 DEF Concerns

\* An honest flow stays one as long as its session keeps its secret.
LEMMA HonestKept ==
    ASSUME plan' = plan, NEW f, session'[f].secret = session[f].secret
    PROVE  Honest(f)' <=> Honest(f)
  <1>1. spec' = spec /\ (App' <=> App)
    BY FlowKept
  <1>2. \A c : StateOf(c)' = StateOf(c)
    BY FlowKept
  <1> QED BY <1>1, <1>2 DEF Honest

-----------------------------------------------------------------------------
(* A step of one request, for one flow                                     *)

\* The step is taken in slot r, if that is one, and for flow s, if that is one: no
\* other request is concerned with s, and nothing that another flow depends on changes.
Frame(r, s) ==
    /\ plan' = plan
    /\ \A o \in Slots \ {r} : req'[o] = req[o] /\ \A q \in {req[o]} : Concerns(q) # s \/ s = ""
    /\ r \in Slots => \A q \in {req[r], req'[r]} : Concerns(q) \in {"", s}
    /\ \A g \in Flows \ {s} :
         /\ session'[g] = session[g] /\ history'.sent[g] = history.sent[g]
         /\ g \in sessions' <=> g \in sessions
         /\ g \in clients' <=> g \in clients
         /\ g \in begun'.started <=> g \in begun.started
         /\ g \in begun.registered => g \in begun'.registered
         /\ g \in history.cleared => g \in history'.cleared
         /\ g \in provider'.asked \cup request_objects' <=> g \in provider.asked \cup request_objects
    /\ DOMAIN test_results \subseteq DOMAIN test_results'
    /\ \A t \in DOMAIN test_results' :
         \/ s \in Flows /\ test_results'[t] = s
         \/ t \in DOMAIN test_results /\ test_results'[t] = test_results[t]

\* Another request is as it was.
LEMMA OtherRequest ==
    ASSUME HarnessInv, NEW r, NEW s, s \in Flows \cup {""}, Frame(r, s), NEW o \in Slots \ {r},
           NEW q, q = req[o]
    PROVE  ReqOK(q)'
  <1>1. ReqOK(q) /\ (Concerns(q) # s \/ s = "")
    BY DEF HarnessInv, Frame
  <1>2. plan' = plan
    BY DEF Frame
  <1>3. (App' <=> App) /\ Named(q.flow)' = Named(q.flow)
    BY <1>2, FlowKept
  <1>4. CASE q = NoReq
    BY <1>4 DEF ReqOK
  <1>5. CASE q.op \in {"authorize", "discover"} /\ q.flow \in Flows /\ StartingOK(q)
    <2>1. q.flow \in Flows \ {s}
      BY <1>1, <1>5, PlansAssumption DEF Concerns
    <2>2. ParseOk(q.flow)' <=> ParseOk(q.flow)
      BY <1>2, FlowKept
    <2>3. Unlisted(q.flow) => Unlisted(q.flow)'
      BY <2>1 DEF Frame, Unlisted
    <2>4. StartingOK(q)'
      BY <1>3, <1>5, <2>1, <2>2, <2>3 DEF StartingOK, Frame
    <2> QED BY <1>5, <2>4 DEF ReqOK
  <1>6. CASE q.op = "callback" /\ q.flow \in Flows /\ q.at \in {"lookup", "pop"} /\ App
    BY <1>3, <1>6 DEF ReqOK
  <1>7. CASE /\ q.op = "callback" /\ q.flow \in Flows /\ q.at \notin {"lookup", "pop"}
             /\ \E h \in Flows : h = Named(q.flow) /\ HoldingOK(q, h)
    <2>1. PICK h \in Flows : h = Named(q.flow) /\ HoldingOK(q, h)
      BY <1>7
    <2>2. h \in Flows \ {s}
      BY <1>1, <1>7, <2>1, PlansAssumption DEF Concerns
    <2>3. session'[h] = session[h] /\ history'.sent[h] = history.sent[h] /\ (h \in begun'.started <=> h \in begun.started)
      BY <2>2 DEF Frame
    <2>4. Honest(h)' <=> Honest(h)
      BY <1>2, <2>3, HonestKept
    <2>5. spec' = spec /\ (ParseOk(h)' <=> ParseOk(h))
      BY <1>2, FlowKept
    <2>6. Recorded(h) => Recorded(h)'
      BY <2>5 DEF Recorded, Frame
    <2>7. /\ Uncaught(h)' <=> Uncaught(h)
          /\ Passed(q.flow, h)' <=> Passed(q.flow, h)
          /\ Verified(q.flow, h)' <=> Verified(q.flow, h)
          /\ RouterErr(q.flow, h)' = RouterErr(q.flow, h)
          /\ RouterIdTokenErr(q.flow, h)' = RouterIdTokenErr(q.flow, h)
      BY <1>2, VerdictKept
    <2>8. HoldingOK(q, h)'
      BY <1>3, <2>1, <2>3, <2>4, <2>5, <2>6, <2>7 DEF HoldingOK
    <2> QED BY <1>3, <1>7, <2>1, <2>8 DEF ReqOK
  <1>8. CASE q.op = "clear" /\ q.at = "" /\ ~App /\ q.left \subseteq Flows
    BY <1>3, <1>8 DEF ReqOK
  <1> QED BY <1>1, <1>4, <1>5, <1>6, <1>7, <1>8 DEF ReqOK

\* A flow is as busy as it was, if the step is for another one.
LEMMA OtherBusy ==
    ASSUME NEW r, NEW s, s \in Flows \cup {""}, Frame(r, s), NEW g \in Flows \ {s}
    PROVE  Busy(g)' <=> Busy(g)
  <1>1. plan' = plan
    BY DEF Frame
  <1>2. \A q : Concerns(q)' = Concerns(q)
    BY <1>1, ConcernsKept
  <1>3. g # ""
    BY PlansAssumption
  <1>4. ASSUME NEW o \in Slots
        PROVE  (\E q \in {req'[o]} : Concerns(q) = g) <=> (\E q \in {req[o]} : Concerns(q) = g)
    <2>1. CASE o = r
      BY <1>3, <2>1 DEF Frame
    <2>2. CASE o # r
      BY <2>2 DEF Frame
    <2> QED BY <2>1, <2>2
  <1> QED BY <1>2, <1>4 DEF Busy

\* Another flow is as it was.
LEMMA OtherFlow ==
    ASSUME HarnessInv, NEW r, NEW s, s \in Flows \cup {""}, Frame(r, s), NEW g \in Flows \ {s}
    PROVE  FlowOK(g)'
  <1>1. FlowOK(g) /\ plan' = plan
    BY DEF HarnessInv, Frame
  <1>2. Busy(g)' <=> Busy(g)
    BY OtherBusy
  <1>3. /\ session'[g] = session[g] /\ history'.sent[g] = history.sent[g]
        /\ g \in sessions' <=> g \in sessions
        /\ g \in clients' <=> g \in clients
        /\ g \in begun'.started <=> g \in begun.started
        /\ g \in begun.registered => g \in begun'.registered
        /\ g \in history.cleared => g \in history'.cleared
        /\ g \in provider'.asked \cup request_objects' <=> g \in provider.asked \cup request_objects
    BY DEF Frame
  <1>4. spec' = spec /\ (App' <=> App) /\ (ParseOk(g)' <=> ParseOk(g))
    BY <1>1, FlowKept
  <1>5. Honest(g)' <=> Honest(g)
    BY <1>1, <1>3, HonestKept
  <1>6. (Raises(g, "authorize")' <=> Raises(g, "authorize")) /\ (Uncaught(g)' <=> Uncaught(g))
    BY <1>1, VerdictKept
  <1>7. \A c : Own(c, g)' <=> Own(c, g)
    BY <1>1, VerdictKept
  <1>8. Recorded(g) => Recorded(g)'
    BY <1>4 DEF Recorded, Frame
  <1>9. Unlisted(g) => Unlisted(g)'
    BY DEF Unlisted, Frame
  <1>10. Listed(g) => Listed(g)'
    <2>1. \A t \in DOMAIN test_results' : test_results'[t] = g => t \in DOMAIN test_results /\ test_results[t] = g
      BY DEF Frame
    <2> QED BY <1>3, <1>4, <2>1 DEF Listed
  <1> QED BY <1>1, <1>2, <1>3, <1>4, <1>5, <1>6, <1>7, <1>8, <1>9, <1>10 DEF FlowOK

\* A step of one request for one flow: what has to be shown of that request, that flow
\* and the rest.
LEMMA StepKeeps ==
    ASSUME HarnessInv, NEW r, NEW s, s \in Flows \cup {""}, Frame(r, s), HarnessTypes', RestOK',
           r \in Slots => \A q \in {req'[r]} : ReqOK(q)', s \in Flows => FlowOK(s)'
    PROVE  HarnessInv'
  <1>1. plan' = plan
    BY DEF Frame
  <1>2. \A q : Concerns(q)' = Concerns(q)
    BY <1>1, ConcernsKept
  <1>3. Alone'
    <2>1. ASSUME NEW o \in Slots, NEW u \in Slots, NEW p, p = req'[o], NEW q, q = req'[u],
                 Concerns(p) = Concerns(q), Concerns(p) # "", o # u
          PROVE  FALSE
      <3>1. CASE o = r
        BY <2>1, <3>1 DEF Frame
      <3>2. CASE u = r
        BY <2>1, <3>2 DEF Frame
      <3>3. CASE o # r /\ u # r
        BY <2>1, <3>3, ZenonT(30) DEF Frame, HarnessInv, Alone
      <3> QED BY <3>1, <3>2, <3>3
    <2> QED BY <1>2, <2>1 DEF Alone
  <1>4. \A o \in Slots : \A q \in {req'[o]} : ReqOK(q)'
    <2>1. ASSUME NEW o \in Slots, NEW q, q = req'[o]
          PROVE  ReqOK(q)'
      <3>1. CASE o = r
        BY <2>1, <3>1
      <3>2. CASE o # r
        <4>1. o \in Slots \ {r} /\ q = req[o]
          BY <2>1, <3>2 DEF Frame
        <4> QED BY <4>1, OtherRequest
      <3> QED BY <3>1, <3>2
    <2> QED BY <2>1
  <1>5. \A f \in Flows : FlowOK(f)'
    BY OtherFlow
  <1> QED BY <1>3, <1>4, <1>5 DEF HarnessInv

\* The rest is as it was, or as the step has to show.
LEMMA RestKept ==
    ASSUME HarnessInv, plan' = plan,
           \A c \in provider'.redeemed :
             c \in provider.redeemed \/ \E s \in Flows : s = StateOf(c) /\ history'.sent[s] = 1,
           \A g \in Flows : history.sent[g] = 1 => history'.sent[g] = 1,
           history'.turned = history.turned \/ TurnedOK',
           lastFlow' = lastFlow \/ \E f \in Flows : f = lastFlow' /\ ParseOk(f),
           App => clients' \subseteq clients, App \/ begun'.registered = begun.registered
    PROVE  RestOK'
  <1>1. (App' <=> App) /\ spec' = spec
    BY FlowKept
  <1>2. \A f : (ParseOk(f)' <=> ParseOk(f)) /\ StateOf(f)' = StateOf(f)
    BY FlowKept
  <1>3. \A f, g : SameContext(f, g)' <=> SameContext(f, g)
    BY VerdictKept
  <1>4. RedeemedOK'
    BY <1>2 DEF RedeemedOK, RestOK, HarnessInv
  <1>5. TurnedOK'
    BY <1>1, <1>3 DEF TurnedOK, RestOK, HarnessInv
  <1>6. \A f \in Flows : f = lastFlow' => ParseOk(f)'
    BY <1>2 DEF RestOK, HarnessInv
  <1>7. IF App' THEN clients' = {} ELSE begun'.registered = {}
    BY <1>1 DEF RestOK, HarnessInv
  <1> QED BY <1>4, <1>5, <1>6, <1>7 DEF RestOK

\* No request is concerned with the flow of another one, nor with a flow that is not busy.
LEMMA OwnRequest ==
    ASSUME HarnessInv, NEW r, NEW s \in Flows,
           (r \in Slots /\ \E q \in {req[r]} : Concerns(q) = s) \/ ~Busy(s)
    PROVE  \A o \in Slots \ {r} : \A p \in {req[o]} : Concerns(p) # s
  <1>1. s # ""
    BY PlansAssumption
  <1>2. CASE ~Busy(s)
    BY <1>2 DEF Busy
  <1>3. CASE r \in Slots /\ \E q \in {req[r]} : Concerns(q) = s
    BY <1>1, <1>3 DEF HarnessInv, Alone
  <1> QED BY <1>2, <1>3

\* Whether the flow of a step is busy afterwards.
LEMMA BusyAfter ==
    ASSUME NEW r \in Slots, NEW s \in Flows, Frame(r, s), NEW q, q = req'[r]
    PROVE  Busy(s)' <=> Concerns(q) = s
  <1>1. plan' = plan
    BY DEF Frame
  <1>2. \A p : Concerns(p)' = Concerns(p)
    BY <1>1, ConcernsKept
  <1>3. s # ""
    BY PlansAssumption
  <1>4. Busy(s)' <=> \E o \in Slots : \E p \in {req'[o]} : Concerns(p) = s
    BY <1>2 DEF Busy
  <1>5. \A o \in Slots \ {r} : \A p \in {req'[o]} : Concerns(p) # s
    BY <1>3 DEF Frame
  <1> QED BY <1>4, <1>5

\* A slot that is free.
LEMMA NoReqFacts ==
    ASSUME NEW q, q = NoReq
    PROVE  q.op = "idle" /\ q.at = "" /\ IsReq(q) /\ ReqOK(q) /\ Concerns(q) = ""
  <1>1. q.op = "idle" /\ q.at = "" /\ IsReq(q)
    BY DEF NoReq, IsReq
  <1> QED BY <1>1 DEF ReqOK, Concerns

\* What a request is concerned with is a flow, or nothing.
LEMMA ConcernsType ==
    ASSUME HarnessInv, NEW r \in Slots, NEW q, q = req[r]
    PROVE  Concerns(q) \in Flows \cup {""}
  <1>1. ReqOK(q)
    BY DEF HarnessInv
  <1>2. CASE q = NoReq
    BY <1>2, NoReqFacts
  <1>3. CASE q.op \in {"authorize", "discover"} /\ q.flow \in Flows
    BY <1>3 DEF Concerns
  <1>4. CASE q.op = "callback" /\ q.at \in {"lookup", "pop"}
    BY <1>4 DEF Concerns
  <1>5. CASE q.op = "callback" /\ q.at \notin {"lookup", "pop"} /\ Named(q.flow) \in Flows
    BY <1>5 DEF Concerns
  <1>6. CASE q.op = "clear"
    BY <1>6 DEF Concerns
  <1> QED BY <1>1, <1>2, <1>3, <1>4, <1>5, <1>6 DEF ReqOK

\* Entering a result.
LEMMA MarkFacts ==
    ASSUME HarnessInv, plan' = plan, NEW s \in Flows, NEW st \in {"success", "error"}, NEW x,
           IsSession(x), x.status = st,
           session' = [session EXCEPT ![s] = x], test_results' = Entered(s)
    PROVE  /\ session' = [f \in Flows |-> session'[f]] /\ \A f \in Flows : IsSession(session'[f])
           /\ session'[s] = x /\ \A g \in Flows \ {s} : session'[g] = session[g]
           /\ DOMAIN test_results \subseteq DOMAIN test_results'
           /\ \A t \in DOMAIN test_results' :
                \/ test_results'[t] = s
                \/ t \in DOMAIN test_results /\ test_results'[t] = test_results[t]
           /\ \A t \in DOMAIN test_results' : test_results'[t] \in Flows
           /\ Recorded(s)' /\ Listed(s)'
  <1>1. /\ session = [f \in Flows |-> session[f]] /\ \A f \in Flows : IsSession(session[f])
        /\ \A t \in DOMAIN test_results : test_results[t] \in Flows
        /\ Listed(s)
    BY DEF HarnessInv, HarnessTypes, FlowOK
  <1>2. spec' = spec
    BY FlowKept
  <1>3. /\ session' = [f \in Flows |-> session'[f]] /\ \A f \in Flows : IsSession(session'[f])
        /\ session'[s] = x /\ \A g \in Flows \ {s} : session'[g] = session[g]
    BY <1>1
  <1>4. CASE spec[s].test = ""
    <2>1. test_results' = test_results
      BY <1>4 DEF Entered
    <2>2. Recorded(s)'
      BY <1>2, <1>4 DEF Recorded
    <2>3. Listed(s)'
      BY <1>1, <1>2, <1>3, <2>1 DEF Listed
    <2> QED BY <1>1, <1>3, <2>1, <2>2, <2>3
  <1>5. CASE spec[s].test # ""
    <2>1. /\ DOMAIN test_results' = DOMAIN test_results \cup {spec[s].test}
          /\ test_results'[spec[s].test] = s
          /\ \A t \in DOMAIN test_results : t # spec[s].test => test_results'[t] = test_results[t]
      BY <1>5 DEF Entered
    <2>2. Recorded(s)'
      BY <1>2, <2>1 DEF Recorded
    <2>3. Listed(s)'
      BY <1>1, <1>2, <1>3, <2>1 DEF Listed
    <2> QED BY <1>1, <1>3, <2>1, <2>2, <2>3
  <1> QED BY <1>4, <1>5

\* What holds of a request depends on the state that the handlers share.
LEMMA StillReq ==
    ASSUME UNCHANGED <<plan, sessions, session, request_objects, test_results, clients, begun, provider,
                       history>>,
           NEW q, ReqOK(q)
    PROVE  ReqOK(q)'
  <1>1. (App' <=> App) /\ Named(q.flow)' = Named(q.flow) /\ spec' = spec
    BY FlowKept
  <1>2. \A f : (ParseOk(f)' <=> ParseOk(f))
    BY FlowKept
  <1>3. \A f : Honest(f)' <=> Honest(f)
    BY HonestKept
  <1>4. \A f : (Recorded(f)' <=> Recorded(f)) /\ (Unlisted(f)' <=> Unlisted(f))
    BY <1>1 DEF Recorded, Unlisted
  <1>5. \A c, f : /\ Uncaught(f)' <=> Uncaught(f)
                  /\ Passed(c, f)' <=> Passed(c, f)
                  /\ Verified(c, f)' <=> Verified(c, f)
                  /\ RouterErr(c, f)' = RouterErr(c, f)
                  /\ RouterIdTokenErr(c, f)' = RouterIdTokenErr(c, f)
    BY VerdictKept
  <1>6. \A f : HoldingOK(q, f)' <=> HoldingOK(q, f)
    BY <1>1, <1>2, <1>3, <1>4, <1>5 DEF HoldingOK
  <1>7. StartingOK(q)' <=> StartingOK(q)
    BY <1>1, <1>2, <1>4 DEF StartingOK
  <1> QED BY <1>1, <1>6, <1>7 DEF ReqOK

\* So does what holds of a flow, but for the request that works for it.
LEMMA StillFlow ==
    ASSUME UNCHANGED <<plan, sessions, session, request_objects, test_results, clients, begun, provider,
                       history>>,
           NEW s, FlowOK(s), Busy(s)' <=> Busy(s)
    PROVE  FlowOK(s)'
  <1>1. (App' <=> App) /\ spec' = spec
    BY FlowKept
  <1>2. (ParseOk(s)' <=> ParseOk(s)) /\ (Honest(s)' <=> Honest(s))
    BY FlowKept, HonestKept
  <1>3. (Raises(s, "authorize")' <=> Raises(s, "authorize")) /\ (Uncaught(s)' <=> Uncaught(s))
    BY VerdictKept
  <1>4. \A c : Own(c, s)' <=> Own(c, s)
    BY VerdictKept
  <1>5. (Recorded(s)' <=> Recorded(s)) /\ (Unlisted(s)' <=> Unlisted(s)) /\ (Listed(s)' <=> Listed(s))
    BY <1>1 DEF Recorded, Unlisted, Listed
  <1> QED BY <1>1, <1>2, <1>3, <1>4, <1>5 DEF FlowOK

\* The request in slot r becomes q.
LEMMA SlotBecomes ==
    ASSUME HarnessInv, NEW r \in Slots, NEW q, IsReq(q), req' = [req EXCEPT ![r] = q]
    PROVE  /\ req'[r] = q /\ \A o \in Slots \ {r} : req'[o] = req[o]
           /\ req' = [o \in Slots |-> req'[o]] /\ \A o \in Slots : IsReq(req'[o])
  BY DEF HarnessInv, HarnessTypes

\* A handler moves on, or takes up a request, and does nothing else.
LEMMA MoveKeeps ==
    ASSUME HarnessInv, NEW r \in Slots, NEW q, req' = [req EXCEPT ![r] = q], IsReq(q),
           UNCHANGED <<plan, rp, begun, provider, history>>,
           ReqOK(q), \E p \in {req[r]} : Concerns(q) = Concerns(p)
    PROVE  HarnessInv'
  <1>1. PICK p : p = req[r] /\ Concerns(q) = Concerns(p)
    OBVIOUS
  <1>2. PICK s \in Flows \cup {""} : s = Concerns(p)
    BY <1>1, ConcernsType
  <1>3. UNCHANGED <<plan, sessions, session, lastFlow, lastLogout, expected, registered, request_objects,
                    test_results, clients, begun, provider, history>>
    BY DEF rp
  <1>4. HarnessTypes
    BY DEF HarnessInv
  <1>5. /\ req'[r] = q /\ \A o \in Slots \ {r} : req'[o] = req[o]
        /\ req' = [o \in Slots |-> req'[o]] /\ \A o \in Slots : IsReq(req'[o])
    BY SlotBecomes
  <1>6. \A o \in Slots \ {r} : \A u \in {req[o]} : Concerns(u) # s \/ s = ""
    BY <1>1, <1>2, OwnRequest
  <1>7. Frame(r, s)
    BY <1>1, <1>2, <1>3, <1>5, <1>6 DEF Frame
  <1>8. HarnessTypes'
    BY <1>3, <1>4, <1>5 DEF HarnessTypes
  <1>9. RestOK'
    BY <1>3, RestKept
  <1>10. ReqOK(q)'
    BY <1>3, StillReq
  <1>11. s \in Flows => FlowOK(s)'
    <2> SUFFICES ASSUME s \in Flows PROVE FlowOK(s)'
      OBVIOUS
    <2>1. Busy(s)'
      BY <1>1, <1>2, <1>5, <1>7, BusyAfter
    <2>2. Busy(s)
      BY <1>1, <1>2 DEF Busy
    <2>3. FlowOK(s)
      BY DEF HarnessInv
    <2> QED BY <1>3, <2>1, <2>2, <2>3, StillFlow
  <1> QED BY <1>5, <1>7, <1>8, <1>9, <1>10, <1>11, StepKeeps

\* A request ends, with nothing recorded.
LEMMA DropKeeps ==
    ASSUME HarnessInv, NEW r \in Slots, Drop(r), NEW p, p = req[r], NEW s, s = Concerns(p),
           s \in Flows =>
             /\ s \in clients => Raises(s, "authorize")
             /\ s \in provider.asked \cup request_objects =>
                  (Uncaught(s) \/ Recorded(s)) /\ (Honest(s) => session[s].status = "success")
    PROVE  HarnessInv'
  <1>1. PICK q : q = NoReq
    OBVIOUS
  <1>2. req' = [req EXCEPT ![r] = q] /\ UNCHANGED <<plan, rp, begun, provider, history>>
    BY <1>1 DEF Drop, Done
  <1>3. IsReq(q) /\ ReqOK(q) /\ Concerns(q) = ""
    BY <1>1, NoReqFacts
  <1>4. s \in Flows \cup {""}
    BY ConcernsType
  <1>5. CASE s = ""
    BY <1>2, <1>3, <1>5, MoveKeeps
  <1>6. CASE s \in Flows
    <2>1. UNCHANGED <<plan, sessions, session, lastFlow, lastLogout, expected, registered, request_objects,
                      test_results, clients, begun, provider, history>>
      BY <1>2 DEF rp
    <2>2. HarnessTypes
      BY DEF HarnessInv
    <2>3. /\ req'[r] = q /\ \A o \in Slots \ {r} : req'[o] = req[o]
          /\ req' = [o \in Slots |-> req'[o]] /\ \A o \in Slots : IsReq(req'[o])
      BY <1>2, <1>3, SlotBecomes
    <2>4. \A o \in Slots \ {r} : \A u \in {req[o]} : Concerns(u) # s
      BY <1>6, OwnRequest
    <2>5. Frame(r, s)
      BY <1>3, <2>1, <2>3, <2>4 DEF Frame
    <2>6. HarnessTypes'
      BY <2>1, <2>2, <2>3 DEF HarnessTypes
    <2>7. RestOK'
      BY <2>1, RestKept
    <2>8. ReqOK(q)'
      BY <1>3, <2>1, StillReq
    <2>9. FlowOK(s)'
      <3>1. ~Busy(s)'
        <4>1. q = req'[r] /\ r \in Slots /\ s \in Flows /\ Concerns(q) # s
          BY <1>3, <1>6, <2>3, PlansAssumption
        <4> QED BY ONLY <2>5, <4>1, BusyAfter
      <3>2. Busy(s)
        BY DEF Busy
      <3>3. (App' <=> App) /\ spec' = spec
        BY <2>1, FlowKept
      <3>4. (ParseOk(s)' <=> ParseOk(s)) /\ (Honest(s)' <=> Honest(s))
        BY <2>1, FlowKept, HonestKept
      <3>5. (Raises(s, "authorize")' <=> Raises(s, "authorize")) /\ (Uncaught(s)' <=> Uncaught(s))
        BY <2>1, VerdictKept
      <3>6. \A c : Own(c, s)' <=> Own(c, s)
        BY <2>1, VerdictKept
      <3>7. (Recorded(s)' <=> Recorded(s)) /\ (Unlisted(s)' <=> Unlisted(s)) /\ (Listed(s)' <=> Listed(s))
        BY <2>1, <3>3 DEF Recorded, Unlisted, Listed
      <3>8. FlowOK(s)
        BY <1>6 DEF HarnessInv
      <3> QED BY <1>6, <2>1, <3>1, <3>2, <3>3, <3>4, <3>5, <3>6, <3>7, <3>8 DEF FlowOK
    <2> QED BY <1>4, <2>3, <2>5, <2>6, <2>7, <2>8, <2>9, StepKeeps
  <1> QED BY <1>4, <1>5, <1>6

\* The session of flow s may send a code, which may be redeemed.
Spent(s) ==
    /\ IsProvider(provider') /\ provider'.asked = provider.asked /\ provider'.redeemed \subseteq Flows
    /\ IsHistory(history') /\ history'.turned = history.turned /\ history'.cleared = history.cleared
    /\ history'.sent = [f \in Flows |-> history'.sent[f]]
    /\ \A g \in Flows \ {s} : history'.sent[g] = history.sent[g]
    /\ history'.sent[s] \in {0, 1} /\ (history.sent[s] = 1 => history'.sent[s] = 1)
    /\ \A c \in provider'.redeemed :
         c \in provider.redeemed \/ \E g \in Flows : g = StateOf(c) /\ history'.sent[g] = 1

\* Or not.
LEMMA NothingSpent ==
    ASSUME HarnessInv, NEW s \in Flows, UNCHANGED <<provider, history>>
    PROVE  Spent(s)
  BY DEF HarnessInv, HarnessTypes, FlowOK, Spent

\* A flow keeps what is known of its session, whose result is entered.
LEMMA MarkKeeps ==
    ASSUME HarnessInv, NEW r \in Slots, NEW p, p = req[r], NEW s \in Flows, s = Concerns(p), Spent(s),
           UNCHANGED <<plan, sessions, lastFlow, request_objects, clients, begun>>,
           NEW st \in {"success", "error"}, NEW x, IsSession(x), x.status = st, x.secret = session[s].secret,
           x.code \in {"", session[s].code} \/ (\E c \in Flows : c = x.code /\ Own(c, s)),
           session' = [session EXCEPT ![s] = x], test_results' = Entered(s),
           NEW q, IsReq(q), req' = [req EXCEPT ![r] = q], Concerns(q) \in {"", s}, ReqOK(q)',
           s \in clients => Concerns(q) = s \/ Raises(s, "authorize"),
           s \in provider.asked \cup request_objects /\ Honest(s) => Concerns(q) = s \/ st = "success"
    PROVE  HarnessInv'
  <1>1. HarnessTypes
    BY DEF HarnessInv
  <1>2. /\ req'[r] = q /\ \A o \in Slots \ {r} : req'[o] = req[o]
        /\ req' = [o \in Slots |-> req'[o]] /\ \A o \in Slots : IsReq(req'[o])
    BY SlotBecomes
  <1>3. \A o \in Slots \ {r} : \A u \in {req[o]} : Concerns(u) # s
    BY OwnRequest
  <1>4. /\ session' = [f \in Flows |-> session'[f]] /\ \A f \in Flows : IsSession(session'[f])
        /\ session'[s] = x /\ \A g \in Flows \ {s} : session'[g] = session[g]
        /\ DOMAIN test_results \subseteq DOMAIN test_results'
        /\ \A t \in DOMAIN test_results' :
             \/ test_results'[t] = s
             \/ t \in DOMAIN test_results /\ test_results'[t] = test_results[t]
        /\ \A t \in DOMAIN test_results' : test_results'[t] \in Flows
        /\ Recorded(s)' /\ Listed(s)'
    BY MarkFacts
  <1>5. Frame(r, s)
    BY <1>2, <1>3, <1>4, ZenonT(30) DEF Frame, Spent
  <1>6. HarnessTypes'
    BY <1>1, <1>2, <1>4 DEF HarnessTypes, Spent
  <1>7. RestOK'
    BY RestKept DEF Spent
  <1>8. FlowOK(s)'
    <2>1. Busy(s)' <=> Concerns(q) = s
      BY <1>2, <1>5, BusyAfter, ZenonT(30)
    <2>2. Busy(s)
      BY DEF Busy
    <2>3. (App' <=> App) /\ spec' = spec
      BY FlowKept
    <2>4. (ParseOk(s)' <=> ParseOk(s)) /\ (Honest(s)' <=> Honest(s))
      BY <1>4, FlowKept, HonestKept
    <2>5. (Raises(s, "authorize")' <=> Raises(s, "authorize"))
      BY VerdictKept
    <2>6. \A c : Own(c, s)' <=> Own(c, s)
      BY VerdictKept
    <2>7. FlowOK(s)
      BY DEF HarnessInv
    <2>8. s \in begun.started /\ s \notin sessions
      BY <2>2, <2>7 DEF FlowOK
    <2>9. session'[s].code # "" => \E c \in Flows : c = session'[s].code /\ Own(c, s)
      BY <1>4, <2>7 DEF FlowOK
    <2> QED BY <1>4, <2>1, <2>3, <2>4, <2>5, <2>6, <2>7, <2>8, <2>9 DEF FlowOK, Spent
  <1> QED BY <1>2, <1>5, <1>6, <1>7, <1>8, StepKeeps

\* An error response of a handler of app.py that works for flow s.
LEMMA RefuseKeeps ==
    ASSUME HarnessInv, App, NEW r \in Slots, NEW p, p = req[r], NEW s \in Flows, s = Concerns(p), Refuse(r, s),
           s \in provider.asked \cup request_objects => ~Honest(s)
    PROVE  HarnessInv'
  <1>1. PICK q : q = NoReq
    OBVIOUS
  <1>2. PICK x : x = [session[s] EXCEPT !.status = "error"]
    OBVIOUS
  <1>3. /\ req' = [req EXCEPT ![r] = q] /\ session' = [session EXCEPT ![s] = x] /\ test_results' = Entered(s)
        /\ UNCHANGED <<plan, sessions, lastFlow, request_objects, clients, begun, provider, history>>
    BY <1>1, <1>2 DEF Refuse, _record_error, _store_test_result, Done
  <1>4. IsReq(q) /\ Concerns(q) = ""
    BY <1>1, NoReqFacts
  <1>5. ReqOK(q)'
    BY <1>1 DEF ReqOK
  <1>6. IsSession(session[s])
    BY DEF HarnessInv, HarnessTypes
  <1>7. IsSession(x) /\ x.status = "error" /\ x.secret = session[s].secret /\ x.code = session[s].code
    BY <1>2, <1>6 DEF IsSession
  <1>8. clients = {}
    BY DEF HarnessInv, RestOK
  <1>9. Spent(s)
    BY <1>3, NothingSpent
  <1> QED BY <1>3, <1>4, <1>5, <1>7, <1>8, <1>9, MarkKeeps

\* The books of the runner once flow f is started.
LEMMA StartedFacts ==
    ASSUME HarnessInv, NEW f \in Flows, f \notin begun.started,
           begun' = [begun EXCEPT !.started = @ \cup {f}]
    PROVE  /\ begun'.started = begun.started \cup {f} /\ begun'.registered = begun.registered
           /\ IsBegun(begun')
           /\ ~Busy(f) /\ f \notin sessions \cup provider.asked \cup request_objects \cup clients
           /\ history.sent[f] = 0 /\ Unlisted(f)
  BY DEF HarnessInv, HarnessTypes, FlowOK, IsBegun

\* A flow that is refused for its issuer is over.
LEMMA StartBadKeeps ==
    ASSUME HarnessInv, NEW r \in Slots, NEW f \in Flows, Starts(r, f), _store_test_result(f, "error"),
           UNCHANGED <<plan, sessions, lastFlow, request_objects, clients, provider, history, req>>
    PROVE  HarnessInv'
  <1>1. PICK x : x = [session[f] EXCEPT !.status = "error"]
    OBVIOUS
  <1>2. /\ f \notin begun.started /\ begun' = [begun EXCEPT !.started = @ \cup {f}]
        /\ spec[f].dyn => f \in begun.registered
        /\ req[r] = NoReq
    BY DEF Starts, Vacant
  <1>3. /\ begun'.started = begun.started \cup {f} /\ begun'.registered = begun.registered
        /\ IsBegun(begun')
        /\ ~Busy(f) /\ f \notin sessions \cup provider.asked \cup request_objects \cup clients
        /\ history.sent[f] = 0 /\ Unlisted(f)
    BY <1>2, StartedFacts
  <1>4. session' = [session EXCEPT ![f] = x] /\ test_results' = Entered(f)
    BY <1>1 DEF _store_test_result
  <1>5. HarnessTypes /\ IsSession(session[f])
    BY DEF HarnessInv, HarnessTypes
  <1>6. IsSession(x) /\ x.status = "error" /\ x.secret = session[f].secret /\ x.code = session[f].code
    BY <1>1, <1>5 DEF IsSession
  <1>7. /\ session' = [g \in Flows |-> session'[g]] /\ \A g \in Flows : IsSession(session'[g])
        /\ session'[f] = x /\ \A g \in Flows \ {f} : session'[g] = session[g]
        /\ DOMAIN test_results \subseteq DOMAIN test_results'
        /\ \A t \in DOMAIN test_results' :
             \/ test_results'[t] = f
             \/ t \in DOMAIN test_results /\ test_results'[t] = test_results[t]
        /\ \A t \in DOMAIN test_results' : test_results'[t] \in Flows
        /\ Recorded(f)' /\ Listed(f)'
    BY <1>4, <1>6, MarkFacts
  <1>8. \A o \in Slots \ {r} : \A u \in {req[o]} : Concerns(u) # f
    BY <1>3, OwnRequest
  <1>9. PICK q : q = NoReq
    OBVIOUS
  <1>10. Concerns(q) = "" /\ ReqOK(q)' /\ req[r] = q /\ req'[r] = q
    BY <1>2, <1>9, NoReqFacts DEF ReqOK
  <1>11. Frame(r, f)
    BY <1>3, <1>7, <1>8, <1>10 DEF Frame
  <1>12. HarnessTypes'
    BY <1>3, <1>5, <1>7 DEF HarnessTypes
  <1>13. RestOK'
    BY <1>3, RestKept
  <1>14. FlowOK(f)'
    <2>1. ~Busy(f)'
      BY <1>10, <1>11, BusyAfter, PlansAssumption, ZenonT(30)
    <2>2. spec' = spec
      BY FlowKept
    <2>3. \A c : Own(c, f)' <=> Own(c, f)
      BY VerdictKept
    <2>4. FlowOK(f)
      BY DEF HarnessInv
    <2> QED BY <1>2, <1>3, <1>6, <1>7, <2>1, <2>2, <2>3, <2>4 DEF FlowOK
  <1> QED BY <1>10, <1>11, <1>12, <1>13, <1>14, StepKeeps

\* A flow begins: its request waits for the discovery document, or for the router.
LEMMA StartServeKeeps ==
    ASSUME HarnessInv, NEW r \in Slots, NEW f \in Flows, Starts(r, f), ParseOk(f), NEW at,
           Serve(r, spec[f].op, f, at), at = IF App THEN "discovery" ELSE "login",
           clients' = IF App THEN clients ELSE clients \cup {f},
           UNCHANGED <<plan, sessions, session, lastFlow, request_objects, test_results, provider, history>>
    PROVE  HarnessInv'
  <1>1. PICK q : q = [NoReq EXCEPT !.op = spec[f].op, !.flow = f, !.at = at,
                                   !.secret = registered = spec[f].client_id]
    OBVIOUS
  <1>2. /\ f \notin begun.started /\ begun' = [begun EXCEPT !.started = @ \cup {f}]
        /\ spec[f].dyn => f \in begun.registered
        /\ req[r] = NoReq
    BY DEF Starts, Vacant
  <1>3. /\ begun'.started = begun.started \cup {f} /\ begun'.registered = begun.registered
        /\ IsBegun(begun')
        /\ ~Busy(f) /\ f \notin sessions \cup provider.asked \cup request_objects \cup clients
        /\ history.sent[f] = 0 /\ Unlisted(f)
    BY <1>2, StartedFacts
  <1>4. spec[f].op \in {"authorize", "discover"}
    BY PlansAssumption DEF HarnessInv, HarnessTypes, spec
  <1>5. req' = [req EXCEPT ![r] = q]
    BY <1>1 DEF Serve
  <1>6. q.op = spec[f].op /\ q.flow = f /\ q.at = at /\ IsReq(q)
    BY <1>1 DEF NoReq, IsReq
  <1>7. Concerns(q) = f
    BY <1>4, <1>6 DEF Concerns
  <1>8. /\ req'[r] = q /\ \A o \in Slots \ {r} : req'[o] = req[o]
        /\ req' = [o \in Slots |-> req'[o]] /\ \A o \in Slots : IsReq(req'[o])
    BY <1>5, <1>6, SlotBecomes
  <1>9. \A o \in Slots \ {r} : \A u \in {req[o]} : Concerns(u) # f
    BY <1>3, OwnRequest
  <1>10. \A u \in {req[r]} : Concerns(u) = ""
    BY <1>2, NoReqFacts
  <1>11. Frame(r, f)
    BY <1>3, <1>7, <1>8, <1>9, <1>10 DEF Frame
  <1>12. HarnessTypes'
    BY <1>3, <1>8 DEF HarnessTypes, HarnessInv
  <1>13. RestOK'
    BY <1>3, RestKept
  <1>14. (App' <=> App) /\ spec' = spec /\ (ParseOk(f)' <=> ParseOk(f))
    BY FlowKept
  <1>15. ReqOK(q)'
    <2>1. Unlisted(f)'
      BY <1>3 DEF Unlisted
    <2>2. StartingOK(q)'
      BY <1>3, <1>6, <1>14, <2>1 DEF StartingOK
    <2> QED BY <1>4, <1>6, <2>2 DEF ReqOK
  <1>16. FlowOK(f)'
    <2>1. Busy(f)'
      BY <1>7, <1>8, <1>11, BusyAfter
    <2>2. \A c : Own(c, f)' <=> Own(c, f)
      BY VerdictKept
    <2>3. FlowOK(f)
      BY DEF HarnessInv
    <2>4. Listed(f) => Listed(f)'
      BY <1>14 DEF Listed
    <2> QED BY <1>2, <1>3, <1>14, <2>1, <2>2, <2>3, <2>4 DEF FlowOK
  <1> QED BY <1>8, <1>11, <1>12, <1>13, <1>15, <1>16, StepKeeps

\* A handler that holds a session moves on with it.
LEMMA HoldKeeps ==
    ASSUME HarnessInv, NEW r \in Slots, NEW p, p = req[r], NEW s \in Flows, s = Concerns(p), Spent(s),
           UNCHANGED <<plan, sessions, session, lastFlow, request_objects, test_results, clients, begun>>,
           NEW q, IsReq(q), req' = [req EXCEPT ![r] = q], Concerns(q) = s, ReqOK(q)'
    PROVE  HarnessInv'
  <1>1. HarnessTypes
    BY DEF HarnessInv
  <1>2. /\ req'[r] = q /\ \A o \in Slots \ {r} : req'[o] = req[o]
        /\ req' = [o \in Slots |-> req'[o]] /\ \A o \in Slots : IsReq(req'[o])
    BY SlotBecomes
  <1>3. \A o \in Slots \ {r} : \A u \in {req[o]} : Concerns(u) # s
    BY OwnRequest
  <1>4. Frame(r, s)
    BY <1>2, <1>3 DEF Frame, Spent
  <1>5. HarnessTypes'
    BY <1>1, <1>2 DEF HarnessTypes, Spent
  <1>6. RestOK'
    BY RestKept DEF Spent
  <1>7. FlowOK(s)'
    <2>1. Busy(s)'
      BY <1>2, <1>4, BusyAfter
    <2>2. Busy(s)
      BY DEF Busy
    <2>3. spec' = spec
      BY FlowKept
    <2>4. \A c : Own(c, s)' <=> Own(c, s)
      BY VerdictKept
    <2>5. FlowOK(s)
      BY DEF HarnessInv
    <2>6. s \in begun.started /\ s \notin sessions
      BY <2>2, <2>5 DEF FlowOK
    <2>7. Listed(s) => Listed(s)'
      BY <2>3 DEF Listed
    <2> QED BY <2>1, <2>3, <2>4, <2>5, <2>6, <2>7 DEF FlowOK, Spent
  <1> QED BY <1>2, <1>4, <1>5, <1>6, <1>7, StepKeeps

\* A request whose code was sent ends in an exception that nobody catches.
LEMMA GoneKeeps ==
    ASSUME HarnessInv, NEW r \in Slots, NEW p, p = req[r], NEW s \in Flows, s = Concerns(p), Spent(s),
           UNCHANGED <<plan, sessions, session, lastFlow, request_objects, test_results, clients, begun>>,
           NEW q, IsReq(q), req' = [req EXCEPT ![r] = q], Concerns(q) = "", ReqOK(q)',
           s \notin clients, Uncaught(s), ~Honest(s)
    PROVE  HarnessInv'
  <1>1. HarnessTypes
    BY DEF HarnessInv
  <1>2. /\ req'[r] = q /\ \A o \in Slots \ {r} : req'[o] = req[o]
        /\ req' = [o \in Slots |-> req'[o]] /\ \A o \in Slots : IsReq(req'[o])
    BY SlotBecomes
  <1>3. \A o \in Slots \ {r} : \A u \in {req[o]} : Concerns(u) # s
    BY OwnRequest
  <1>4. Frame(r, s)
    BY <1>2, <1>3 DEF Frame, Spent
  <1>5. HarnessTypes'
    BY <1>1, <1>2 DEF HarnessTypes, Spent
  <1>6. RestOK'
    BY RestKept DEF Spent
  <1>7. FlowOK(s)'
    <2>1. Busy(s)
      BY DEF Busy
    <2>2. (App' <=> App) /\ spec' = spec /\ (ParseOk(s)' <=> ParseOk(s))
      BY FlowKept
    <2>3. \A c : Own(c, s)' <=> Own(c, s)
      BY VerdictKept
    <2>4. Uncaught(s)' /\ ~Honest(s)'
      BY VerdictKept, HonestKept
    <2>5. FlowOK(s)
      BY DEF HarnessInv
    <2>6. s \in begun.started /\ s \notin sessions
      BY <2>1, <2>5 DEF FlowOK
    <2>7. Listed(s) => Listed(s)'
      BY <2>2 DEF Listed
    <2> QED BY <2>2, <2>3, <2>4, <2>5, <2>6, <2>7 DEF FlowOK, Spent
  <1> QED BY <1>2, <1>4, <1>5, <1>6, <1>7, StepKeeps, PlansAssumption

\* A step of a request that has no flow yet, or of no request at all.
LEMMA FreeKeeps ==
    ASSUME HarnessInv, NEW r \in Slots, NEW q, IsReq(q), req' = [req EXCEPT ![r] = q],
           Concerns(q) = "", \A p \in {req[r]} : Concerns(p) = "", ReqOK(q)',
           UNCHANGED <<plan, sessions, session, lastFlow, request_objects, test_results, clients, begun,
                       provider>>,
           IsHistory(history'), history'.sent = history.sent, history'.cleared = history.cleared,
           history'.turned = history.turned \/ TurnedOK'
    PROVE  HarnessInv'
  <1>1. HarnessTypes
    BY DEF HarnessInv
  <1>2. /\ req'[r] = q /\ \A o \in Slots \ {r} : req'[o] = req[o]
        /\ req' = [o \in Slots |-> req'[o]] /\ \A o \in Slots : IsReq(req'[o])
    BY SlotBecomes
  <1>4. PICK s : s = ""
    OBVIOUS
  <1>5. Frame(r, s)
    BY <1>2, <1>4 DEF Frame
  <1>6. HarnessTypes'
    BY <1>1, <1>2 DEF HarnessTypes
  <1>7. RestOK'
    BY RestKept
  <1> QED BY <1>2, <1>4, <1>5, <1>6, <1>7, StepKeeps, PlansAssumption

\* A step that serves no request.
LEMMA QuietKeeps ==
    ASSUME HarnessInv, UNCHANGED <<plan, req, sessions, session, lastFlow, request_objects, test_results, clients>>,
           IsBegun(begun'), begun'.started = begun.started,
           begun.registered \subseteq begun'.registered, App \/ begun'.registered = begun.registered,
           IsProvider(provider'), provider'.redeemed = provider.redeemed,
           provider.asked \subseteq provider'.asked, provider'.asked \subseteq provider.asked \cup request_objects,
           IsHistory(history'), history'.sent = history.sent, history'.cleared = history.cleared,
           history'.turned = history.turned \/ TurnedOK'
    PROVE  HarnessInv'
  <1>1. HarnessTypes
    BY DEF HarnessInv
  <1>2. PICK r : r \notin Slots
    <2> DEFINE R == {x \in Slots : x \notin x}
    <2>1. R \notin Slots
      OBVIOUS
    <2> QED BY <2>1
  <1>4. PICK s : s = ""
    OBVIOUS
  <1>5. Frame(r, s)
    BY <1>2, <1>4 DEF Frame
  <1>6. HarnessTypes'
    BY <1>1 DEF HarnessTypes
  <1>7. RestOK'
    BY RestKept
  <1> QED BY <1>2, <1>4, <1>5, <1>6, <1>7, StepKeeps, PlansAssumption

-----------------------------------------------------------------------------
(* What a provider that behaves answers                                    *)

\* What the plan asks for in a flow.
LEMMA PlanFacts ==
    ASSUME plan \in Plans, NEW f \in Flows
    PROVE  /\ spec[f].op \in {"authorize", "discover"}
           /\ ~App => spec[f].mode = "plain"
           /\ spec[f].issuer # None /\ spec[f].client_id # None
           /\ spec[f].fault = [at |-> spec[f].fault.at, what |-> spec[f].fault.what]
  BY PlansAssumption DEF spec, App

\* A fault is at one place.
LEMMA NoFault ==
    ASSUME NEW f, NEW at, NEW what, spec[f].fault.at # at
    PROVE  ~Faulty(f, at, what)
  BY DEF Faulty

\* What the answer of a flow has among its fields.
LEMMA AnswerFields ==
    ASSUME NEW f
    PROVE  /\ DOMAIN Params(f) \subseteq {"state", "code", "iss", "error"}
           /\ "state" \in DOMAIN Params(f) => Params(f)["state"] = StateOf(f)
           /\ "code" \in DOMAIN Params(f) => Params(f)["code"] = f
           /\ spec[f].fault.at # "response" =>
                /\ DOMAIN Params(f) = {"state", "code", "iss"}
                /\ Params(f)["iss"] = spec[f].issuer
                /\ StateOf(f) = f
  <1> DEFINE all == [state |-> StateOf(f), code |-> f, error |-> "access_denied",
                     iss |-> IF Faulty(f, "response", "issuer") THEN "other" ELSE spec[f].issuer]
             drop == CASE Faulty(f, "response", "no state") -> {"state"}
                       [] Faulty(f, "response", "no code")  -> {"code"}
                       [] Faulty(f, "response", "no iss")   -> {"iss"}
                       [] OTHER                             -> {}
             S == IF Faulty(f, "response", "error") THEN {"state", "error", "iss"}
                  ELSE {"state", "code", "iss"} \ drop
  <1>1. Params(f) = Restrict(all, S)
    BY DEF Params
  <1>2. S \subseteq {"state", "code", "iss", "error"}
    OBVIOUS
  <1>3. ASSUME spec[f].fault.at # "response"
        PROVE  /\ ~Faulty(f, "response", "no state") /\ ~Faulty(f, "response", "no code")
               /\ ~Faulty(f, "response", "no iss") /\ ~Faulty(f, "response", "error")
               /\ ~Faulty(f, "response", "issuer") /\ ~Faulty(f, "response", "unknown state")
               /\ ~Faulty(f, "response", "other state")
    BY <1>3, NoFault
  <1>4. spec[f].fault.at # "response" => S = {"state", "code", "iss"}
    BY <1>3
  <1>5. /\ all["state"] = StateOf(f) /\ all["code"] = f
        /\ spec[f].fault.at # "response" => all["iss"] = spec[f].issuer
    BY <1>3
  <1>6. spec[f].fault.at # "response" => StateOf(f) = f
    BY <1>3 DEF StateOf
  <1> HIDE DEF all, S
  <1>7. DOMAIN Params(f) = S /\ \A x \in S : Params(f)[x] = all[x]
    BY <1>1 DEF Restrict
  <1> QED BY <1>2, <1>4, <1>5, <1>6, <1>7

\* The flow that an answer names is the flow whose state it carries.
LEMMA NamedState ==
    ASSUME NEW c, Named(c) \in Flows
    PROVE  Named(c) = StateOf(c)
  <1>1. Named(c) # None
    BY PlansAssumption
  <1>2. "state" \in DOMAIN Params(c) /\ Named(c) = Params(c)["state"]
    BY <1>1 DEF Named, FieldOf, Answer
  <1> QED BY <1>2, AnswerFields

\* What a callback handler lets through.
LEMMA UncaughtBy ==
    ASSUME NEW c \in Flows, NEW s \in Flows, s = Named(c),
           \/ Faulty(c, "token", "malformed") \/ Faulty(c, "token", "no object")
           \/ ~App /\ Faulty(c, "userinfo", "no object")
           \/ Unhashable(c, s)
    PROVE  Uncaught(s)
  <1>1. StateOf(c) = s
    BY NamedState
  <1> QED BY <1>1 DEF Uncaught

\* An honest flow is named by its own answer only.
LEMMA HonestOwn ==
    ASSUME NEW s \in Flows, Honest(s), NEW c \in Flows, s = Named(c)
    PROVE  c = s /\ spec[s].fault.at = "none"
  BY NamedState DEF Honest

\* The answer of a flow without a fault there.
LEMMA GenuineAnswer ==
    ASSUME NEW f, spec[f].fault.at # "response"
    PROVE  /\ Answer(f).ok /\ FieldOf(Answer(f), "state") = f /\ FieldOf(Answer(f), "code") = f
           /\ FieldOf(Answer(f), "iss") = spec[f].issuer /\ Named(f) = f
  <1>1. /\ DOMAIN Params(f) = {"state", "code", "iss"} /\ Params(f)["iss"] = spec[f].issuer
        /\ Params(f)["state"] = f /\ Params(f)["code"] = f
    BY AnswerFields
  <1> QED BY <1>1 DEF Answer, FieldOf, Named

\* The discovery document of a flow without a fault there.
LEMMA GenuineDisco ==
    ASSUME plan \in Plans, NEW f \in Flows, NEW at \in {"authorize", "callback", "register"}, spec[f].fault.at # at
    PROVE  /\ Disco(f, at).st = "ok" /\ Disco(f, at).issuer = spec[f].issuer /\ Disco(f, at).jwks_uri
           /\ Disco(f, at).endpoints = AllEndpoints /\ ~BadDisco(f, at) /\ ~Raises(f, at)
           /\ Disco(f, at).signing_algs = {"ES256"}
  <1>1. \A what : ~Faulty(f, at, what)
    BY NoFault
  <1>2. /\ Disco(f, at).st = "ok" /\ Disco(f, at).issuer = spec[f].issuer /\ Disco(f, at).jwks_uri
        /\ Disco(f, at).endpoints = AllEndpoints /\ Disco(f, at).signing_algs = {"ES256"}
    BY <1>1 DEF Disco
  <1>3. spec[f].issuer # None
    BY PlanFacts
  <1>4. ~BadDisco(f, at)
    BY <1>2, <1>3, FirstErr3 DEF BadDisco, Check, validate_disco_response
  <1> QED BY <1>1, <1>2, <1>4 DEF Raises

-----------------------------------------------------------------------------
(* The verdicts on a token, with the keys of one issuer                    *)

\* The keys of an issuer.
LEMMA KeysFacts ==
    ASSUME NEW iss, NEW jwks, jwks = Keys(iss)
    PROVE  /\ IsKeySet(jwks.keys) /\ jwks.st = "ok" /\ DOMAIN jwks.keys = {1, 2}
           /\ jwks.keys[1] = JwkOf(iss, "k1", "RSA") /\ jwks.keys[2] = JwkOf(iss, "k2", "EC")
           /\ \A i \in DOMAIN jwks.keys : jwks.keys[i].alg = None /\ jwks.keys[i].mat[1] \in {iss}
           /\ validate_jwks_response(jwks) = "ok"
  <1>1. /\ jwks.st = "ok" /\ DOMAIN jwks.keys = {1, 2}
        /\ jwks.keys[1] = JwkOf(iss, "k1", "RSA") /\ jwks.keys[2] = JwkOf(iss, "k2", "EC")
    BY DEF Keys
  <1>2. \A kid, kty : /\ IsKey(JwkOf(iss, kid, kty)) /\ JwkOf(iss, kid, kty).form = "dict"
                      /\ JwkOf(iss, kid, kty).kty = kty /\ JwkOf(iss, kid, kty).alg = None
                      /\ JwkOf(iss, kid, kty).mat[1] \in {iss}
    BY DEF JwkOf, IsKey
  <1>3. IsFiniteSet({1, 2})
    <2>1. IsFiniteSet({1}) /\ {1, 2} = {1} \cup {2}
      BY FS_Singleton
    <2> QED BY <2>1, FS_AddElement
  <1>4. IsKeySet(jwks.keys)
    BY <1>1, <1>2, <1>3 DEF IsKeySet, None
  <1>5. validate_jwks_response(jwks) = "ok"
    BY <1>1, FirstErr2 DEF validate_jwks_response, Check
  <1> QED BY <1>1, <1>2, <1>4, <1>5

\* The configuration that the harness passes, but for the algorithms.
Configured(cfg, client, iss) ==
    /\ cfg.perform_disco /\ cfg.audience = client /\ cfg.issuer = {iss} /\ cfg.options = None
    /\ cfg.leeway = 0 /\ cfg.validator = None /\ cfg.subject = None /\ cfg.key = <<>>
    /\ cfg.allowed = NoIssuer /\ DOMAIN cfg = CfgFields

\* A configuration of the harness.
LEMMA ConfigFacts ==
    ASSUME NEW client, NEW iss, NEW algs, NEW cfg, cfg = ValidationConfig(client, iss, algs)
    PROVE  Configured(cfg, client, iss) /\ cfg.algorithms \in {algs}
  BY DEF ValidationConfig, CfgFields, Configured

\* It is accepted, if the issuer has a name.
LEMMA ConfigOk ==
    ASSUME NEW client, NEW iss, iss # "", NEW cfg, Configured(cfg, client, iss)
    PROVE  /\ validate_token_config(cfg) = "ok" /\ cfg.perform_disco /\ cfg.options # "verify_aud=False"
           /\ validate_claims(cfg.validator) = "ok" /\ validate_async_claims(cfg.validator) = "ok"
  <1>1. /\ cfg.issuer # {} /\ "" \notin cfg.issuer
        /\ cfg.leeway >= 0
        /\ cfg.perform_disco
        /\ cfg.validator = None /\ cfg.options = None
    <2>1. cfg.issuer = {iss} /\ cfg.validator = None /\ cfg.options = None
      BY DEF Configured
    <2>2. cfg.leeway = 0
      BY DEF Configured
    <2>3. cfg.perform_disco
      BY Zenon DEF Configured
    <2>4. cfg.issuer # {} /\ "" \notin cfg.issuer
      BY <2>1
    <2>5. cfg.leeway >= 0
      BY ONLY <2>2
    <2> QED BY ONLY <2>1, <2>3, <2>4, <2>5, Zenon
  <1>2. /\ Check(cfg.issuer # {} /\ "" \notin cfg.issuer, "Configuration") = "ok"
        /\ Check(cfg.leeway >= 0, "Configuration") = "ok"
        /\ Check(cfg.perform_disco \/ cfg.key # <<>> \/ cfg.algorithms # <<>>, "Configuration") = "ok"
    BY ONLY <1>1 DEF Check
  <1>3. validate_token_config(cfg) = "ok"
    BY ONLY <1>2, FirstErr3, ZenonT(30) DEF validate_token_config
  <1>4. validate_claims(cfg.validator) = "ok" /\ validate_async_claims(cfg.validator) = "ok"
    BY ONLY <1>1 DEF validate_claims, validate_async_claims, Check, None
  <1> QED BY <1>1, <1>3, <1>4 DEF None

\* A provider whose discovery document passed.
Provides(env, iss) ==
    /\ env.address /\ env.disco.st = "ok" /\ env.disco.jwks_uri /\ env.disco.issuer = iss
    /\ env.jwks = Keys(iss) /\ env.jwks2 = Keys(iss) /\ env.jwks3 = Keys(iss) /\ env.attempt.retry

\* With such a provider, a token is decoded with the keys of the issuer, which no refresh
\* changes.
LEMMA DecodedIs ==
    ASSUME NEW tok, NEW client, NEW iss, iss # "", NEW cfg, Configured(cfg, client, iss), NEW env, Provides(env, iss)
    PROVE  Decoded(tok, cfg, env) = ResolveAndDecode(tok, cfg, env.disco, env.jwks)
  <1> DEFINE pre == FirstErr(<<Check(env.address, "Configuration"),
                          validate_disco_response(env.disco), validate_jwks_uri(env.disco)>>)
             res == ResolveAndDecode(tok, cfg, env.disco, env.jwks)
  <1>1. pre = "ok"
    BY FirstErr3 DEF Check, validate_disco_response, validate_jwks_uri, Provides
  <1>2. Looked(tok, env) = env.jwks /\ env.jwks3 = env.jwks /\ env.attempt.retry
    BY DEF Provides, Looked
  <1>3. DiscoAndDecode(tok, cfg, env) = Retried(res, res)
    <2>1. _discover_and_resolve_key(tok, cfg, env) = res
      BY <1>2 DEF _discover_and_resolve_key, ResolveAndDecode
    <2>2. _retry_with_refreshed_jwks(tok, cfg, env) = res
      BY <1>2 DEF _retry_with_refreshed_jwks
    <2> HIDE DEF res
    <2> QED BY <1>1, <2>1, <2>2 DEF DiscoAndDecode
  <1> HIDE DEF res
  <1>4. DiscoAndDecode(tok, cfg, env) = res
    BY <1>3 DEF Retried
  <1>5. validate_token_config(cfg) = "ok" /\ cfg.perform_disco
    BY ConfigOk
  <1>6. Decoded(tok, cfg, env) = FirstErr(<<"ok", res>>)
    BY <1>4, <1>5 DEF Decoded
  <1>7. FirstErr(<<"ok", res>>) = res
    BY FirstErr2
  <1> QED BY <1>6, <1>7 DEF res

\* A token that is accepted is the issuer's, for the client.
LEMMA DecodedFor ==
    ASSUME NEW tok, NEW client, client # None, NEW iss, iss # "", iss # None, NEW cfg, Configured(cfg, client, iss),
           NEW env, Provides(env, iss), Decoded(tok, cfg, env) = "ok"
    PROVE  tok.mat[1] = iss /\ tok.iss = iss /\ client \in tok.aud
  <1>1. PICK disco : disco = env.disco
    OBVIOUS
  <1>2. PICK jwks : jwks = env.jwks
    OBVIOUS
  <1>3. ResolveAndDecode(tok, cfg, disco, jwks) = "ok"
    BY <1>1, <1>2, DecodedIs, ZenonT(30)
  <1>4. jwks = Keys(iss) /\ disco.issuer \in {iss}
    BY <1>1, <1>2 DEF Provides
  <1>5. IsKeySet(jwks.keys) /\ \A i \in DOMAIN jwks.keys : jwks.keys[i].mat[1] \in {iss}
    BY <1>4, KeysFacts
  <1>6. DOMAIN cfg = CfgFields
    BY DEF Configured
  <1>7. disco.issuer # None
    BY <1>4
  <1>8. /\ tok.iss = disco.issuer
        /\ \E k \in Members(jwks.keys) : k.mat = tok.mat
        /\ cfg.options # "verify_aud=False" =>
             IF cfg.audience = None THEN tok.aud = {} ELSE cfg.audience \in tok.aud
    BY ONLY <1>3, <1>5, <1>6, <1>7, ResolveSound
  <1>9. tok.mat[1] \in {iss}
    BY ONLY <1>5, <1>8 DEF Members
  <1>10. cfg.options # "verify_aud=False" /\ cfg.audience \in {client}
    BY ConfigOk DEF Configured
  <1> QED BY <1>4, <1>8, <1>9, <1>10

\* A token that the provider of iss signed for the client.
GenuineToken(tok, iss, client) ==
    /\ tok.wf /\ tok.alg \in {"RS256", "ES256"} /\ tok.kid = (IF tok.alg = "ES256" THEN "k2" ELSE "k1")
    /\ tok.mat = <<iss, KtyOf(tok.alg)>> /\ tok.iss = iss /\ tok.aud = {client} /\ tok.exp = 20

\* Its key is found.
LEMMA GenuineFound ==
    ASSUME NEW tok, NEW client, NEW iss, GenuineToken(tok, iss, client), NEW jwks, jwks = Keys(iss),
           NEW found, found = find_key_by_kid(tok.kid, jwks.keys, tok.alg)
    PROVE  /\ found.err = "ok" /\ found.alg = tok.alg
           /\ IsKey(found.key) /\ found.key.form = "dict" /\ found.key.kty = KtyOf(tok.alg)
           /\ found.key.mat = tok.mat
  <1>1. PICK i \in {1, 2} : i = IF tok.alg = "ES256" THEN 2 ELSE 1
    OBVIOUS
  <1>2. PICK kty : kty = KtyOf(tok.alg)
    OBVIOUS
  <1>3. kty = IF tok.alg = "ES256" THEN "EC" ELSE "RSA"
    BY <1>2 DEF GenuineToken, KtyOf, _ALG_TO_KTY
  <1>4. PICK key : key = jwks.keys[i]
    OBVIOUS
  <1>5. key = JwkOf(iss, tok.kid, kty)
    BY <1>1, <1>3, <1>4, KeysFacts DEF GenuineToken
  <1>6. /\ key.kid = tok.kid /\ key.kty = kty /\ key.alg = None /\ key.mat = <<iss, kty>> /\ key.form = "dict"
        /\ IsKey(key)
    BY <1>5 DEF JwkOf, IsKey
  <1>7. {j \in DOMAIN jwks.keys : jwks.keys[j].kid = tok.kid} = {i}
    <2>1. DOMAIN jwks.keys = {1, 2} /\ jwks.keys[1].kid = "k1" /\ jwks.keys[2].kid = "k2"
      <3>1. /\ DOMAIN jwks.keys = {1, 2} /\ jwks.keys[1] = JwkOf(iss, "k1", "RSA")
            /\ jwks.keys[2] = JwkOf(iss, "k2", "EC")
        BY KeysFacts
      <3> QED BY <3>1 DEF JwkOf
    <2> QED BY <1>1, <2>1 DEF GenuineToken
  <1>8. tok.kid # None /\ kty # None
    BY <1>3 DEF None, GenuineToken
  <1>9. found.err = "ok" /\ found.key = key /\ found.alg = tok.alg
    BY <1>1, <1>2, <1>4, <1>6, <1>7, <1>8, NamedFound
  <1>10. tok.mat = <<iss, kty>>
    BY <1>2 DEF GenuineToken
  <1> QED BY <1>2, <1>6, <1>9, <1>10

\* decode_and_validate_jwt returns, if jwt.decode does.
LEMMA DecodeIf ==
    ASSUME NEW tok, NEW key, NEW algorithms, NEW audience, NEW issuer, NEW options, NEW leeway, NEW subject,
           algorithms # <<>>, issuer # {}, options # "verify_exp=False", key.form # "other",
           subject \in {None, tok.sub}, NEW k, k = _normalize_verification_key(key),
           Decodes(tok, k, algorithms, audience, issuer, options, leeway)
    PROVE  decode_and_validate_jwt(tok, key, algorithms, audience, issuer, options, leeway, subject) = "ok"
  <1> DEFINE pre == FirstErr(<<Check(algorithms # <<>>, "Configuration"),
                               Check(issuer # {}, "Configuration"),
                               _sanitize_options(options),
                               Check(key.form # "other", "Configuration")>>)
             d == pyjwt_decode(tok, k, algorithms, audience, issuer, options, leeway)
             last == Check(subject \in {None, tok.sub}, "TokenValidation")
  <1>1. pre = "ok"
    BY FirstErr4 DEF Check, _sanitize_options
  <1>2. d = "ok"
    BY PyjwtOk
  <1>3. last = "ok"
    BY DEF Check
  <1>4. decode_and_validate_jwt(tok, key, algorithms, audience, issuer, options, leeway, subject)
          = IF pre # "ok" THEN pre ELSE FirstErr(<<Wrapped(d), last>>)
    BY DEF decode_and_validate_jwt
  <1> HIDE DEF pre, d, last
  <1>5. FirstErr(<<Wrapped(d), last>>) = "ok"
    BY <1>2, <1>3, WrappedOk, FirstErr2
  <1> QED BY <1>1, <1>4, <1>5

\* The verdict on a token whose key was found, with the options of the harness.
Decoding(tok, found, client, iss) ==
    decode_and_validate_jwt(tok, found.key, <<found.alg>>, client, {iss}, None, 0, None)

\* With its key the token is decoded.
LEMMA GenuineDecodes ==
    ASSUME NEW tok, NEW client, client # None, NEW iss, iss # None, GenuineToken(tok, iss, client),
           NEW found, found.alg = tok.alg, IsKey(found.key), found.key.form = "dict",
           found.key.kty = KtyOf(tok.alg), found.key.mat = tok.mat
    PROVE  Decoding(tok, found, client, iss) = "ok"
  <1>1. PICK k : k = _normalize_verification_key(found.key)
    OBVIOUS
  <1>2. k.form = "dict" /\ k.kty = KtyOf(tok.alg) /\ k.mat = tok.mat
    BY <1>1 DEF IsKey, _normalize_verification_key
  <1>3. PICK algorithms : algorithms = <<found.alg>>
    OBVIOUS
  <1>4. algorithms[1] = tok.alg /\ tok.alg \in Members(algorithms) /\ algorithms # <<>>
    BY <1>3 DEF Members
  <1>5. PICK leeway : leeway = 0
    OBVIOUS
  <1>6. ~Expired(tok, leeway)
    BY <1>5 DEF Expired, Now, Never, GenuineToken
  <1>7. tok.wf /\ tok.iss = iss /\ tok.aud = {client}
    BY DEF GenuineToken
  <1>8. PICK issuer, none, key : issuer = {iss} /\ none = None /\ key = found.key
    OBVIOUS
  <1>9. Decodes(tok, k, algorithms, client, issuer, none, leeway)
    BY <1>2, <1>4, <1>6, <1>7, <1>8 DEF Decodes
  <1>10. /\ issuer # {} /\ none # "verify_exp=False" /\ key.form # "other" /\ none \in {None, tok.sub}
         /\ k = _normalize_verification_key(key)
    BY <1>1, <1>8 DEF None
  <1>11. decode_and_validate_jwt(tok, key, algorithms, client, issuer, none, leeway, none) = "ok"
    BY ONLY <1>4, <1>9, <1>10, DecodeIf
  <1> QED BY ONLY <1>3, <1>5, <1>8, <1>11 DEF Decoding

\* decode_with_config decodes, once the configuration has a key and an algorithm.
LEMMA ConfigDecodes ==
    ASSUME NEW tok, NEW cfg, NEW issuer, issuer # NoIssuer, cfg.key # <<>>, cfg.algorithms # <<>>,
           cfg.allowed = NoIssuer
    PROVE  decode_with_config(tok, cfg, issuer) =
             decode_and_validate_jwt(tok, cfg.key[1], cfg.algorithms, cfg.audience, issuer, cfg.options,
                                     cfg.leeway, cfg.subject)
  <1>1. PICK d : d = decode_and_validate_jwt(tok, cfg.key[1], cfg.algorithms, cfg.audience, issuer,
                                             cfg.options, cfg.leeway, cfg.subject)
    OBVIOUS
  <1>2. Check(cfg.key # <<>> /\ cfg.algorithms # <<>>, "Configuration") = "ok"
    BY DEF Check
  <1>3. decode_with_config(tok, cfg, issuer) = FirstErr(<<"ok", "ok", d>>)
    BY <1>1, <1>2 DEF decode_with_config
  <1>4. FirstErr(<<"ok", "ok", d>>) = d
    BY ONLY FirstErr3
  <1> QED BY <1>1, <1>3, <1>4

\* The configuration with the key that was found.
Resolved(cfg, found) == [cfg EXCEPT !.key = <<found.key>>, !.algorithms = <<found.alg>>]

\* The rest of it is what it was.
LEMMA ResolvedFacts ==
    ASSUME NEW cfg, NEW client, NEW iss, Configured(cfg, client, iss), NEW found, NEW rcfg,
           rcfg = Resolved(cfg, found)
    PROVE  /\ rcfg.key # <<>> /\ rcfg.key[1] = found.key /\ rcfg.algorithms = <<found.alg>>
           /\ rcfg.algorithms # <<>> /\ rcfg.allowed = NoIssuer /\ rcfg.audience \in {client}
           /\ rcfg.options = None /\ rcfg.leeway = 0 /\ rcfg.subject = None
  <1>1. /\ DOMAIN cfg = CfgFields /\ cfg.allowed = NoIssuer /\ cfg.options = None /\ cfg.subject = None
        /\ cfg.audience \in {client}
    BY DEF Configured
  <1>2. cfg.leeway = 0
    BY DEF Configured
  <1>3. /\ rcfg.key = <<found.key>> /\ rcfg.algorithms = <<found.alg>> /\ rcfg.allowed = cfg.allowed
        /\ rcfg.audience = cfg.audience /\ rcfg.options = cfg.options /\ rcfg.leeway = cfg.leeway
        /\ rcfg.subject = cfg.subject
    BY ONLY <1>1, rcfg = Resolved(cfg, found) DEF CfgFields, Resolved
  <1>4. rcfg.key # <<>> /\ rcfg.key[1] = found.key /\ rcfg.algorithms # <<>>
    BY ONLY <1>3
  <1>5. rcfg.leeway = 0
    BY ONLY <1>2, <1>3
  <1>6. rcfg.allowed = NoIssuer /\ rcfg.audience \in {client} /\ rcfg.options = None /\ rcfg.subject = None
    BY ONLY <1>1, <1>3
  <1> QED BY ONLY <1>3, <1>4, <1>5, <1>6

\* What becomes of a token whose key was found.
LEMMA FoundDecodes ==
    ASSUME NEW tok, tok.wf, NEW cfg, NEW client, NEW iss, iss # None, Configured(cfg, client, iss),
           NEW disco, disco.issuer \in {iss}, NEW jwks, jwks = Keys(iss),
           NEW found, found = find_key_by_kid(tok.kid, jwks.keys, tok.alg), found.err = "ok"
    PROVE  ResolveAndDecode(tok, cfg, disco, jwks) =
             IF cfg.algorithms = <<>> \/ found.alg \in Members(cfg.algorithms)
             THEN Decoding(tok, found, client, iss) ELSE "TokenValidation"
  <1>1. validate_jwks_response(jwks) = "ok"
    BY ONLY jwks = Keys(iss), KeysFacts
  <1>2. FirstErr(<<validate_jwks_response(jwks), extract_jwt_header_fields(tok)>>) = "ok"
    BY ONLY <1>1, tok.wf, FirstErr2 DEF extract_jwt_header_fields, Check
  <1>3. ResolveAndDecode(tok, cfg, disco, jwks) = DecodeFound(tok, cfg, disco, found)
    BY <1>2 DEF ResolveAndDecode
  <1>4. PICK rcfg, issuer : rcfg = Resolved(cfg, found) /\ issuer = {iss}
    OBVIOUS
  <1>5. DecodeFound(tok, cfg, disco, found) =
          IF cfg.algorithms = <<>> \/ found.alg \in Members(cfg.algorithms)
          THEN decode_with_config(tok, rcfg, {disco.issuer}) ELSE "TokenValidation"
    BY <1>4 DEF DecodeFound, DecodeResolved, build_resolved_config, Check, Resolved
  <1>6. /\ rcfg.key # <<>> /\ rcfg.key[1] = found.key /\ rcfg.algorithms = <<found.alg>>
        /\ rcfg.algorithms # <<>> /\ rcfg.allowed = NoIssuer /\ rcfg.audience \in {client}
        /\ rcfg.options = None /\ rcfg.leeway = 0 /\ rcfg.subject = None
    BY ONLY <1>4, Configured(cfg, client, iss), ResolvedFacts
  <1>7. {disco.issuer} = issuer /\ issuer # NoIssuer
    BY <1>4 DEF NoIssuer
  <1>8. decode_with_config(tok, rcfg, issuer) =
          decode_and_validate_jwt(tok, rcfg.key[1], rcfg.algorithms, rcfg.audience, issuer, rcfg.options,
                                  rcfg.leeway, rcfg.subject)
    BY ONLY <1>6, <1>7, ConfigDecodes
  <1>9. decode_with_config(tok, rcfg, {disco.issuer}) = Decoding(tok, found, client, iss)
    BY ONLY <1>4, <1>6, <1>7, <1>8 DEF Decoding
  <1> QED BY ONLY <1>3, <1>5, <1>9

\* A genuine token is accepted.
LEMMA DecodedComplete ==
    ASSUME NEW tok, NEW client, client # None, NEW iss, iss # "", iss # None, GenuineToken(tok, iss, client),
           NEW cfg, Configured(cfg, client, iss), cfg.algorithms = <<>> \/ tok.alg \in Members(cfg.algorithms),
           NEW env, Provides(env, iss)
    PROVE  Decoded(tok, cfg, env) = "ok"
  <1>1. PICK disco, jwks : disco = env.disco /\ jwks = env.jwks
    OBVIOUS
  <1>2. disco.issuer \in {iss} /\ jwks = Keys(iss)
    BY <1>1 DEF Provides
  <1>3. PICK found : found = find_key_by_kid(tok.kid, jwks.keys, tok.alg)
    OBVIOUS
  <1>4. /\ found.err = "ok" /\ found.alg = tok.alg
        /\ IsKey(found.key) /\ found.key.form = "dict" /\ found.key.kty = KtyOf(tok.alg)
        /\ found.key.mat = tok.mat
    BY ONLY GenuineToken(tok, iss, client), <1>2, <1>3, GenuineFound
  <1>5. Decoding(tok, found, client, iss) = "ok"
    BY <1>4, GenuineDecodes
  <1>6. tok.wf
    BY DEF GenuineToken
  <1>7. ResolveAndDecode(tok, cfg, disco, jwks) =
             IF cfg.algorithms = <<>> \/ found.alg \in Members(cfg.algorithms)
             THEN Decoding(tok, found, client, iss) ELSE "TokenValidation"
    BY ONLY <1>2, <1>3, <1>4, <1>6, Configured(cfg, client, iss), iss # None, FoundDecodes
  <1>8. Decoded(tok, cfg, env) = ResolveAndDecode(tok, cfg, disco, jwks)
    BY <1>1, DecodedIs, ZenonT(30)
  <1> QED BY <1>4, <1>5, <1>7, <1>8

\* A lookup finds a key that fits the header, or fails as a token validation does.
LEMMA FoundFits ==
    ASSUME NEW kid, NEW keys, DOMAIN keys \subseteq Nat, NEW alg, alg # None,
           NEW found, found = find_key_by_kid(kid, keys, alg)
    PROVE  /\ found.err \in {"ok", "TokenValidation"}
           /\ found.err = "ok" =>
                /\ alg # "none" /\ KtyOf(alg) \in {None, found.key.kty}
                /\ \E i \in DOMAIN keys : found.key = keys[i]
  <1>1. PICK pool : pool = Pool(kid, keys, alg)
    OBVIOUS
  <1>2. PICK key : key = First(keys, pool)
    OBVIOUS
  <1>3. found = Picked(keys, pool, kid, alg, alg)
    BY <1>1 DEF find_key_by_kid
  <1>4. \/ found = NoKey
        \/ /\ pool # {} /\ _validate_key_alg_consistency(key, alg) = "ok"
           /\ found = [err |-> "ok", key |-> key, alg |-> IF key.alg # None THEN key.alg ELSE alg]
    BY <1>2, <1>3 DEF Picked
  <1>5. CASE found = NoKey
    BY <1>5 DEF NoKey
  <1>6. CASE /\ pool # {} /\ _validate_key_alg_consistency(key, alg) = "ok"
             /\ found = [err |-> "ok", key |-> key, alg |-> IF key.alg # None THEN key.alg ELSE alg]
    <2>1. alg # "none" /\ KtyOf(alg) \in {None, key.kty}
      BY <1>6, ConsistencyOk
    <2>2. pool \subseteq DOMAIN keys
      BY <1>1, PoolWithin
    <2>3. \E i \in pool : key = keys[i]
      <3>1. \E i \in pool : \A j \in pool : i <= j
        BY <1>6, <2>2, LeastPosition
      <3> QED BY <1>2, <3>1 DEF First
    <2> QED BY <1>6, <2>1, <2>2, <2>3
  <1> QED BY <1>4, <1>5, <1>6

\* What jwt.decode raises once the key is one of the algorithm's type.
LEMMA PyjwtErr ==
    ASSUME NEW tok, NEW key, NEW algorithms, NEW audience, NEW issuer, NEW options, NEW leeway,
           PyJWK(key, algorithms[1]) = "ok"
    PROVE  pyjwt_decode(tok, key, algorithms, audience, issuer, options, leeway) \in
             {"ok", "InvalidTokenError", "InvalidSignatureError", "ExpiredSignatureError",
              "InvalidIssuerError", "InvalidAudienceError"}
  <1> DEFINE s == <<PyJWK(key, algorithms[1]),
               Check(tok.wf /\ tok.alg \in Members(algorithms), "InvalidTokenError"),
               Check(tok.mat = key.mat /\ tok.alg = algorithms[1], "InvalidSignatureError"),
               Check(~Expired(tok, leeway), "ExpiredSignatureError"),
               Check(issuer = NoIssuer \/ tok.iss # None, "InvalidTokenError"),
               Check(issuer = NoIssuer \/ tok.iss \in issuer, "InvalidIssuerError"),
               Check(options = "verify_aud=False" \/ audience # None \/ tok.aud = {},
                     "InvalidAudienceError"),
               Check(options = "verify_aud=False" \/ audience = None \/ tok.aud # {},
                     "InvalidTokenError"),
               Check(options = "verify_aud=False" \/ audience \in {None} \cup tok.aud,
                     "InvalidAudienceError")>>
             E == {"ok", "InvalidTokenError", "InvalidSignatureError", "ExpiredSignatureError",
                   "InvalidIssuerError", "InvalidAudienceError"}
  <1>1. DOMAIN s = {1, 2, 3, 4, 5, 6, 7, 8, 9}
    OBVIOUS
  <1>2. /\ s[1] \in E /\ s[2] \in E /\ s[3] \in E /\ s[4] \in E /\ s[5] \in E /\ s[6] \in E /\ s[7] \in E
        /\ s[8] \in E /\ s[9] \in E
    BY DEF Check
  <1>3. pyjwt_decode(tok, key, algorithms, audience, issuer, options, leeway) = FirstErr(s)
    BY DEF pyjwt_decode
  <1> HIDE DEF s
  <1>4. FirstErr(s) # "ok" => \E i \in DOMAIN s : FirstErr(s) = s[i]
    BY <1>1, FirstErrIn
  <1>5. FirstErr(s) \in E
    BY <1>1, <1>2, <1>4
  <1> QED BY <1>3, <1>5

\* The classes that a failing decode raises.
LEMMA DecodingErr ==
    ASSUME NEW tok, NEW client, NEW iss, NEW found, found.key.form = "dict", IsKey(found.key),
           found.key.kty = KtyOf(found.alg)
    PROVE  Decoding(tok, found, client, iss) \in {"ok"} \cup TokenValidationErrors
  <1>1. PICK k : k = _normalize_verification_key(found.key)
    OBVIOUS
  <1>2. PICK algorithms, leeway, issuer, none, key :
          /\ algorithms = <<found.alg>> /\ leeway = 0 /\ issuer = {iss} /\ none = None /\ key = found.key
    OBVIOUS
  <1>3. k.form = "dict" /\ k.kty = KtyOf(found.alg)
    BY <1>1 DEF _normalize_verification_key, IsKey
  <1>4. algorithms[1] = found.alg /\ algorithms # <<>>
    BY <1>2
  <1>5. PyJWK(k, algorithms[1]) = "ok"
    BY <1>3, <1>4 DEF PyJWK, Check
  <1>6. PICK d : d = pyjwt_decode(tok, k, algorithms, client, issuer, none, leeway)
    OBVIOUS
  <1>7. d \in {"ok", "InvalidTokenError", "InvalidSignatureError", "ExpiredSignatureError",
               "InvalidIssuerError", "InvalidAudienceError"}
    BY ONLY <1>5, <1>6, PyjwtErr
  <1>8. Wrapped(d) \in {"ok"} \cup TokenValidationErrors
    BY <1>7 DEF Wrapped, TokenValidationErrors
  <1>9. FirstErr(<<Check(algorithms # <<>>, "Configuration"), Check(issuer # {}, "Configuration"),
                   _sanitize_options(none), Check(key.form # "other", "Configuration")>>) = "ok"
    <2>1. issuer # {} /\ none # "verify_exp=False" /\ key.form # "other"
      BY <1>2 DEF None
    <2> QED BY ONLY <1>4, <2>1, FirstErr4 DEF Check, _sanitize_options
  <1>10. PICK last : last = Check(none \in {None, tok.sub}, "TokenValidation")
    OBVIOUS
  <1>11. last \in {"ok"} \cup TokenValidationErrors
    BY ONLY <1>10 DEF Check, TokenValidationErrors
  <1>12. decode_and_validate_jwt(tok, key, algorithms, client, issuer, none, leeway, none)
           = FirstErr(<<Wrapped(d), last>>)
    <2>1. k = _normalize_verification_key(key)
      BY <1>1, <1>2
    <2> QED BY ONLY <1>6, <1>9, <1>10, <2>1 DEF decode_and_validate_jwt
  <1>13. FirstErr(<<Wrapped(d), last>>) \in {"ok"} \cup TokenValidationErrors
    BY ONLY <1>8, <1>11, FirstErr2
  <1>14. Decoding(tok, found, client, iss) =
           decode_and_validate_jwt(tok, key, algorithms, client, issuer, none, leeway, none)
    BY ONLY <1>2 DEF Decoding
  <1> QED BY <1>12, <1>13, <1>14

\* The classes that validate_token raises for a token that is a JWT.
LEMMA DecodedErr ==
    ASSUME NEW tok, tok.wf, tok.alg \in {"RS256", "ES256", "none"}, NEW client, NEW iss, iss # "", iss # None,
           NEW cfg, Configured(cfg, client, iss), NEW env, Provides(env, iss)
    PROVE  Decoded(tok, cfg, env) \in {"ok"} \cup TokenValidationErrors
  <1>1. PICK disco, jwks : disco = env.disco /\ jwks = env.jwks
    OBVIOUS
  <1>2. disco.issuer \in {iss} /\ jwks = Keys(iss)
    BY <1>1 DEF Provides
  <1>3. PICK found : found = find_key_by_kid(tok.kid, jwks.keys, tok.alg)
    OBVIOUS
  <1>4. /\ DOMAIN jwks.keys \subseteq Nat
        /\ \A i \in DOMAIN jwks.keys : /\ IsKey(jwks.keys[i]) /\ jwks.keys[i].form = "dict"
                                       /\ jwks.keys[i].alg = None
        /\ validate_jwks_response(jwks) = "ok"
    BY ONLY <1>2, KeysFacts DEF IsKeySet
  <1>5. tok.alg # None
    BY DEF None
  <1>6. /\ found.err \in {"ok", "TokenValidation"}
        /\ found.err = "ok" =>
             /\ tok.alg # "none" /\ KtyOf(tok.alg) \in {None, found.key.kty}
             /\ \E i \in DOMAIN jwks.keys : found.key = jwks.keys[i]
    BY ONLY <1>3, <1>4, <1>5, FoundFits
  <1>7. Decoded(tok, cfg, env) = ResolveAndDecode(tok, cfg, disco, jwks)
    BY <1>1, DecodedIs, ZenonT(30)
  <1>8. CASE found.err = "ok"
    <2>1. KtyOf(tok.alg) = found.key.kty
      <3>1. tok.alg \in {"RS256", "ES256"}
        BY <1>6, <1>8
      <3>2. KtyOf(tok.alg) # None
        BY ONLY <3>1 DEF KtyOf, _ALG_TO_KTY, None
      <3> QED BY ONLY <1>6, <1>8, <3>2
    <2>2. IsKey(found.key) /\ found.key.form = "dict"
      BY ONLY <1>4, <1>6, <1>8
    <2>3. found.alg = tok.alg
      <3>1. \E i \in DOMAIN jwks.keys :
              /\ found.key = jwks.keys[i]
              /\ found.alg = IF jwks.keys[i].alg # None THEN jwks.keys[i].alg
                             ELSE IF tok.alg # None THEN tok.alg ELSE "RS256"
        BY ONLY <1>3, <1>4, <1>8, FoundFacts
      <3> QED BY ONLY <1>4, <1>5, <3>1
    <2>4. Decoding(tok, found, client, iss) \in {"ok"} \cup TokenValidationErrors
      BY ONLY <2>1, <2>2, <2>3, DecodingErr
    <2>5. ResolveAndDecode(tok, cfg, disco, jwks) =
             IF cfg.algorithms = <<>> \/ found.alg \in Members(cfg.algorithms)
             THEN Decoding(tok, found, client, iss) ELSE "TokenValidation"
      BY ONLY <1>2, <1>3, <1>8, tok.wf, Configured(cfg, client, iss), iss # None, FoundDecodes
    <2> QED BY ONLY <1>7, <2>4, <2>5 DEF TokenValidationErrors
  <1>9. CASE found.err = "TokenValidation"
    <2>1. FirstErr(<<validate_jwks_response(jwks), extract_jwt_header_fields(tok)>>) = "ok"
      BY ONLY <1>4, tok.wf, FirstErr2 DEF extract_jwt_header_fields, Check
    <2>2. ResolveAndDecode(tok, cfg, disco, jwks) = "TokenValidation"
      BY <1>3, <1>9, <2>1 DEF ResolveAndDecode, DecodeFound
    <2> QED BY ONLY <1>7, <2>2 DEF TokenValidationErrors
  <1> QED BY <1>6, <1>8, <1>9

-----------------------------------------------------------------------------
(* The tokens of the provider                                              *)

\* The provider of a flow whose discovery document passed.
LEMMA EnvProvides ==
    ASSUME NEW s, ~BadDisco(s, "callback"), NEW env, env = Env(s), NEW iss, iss = spec[s].issuer
    PROVE  Provides(env, iss)
  <1>1. PICK d : d = Disco(s, "callback")
    OBVIOUS
  <1>2. validate_disco_response(d) = "ok" /\ Check(d.issuer = spec[s].issuer, "issuer_mismatch") = "ok"
    BY <1>1, FirstErr3 DEF BadDisco
  <1>3. d.st = "ok" /\ d.issuer = spec[s].issuer
    BY ONLY <1>2 DEF validate_disco_response, Check
  <1>4. d.jwks_uri
    BY <1>1 DEF Disco
  <1>5. /\ env.address /\ env.disco = d /\ env.jwks = Keys(iss) /\ env.jwks2 = Keys(iss)
        /\ env.jwks3 = Keys(iss) /\ env.attempt.retry
    BY <1>1 DEF Env
  <1>6. d.issuer = iss
    BY <1>3
  <1> QED BY ONLY <1>3, <1>4, <1>5, <1>6 DEF Provides

\* What a token needs for the provider to spoil it.
TokenFields == {"wf", "alg", "kid", "mat", "iss", "aud", "exp", "sub", "nonce", "azp", "sid", "jti", "events",
                "claims"}

\* What the provider signs.
LEMMA SignedFacts ==
    ASSUME NEW f, NEW alg \in {"RS256", "ES256"}, NEW tok, tok = Signed(f, alg), NEW iss, iss = spec[f].issuer,
           NEW client, client = spec[f].client_id
    PROVE  /\ DOMAIN tok = TokenFields /\ GenuineToken(tok, iss, client) /\ tok.alg = alg
           /\ tok.sub # None /\ tok.nonce = None
  <1>1. /\ DOMAIN tok = TokenFields /\ tok.alg = alg /\ tok.wf /\ tok.kid = (IF alg = "ES256" THEN "k2" ELSE "k1")
        /\ tok.mat = <<spec[f].issuer, KtyOf(alg)>> /\ tok.iss = spec[f].issuer
        /\ tok.aud = {spec[f].client_id} /\ tok.sub = "user" /\ tok.nonce = None
    BY DEF Signed, TokenFields
  <1>2. tok.exp = 20
    BY DEF Signed
  <1>3. /\ tok.mat = <<iss, KtyOf(alg)>> /\ tok.iss = iss /\ tok.aud = {client}
    BY <1>1
  <1>4. GenuineToken(tok, iss, client)
    BY ONLY <1>1, <1>2, <1>3, alg \in {"RS256", "ES256"} DEF GenuineToken
  <1> QED BY ONLY <1>1, <1>4 DEF None

\* The claims that a genuine token carries besides.
LEMMA GenuineWith ==
    ASSUME NEW tok, DOMAIN tok = TokenFields, NEW iss, NEW client, GenuineToken(tok, iss, client), NEW u,
           DOMAIN u = TokenFields,
           \A x \in TokenFields \ {"nonce", "jti", "events", "claims"} : u[x] = tok[x]
    PROVE  GenuineToken(u, iss, client) /\ u.alg = tok.alg /\ u.sub = tok.sub
  <1>1. /\ u.wf = tok.wf /\ u.alg = tok.alg /\ u.kid = tok.kid /\ u.mat = tok.mat /\ u.iss = tok.iss
        /\ u.aud = tok.aud /\ u.exp = tok.exp /\ u.sub = tok.sub
    BY DEF TokenFields
  <1> QED BY <1>1 DEF GenuineToken

\* What spoiling leaves.
LEMMA SpoiltFacts ==
    ASSUME NEW tok, DOMAIN tok = TokenFields, NEW what, NEW u, u = Spoilt(tok, what)
    PROVE  /\ u.alg \in {tok.alg, "RS256", "none"}
           /\ what # "malformed" => u.wf = tok.wf
           /\ what = "nothing" => u = tok
  BY DEF Spoilt, TokenFields

\* The provider does not spoil what has no fault.
LEMMA NothingAt ==
    ASSUME plan \in Plans, NEW f \in Flows, NEW at, NEW what, what = WhatAt(f, at)
    PROVE  /\ spec[f].fault.at # at => what = "nothing"
           /\ what # "nothing" => Faulty(f, at, what)
  <1>1. spec[f].fault = [at |-> spec[f].fault.at, what |-> spec[f].fault.what]
    BY PlanFacts
  <1>2. PICK x : x = spec[f].fault
    OBVIOUS
  <1>3. x = [at |-> x.at, what |-> x.what] /\ what = IF x.at = at THEN x.what ELSE "nothing"
    BY <1>1, <1>2 DEF WhatAt
  <1>4. Faulty(f, at, what) <=> x = [at |-> at, what |-> what]
    BY <1>2 DEF Faulty
  <1>5. x.at = at => x = [at |-> at, what |-> what]
    BY ONLY <1>3
  <1> QED BY <1>2, <1>3, <1>4, <1>5

\* The ID token of a flow.
LEMMA IdTokenFacts ==
    ASSUME plan \in Plans, NEW c \in Flows, NEW tok, tok = IdToken(c), NEW iss, iss = spec[c].issuer,
           NEW client, client = spec[c].client_id
    PROVE  /\ tok.alg \in {"RS256", "ES256", "none"} /\ (tok.wf \/ Faulty(c, "token", "malformed"))
           /\ spec[c].fault.at # "token" =>
                /\ GenuineToken(tok, iss, client) /\ tok.alg = (IF Fapi(c) THEN "ES256" ELSE "RS256")
                /\ tok.nonce = c /\ tok.sub # None
  <1>1. PICK alg \in {"RS256", "ES256"} : alg = IF Fapi(c) THEN "ES256" ELSE "RS256"
    OBVIOUS
  <1>2. PICK t : t = Signed(c, alg)
    OBVIOUS
  <1>3. /\ DOMAIN t = TokenFields /\ GenuineToken(t, iss, client) /\ t.alg = alg /\ t.sub # None
    BY <1>2, SignedFacts
  <1>4. PICK u : u = [t EXCEPT !.nonce = c]
    OBVIOUS
  <1>5. DOMAIN u = TokenFields /\ u.nonce = c /\ \A x \in TokenFields \ {"nonce"} : u[x] = t[x]
    BY <1>3, <1>4 DEF TokenFields
  <1>6. GenuineToken(u, iss, client) /\ u.alg = alg /\ u.sub # None
    BY ONLY <1>3, <1>5, GenuineWith
  <1>7. PICK what : what = WhatAt(c, "token")
    OBVIOUS
  <1>8. /\ spec[c].fault.at # "token" => what = "nothing"
        /\ what # "nothing" => Faulty(c, "token", what)
    BY <1>7, NothingAt
  <1>9. tok = Spoilt(u, what)
    BY <1>1, <1>2, <1>4, <1>7 DEF IdToken
  <1>10. /\ tok.alg \in {u.alg, "RS256", "none"}
         /\ what # "malformed" => tok.wf = u.wf
         /\ what = "nothing" => tok = u
    BY ONLY <1>5, <1>9, SpoiltFacts
  <1>11. u.wf
    BY <1>6 DEF GenuineToken
  <1>12. tok.alg \in {"RS256", "ES256", "none"}
    BY ONLY <1>6, <1>10
  <1>13. tok.wf \/ Faulty(c, "token", "malformed")
    BY ONLY <1>8, <1>10, <1>11
  <1>14. what = "nothing" => GenuineToken(tok, iss, client) /\ tok.alg = alg /\ tok.nonce = c /\ tok.sub # None
    BY ONLY <1>5, <1>6, <1>10
  <1> QED BY ONLY <1>1, <1>8, <1>12, <1>13, <1>14

\* The logout token of a flow without a fault there.
LEMMA LogoutTokenFacts ==
    ASSUME plan \in Plans, NEW c \in Flows, NEW tok, tok = LogoutToken(c), NEW iss, iss = spec[c].issuer,
           NEW client, client = spec[c].client_id, spec[c].fault.at # "logout"
    PROVE  /\ GenuineToken(tok, iss, client) /\ tok.sub # None /\ tok.nonce = None /\ tok.jti
           /\ tok.events = "backchannel-logout"
  <1>1. PICK t : t = Signed(c, "RS256")
    OBVIOUS
  <1>2. /\ DOMAIN t = TokenFields /\ GenuineToken(t, iss, client) /\ t.sub # None /\ t.nonce = None
    BY <1>1, SignedFacts
  <1>3. PICK u : u = [t EXCEPT !.jti = TRUE, !.events = "backchannel-logout"]
    OBVIOUS
  <1>4. /\ DOMAIN u = TokenFields /\ u.jti /\ u.events = "backchannel-logout" /\ u.nonce = t.nonce
        /\ \A x \in TokenFields \ {"jti", "events"} : u[x] = t[x]
    BY <1>2, <1>3 DEF TokenFields
  <1>5. GenuineToken(u, iss, client) /\ u.sub # None
    BY ONLY <1>2, <1>4, GenuineWith
  <1>6. PICK what : what = WhatAt(c, "logout")
    OBVIOUS
  <1>7. what = "nothing"
    BY <1>6, NothingAt
  <1>8. tok = Spoilt(u, what)
    BY <1>1, <1>3, <1>6 DEF LogoutToken
  <1>9. tok = u
    BY ONLY <1>4, <1>7, <1>8, SpoiltFacts
  <1> QED BY ONLY <1>2, <1>4, <1>5, <1>9

\* The JARM response of a flow without a fault there.
LEMMA JarmTokenFacts ==
    ASSUME plan \in Plans, NEW c \in Flows, NEW tok, tok = JarmToken(c), NEW iss, iss = spec[c].issuer,
           NEW client, client = spec[c].client_id, spec[c].fault.at # "response"
    PROVE  GenuineToken(tok, iss, client) /\ tok.alg = "ES256" /\ tok.claims = Params(c)
  <1>1. PICK t : t = Signed(c, "ES256")
    OBVIOUS
  <1>2. /\ DOMAIN t = TokenFields /\ GenuineToken(t, iss, client) /\ t.alg = "ES256"
    BY <1>1, SignedFacts
  <1>3. PICK p : p = Params(c)
    OBVIOUS
  <1>4. PICK u : u = [t EXCEPT !.claims = p]
    OBVIOUS
  <1>5. /\ DOMAIN u = TokenFields /\ u.claims = p /\ \A x \in TokenFields \ {"claims"} : u[x] = t[x]
    BY <1>2, <1>4 DEF TokenFields
  <1>6. GenuineToken(u, iss, client) /\ u.alg = "ES256"
    BY ONLY <1>2, <1>5, GenuineWith
  <1>7. PICK what : what = WhatAt(c, "response")
    OBVIOUS
  <1>8. what = "nothing" /\ ~Faulty(c, "response", "empty")
    BY <1>7, NothingAt, NoFault
  <1>9. tok = Spoilt(u, what)
    BY <1>1, <1>3, <1>4, <1>7, <1>8 DEF JarmToken
  <1>10. tok = u
    BY ONLY <1>5, <1>8, <1>9, SpoiltFacts
  <1> QED BY ONLY <1>3, <1>5, <1>6, <1>10

-----------------------------------------------------------------------------
(* The verdicts of the handlers                                            *)

\* validate_token with the configuration of the harness is the decode.
LEMMA HarnessValidates ==
    ASSUME NEW tok, NEW client, NEW iss, iss # "", NEW cfg, Configured(cfg, client, iss), NEW env
    PROVE  /\ validate_token_sync(tok, cfg, env) = Decoded(tok, cfg, env)
           /\ validate_token_aio(tok, cfg, env) = Decoded(tok, cfg, env)
  <1>1. validate_claims(cfg.validator) = "ok" /\ validate_async_claims(cfg.validator) = "ok"
    BY ConfigOk
  <1>2. PICK d : d = Decoded(tok, cfg, env)
    OBVIOUS
  <1>3. FirstErr(<<d, "ok">>) = d
    BY ONLY FirstErr2
  <1> QED BY <1>1, <1>2, <1>3 DEF validate_token_sync, validate_token_aio

\* The verdict of app.py on an ID token.
LEMMA SyncVerdict ==
    ASSUME plan \in Plans, NEW c \in Flows, NEW s \in Flows, ~BadDisco(s, "callback"), ParseOk(s)
    PROVE  \E tok, cfg, env, iss, client, require :
             /\ tok = IdToken(c) /\ env = Env(s) /\ iss = spec[s].issuer /\ client = spec[s].client_id
             /\ require = _id_token_validation_params(s).require
             /\ cfg.algorithms = _id_token_validation_params(s).algorithms
             /\ Configured(cfg, client, iss) /\ Provides(env, iss) /\ iss # "" /\ iss # None /\ client # None
             /\ IdTokenErr(c, s) = (IF Decoded(tok, cfg, env) # "ok" THEN Decoded(tok, cfg, env)
                                    ELSE Required(tok, require))
  <1>1. PICK tok, env, iss, client, algs, require :
          /\ tok = IdToken(c) /\ env = Env(s) /\ iss = spec[s].issuer /\ client = spec[s].client_id
          /\ require = _id_token_validation_params(s).require
          /\ algs = _id_token_validation_params(s).algorithms
    OBVIOUS
  <1>2. PICK cfg : cfg = ValidationConfig(client, iss, algs)
    OBVIOUS
  <1>3. Configured(cfg, client, iss) /\ cfg.algorithms \in {algs}
    BY ONLY <1>2, ConfigFacts
  <1>4. iss # "" /\ iss # None /\ client # None
    BY <1>1, PlanFacts DEF ParseOk
  <1>5. Provides(env, iss)
    BY <1>1, EnvProvides
  <1>6. validate_token_sync(tok, cfg, env) = Decoded(tok, cfg, env)
    BY ONLY <1>3, <1>4, HarnessValidates
  <1>7. IdTokenErr(c, s) = FirstErr(<<validate_token_sync(tok, cfg, env), Required(tok, require)>>)
    BY <1>1, <1>2 DEF IdTokenErr
  <1>8. IdTokenErr(c, s) = IF Decoded(tok, cfg, env) # "ok" THEN Decoded(tok, cfg, env) ELSE Required(tok, require)
    BY ONLY <1>6, <1>7, FirstErr2
  <1>9. cfg.algorithms = _id_token_validation_params(s).algorithms
    BY ONLY <1>1, <1>3
  <1> QED BY ONLY <1>1, <1>3, <1>4, <1>5, <1>8, <1>9

\* A response that passed the check of a FAPI flow names the issuer.
LEMMA AnsweredIssuer ==
    ASSUME NEW c, NEW s, Passed(c, s), Fapi(s)
    PROVE  FieldOf(Answer(c), "iss") = spec[s].issuer
  <1>1. PICK resp, iss, want : resp = Answer(c) /\ iss = FieldOf(resp, "iss") /\ want = Disco(s, "callback").issuer
    OBVIOUS
  <1>2. validate_authorize_callback_issuer(resp, want, TRUE) = "ok"
    BY <1>1 DEF Passed, _validate_fapi2_callback_issuer
  <1>3. PICK a, b, e :
          /\ a = Check(resp.ok, "error_response")
          /\ b = Check(iss = None \/ (want \notin {None, ""} /\ iss = want), "issuer_mismatch")
          /\ e = Check(iss # None, "missing_issuer")
    OBVIOUS
  <1>4. iss = want
    <2>1. FirstErr(<<a, b, e>>) = "ok"
      BY ONLY <1>1, <1>2, <1>3 DEF validate_authorize_callback_issuer
    <2>2. b = "ok" /\ e = "ok"
      BY ONLY <2>1, FirstErr3
    <2> QED BY ONLY <1>3, <2>2 DEF Check
  <1>5. PICK env, want2 : env = Env(s) /\ want2 = spec[s].issuer
    OBVIOUS
  <1>6. Provides(env, want2)
    BY <1>5, EnvProvides DEF Passed
  <1>7. env.disco.issuer = want2
    BY ONLY <1>6 DEF Provides
  <1>8. env.disco.issuer = want
    BY <1>1, <1>5 DEF Env
  <1> QED BY <1>1, <1>4, <1>5, <1>7, <1>8

\* app.py logs in with its own token.
LEMMA OwnSync ==
    ASSUME plan \in Plans, NEW c \in Flows, NEW s \in Flows, ParseOk(s), Passed(c, s), Verified(c, s),
           ~Faulty(c, "token", "no id_token")
    PROVE  Own(c, s)
  <1>1. PICK tok, cfg, env, iss, client, require :
             /\ tok = IdToken(c) /\ env = Env(s) /\ iss = spec[s].issuer /\ client = spec[s].client_id
             /\ require = _id_token_validation_params(s).require
             /\ cfg.algorithms = _id_token_validation_params(s).algorithms
             /\ Configured(cfg, client, iss) /\ Provides(env, iss) /\ iss # "" /\ iss # None /\ client # None
             /\ IdTokenErr(c, s) = (IF Decoded(tok, cfg, env) # "ok" THEN Decoded(tok, cfg, env)
                                    ELSE Required(tok, require))
    BY SyncVerdict DEF Passed
  <1>2. IdTokenErr(c, s) = "ok" /\ NonceMatches(tok, s) /\ _validate_fapi2_audience(tok, s)
    BY <1>1 DEF Verified
  <1>3. Decoded(tok, cfg, env) = "ok"
    BY ONLY <1>1, <1>2
  <1>4. tok.mat[1] = iss /\ tok.iss = iss /\ client \in tok.aud
    BY ONLY <1>1, <1>3, DecodedFor, ZenonT(30)
  <1>5. tok.nonce = s /\ (Fapi(s) => tok.aud = {spec[s].client_id})
    BY <1>2 DEF NonceMatches, _validate_fapi2_audience
  <1>6. Fapi(s) => FieldOf(Answer(c), "iss") = spec[s].issuer
    BY AnsweredIssuer
  <1>7. /\ tok.mat[1] = spec[s].issuer /\ tok.iss = spec[s].issuer /\ spec[s].client_id \in tok.aud
    BY ONLY <1>1, <1>4
  <1> QED BY ONLY <1>1, <1>5, <1>6, <1>7 DEF Own

\* What app.py raises for an ID token, but for a malformed one, it catches.
LEMMA SyncErr ==
    ASSUME plan \in Plans, NEW c \in Flows, NEW s \in Flows, ParseOk(s), ~BadDisco(s, "callback"),
           ~Faulty(c, "token", "malformed")
    PROVE  IdTokenErr(c, s) \in {"ok"} \cup TokenValidationErrors
  <1>1. PICK tok, cfg, env, iss, client, require :
             /\ tok = IdToken(c) /\ env = Env(s) /\ iss = spec[s].issuer /\ client = spec[s].client_id
             /\ require = _id_token_validation_params(s).require
             /\ cfg.algorithms = _id_token_validation_params(s).algorithms
             /\ Configured(cfg, client, iss) /\ Provides(env, iss) /\ iss # "" /\ iss # None /\ client # None
             /\ IdTokenErr(c, s) = (IF Decoded(tok, cfg, env) # "ok" THEN Decoded(tok, cfg, env)
                                    ELSE Required(tok, require))
    BY SyncVerdict
  <1>2. tok.alg \in {"RS256", "ES256", "none"} /\ tok.wf
    BY <1>1, IdTokenFacts
  <1>3. Decoded(tok, cfg, env) \in {"ok"} \cup TokenValidationErrors
    BY ONLY <1>1, <1>2, DecodedErr
  <1>4. Required(tok, require) \in {"ok", "TokenValidation"}
    BY ONLY DEF Required, Check
  <1> QED BY ONLY <1>1, <1>3, <1>4 DEF TokenValidationErrors

\* app.py accepts the ID token of a provider that behaves.
LEMMA SyncComplete ==
    ASSUME plan \in Plans, NEW s \in Flows, ParseOk(s), spec[s].fault.at = "none"
    PROVE  /\ IdTokenErr(s, s) = "ok" /\ NonceMatches(IdToken(s), s)
           /\ _validate_fapi2_audience(IdToken(s), s)
  <1>1. ~BadDisco(s, "callback")
    BY GenuineDisco
  <1>2. PICK tok, cfg, env, iss, client, require :
             /\ tok = IdToken(s) /\ env = Env(s) /\ iss = spec[s].issuer /\ client = spec[s].client_id
             /\ require = _id_token_validation_params(s).require
             /\ cfg.algorithms = _id_token_validation_params(s).algorithms
             /\ Configured(cfg, client, iss) /\ Provides(env, iss) /\ iss # "" /\ iss # None /\ client # None
             /\ IdTokenErr(s, s) = (IF Decoded(tok, cfg, env) # "ok" THEN Decoded(tok, cfg, env)
                                    ELSE Required(tok, require))
    BY <1>1, SyncVerdict
  <1>3. /\ GenuineToken(tok, iss, client) /\ tok.alg = (IF Fapi(s) THEN "ES256" ELSE "RS256")
        /\ tok.nonce = s /\ tok.sub # None
    BY <1>2, IdTokenFacts
  <1>4. cfg.algorithms = <<>> \/ tok.alg \in Members(cfg.algorithms)
    <2>1. CASE Fapi(s)
      <3>1. cfg.algorithms = <<"PS256", "ES256", "EdDSA">>
        BY ONLY <1>2, <2>1 DEF _id_token_validation_params
      <3>2. tok.alg = cfg.algorithms[2] /\ 2 \in DOMAIN cfg.algorithms
        BY ONLY <1>3, <2>1, <3>1
      <3> QED BY ONLY <3>2 DEF Members
    <2>2. CASE ~Fapi(s)
      BY <1>2, <2>2 DEF _id_token_validation_params
    <2> QED BY <2>1, <2>2
  <1>5. Decoded(tok, cfg, env) = "ok"
    BY ONLY <1>2, <1>3, <1>4, DecodedComplete
  <1>6. tok.exp # Never /\ tok.aud # {} /\ tok.aud = {client}
    BY ONLY <1>3 DEF GenuineToken, Never
  <1>7. Required(tok, require) = "ok"
    BY ONLY <1>3, <1>6 DEF Required, Check
  <1>8. IdTokenErr(s, s) = "ok"
    BY ONLY <1>2, <1>5, <1>7
  <1> QED BY <1>2, <1>3, <1>6, <1>8 DEF NonceMatches, _validate_fapi2_audience

\* A response that the router acts on: the state is the session's, the document passed.
LEMMA RouterFacts ==
    ASSUME NEW c, NEW s
    PROVE  RouterErr(c, s) = "ok" <=>
             /\ validate_authorize_callback_state(Answer(c), s) = "ok"
             /\ FieldOf(Answer(c), "code") # None
             /\ ~BadDisco(s, "callback") /\ "token_endpoint" \in Disco(s, "callback").endpoints
  <1>1. PICK a, b, d, e :
          /\ a = validate_authorize_callback_state(Answer(c), s)
          /\ b = Check(FieldOf(Answer(c), "code") # None, "HTTPException")
          /\ d = Check(~BadDisco(s, "callback"), "HTTPException")
          /\ e = Check("token_endpoint" \in Disco(s, "callback").endpoints, "HTTPException")
    OBVIOUS
  <1>2. RouterErr(c, s) = FirstErr(<<a, b, d, e>>)
    BY <1>1 DEF RouterErr
  <1>3. FirstErr(<<a, b, d, e>>) = "ok" <=> a = "ok" /\ b = "ok" /\ d = "ok" /\ e = "ok"
    BY ONLY FirstErr4
  <1>4. /\ b = "ok" <=> FieldOf(Answer(c), "code") # None
        /\ d = "ok" <=> ~BadDisco(s, "callback")
        /\ e = "ok" <=> "token_endpoint" \in Disco(s, "callback").endpoints
    BY ONLY <1>1 DEF Check
  <1> QED BY ONLY <1>1, <1>2, <1>3, <1>4

\* The checks of the router on an ID token.
LEMMA RouterVerdict ==
    ASSUME plan \in Plans, NEW c \in Flows, NEW s \in Flows, ~BadDisco(s, "callback"), ParseOk(s)
    PROVE  \E tok, cfg, env, iss, client, checks :
             /\ tok = IdToken(c) /\ env = Env(s) /\ iss = spec[s].issuer /\ client = spec[s].client_id
             /\ cfg.algorithms = <<>>
             /\ Configured(cfg, client, iss) /\ Provides(env, iss) /\ iss # "" /\ iss # None /\ client # None
             /\ RouterIdTokenErr(c, s) = FirstErr(checks) /\ DOMAIN checks = {1, 2, 3, 4, 5, 6}
             /\ checks[1] = Check(~Faulty(c, "token", "no id_token"), "IdToken")
             /\ checks[2] = Decoded(tok, cfg, env)
             /\ checks[3] = Required(tok, {"sub", "exp"})
             /\ checks[4] = Check(NonceMatches(tok, s), "IdToken")
             /\ checks[5] = Check(spec[s].skip \/ ~Faulty(c, "userinfo", "no object"), "AttributeError")
             /\ checks[6] = Check(spec[s].skip \/ ~Faulty(c, "userinfo", "sub"), "IdToken")
  <1>1. PICK tok, env, iss, client, algs :
          /\ tok = IdToken(c) /\ env = Env(s) /\ iss = spec[s].issuer /\ client = spec[s].client_id /\ algs = <<>>
    OBVIOUS
  <1>2. PICK cfg : cfg = ValidationConfig(client, iss, algs)
    OBVIOUS
  <1>3. Configured(cfg, client, iss) /\ cfg.algorithms \in {algs}
    BY ONLY <1>2, ConfigFacts
  <1>4. iss # "" /\ iss # None /\ client # None
    BY <1>1, PlanFacts DEF ParseOk
  <1>5. Provides(env, iss)
    BY <1>1, EnvProvides
  <1>6. validate_token_aio(tok, cfg, env) = Decoded(tok, cfg, env)
    BY ONLY <1>3, <1>4, HarnessValidates
  <1>7. PICK a, b, d, e, o, g :
          /\ a = Check(~Faulty(c, "token", "no id_token"), "IdToken") /\ b = Decoded(tok, cfg, env)
          /\ d = Required(tok, {"sub", "exp"}) /\ e = Check(NonceMatches(tok, s), "IdToken")
          /\ o = Check(spec[s].skip \/ ~Faulty(c, "userinfo", "no object"), "AttributeError")
          /\ g = Check(spec[s].skip \/ ~Faulty(c, "userinfo", "sub"), "IdToken")
    OBVIOUS
  <1>8. RouterIdTokenErr(c, s) = FirstErr(<<a, b, d, e, o, g>>)
    BY ONLY <1>1, <1>2, <1>6, <1>7 DEF RouterIdTokenErr
  <1>9. PICK checks : checks = <<a, b, d, e, o, g>>
    OBVIOUS
  <1>10. /\ DOMAIN checks = {1, 2, 3, 4, 5, 6}
         /\ checks[1] = a /\ checks[2] = b /\ checks[3] = d /\ checks[4] = e /\ checks[5] = o /\ checks[6] = g
    BY ONLY <1>9
  <1>11. cfg.algorithms = <<>>
    BY ONLY <1>1, <1>3
  <1>12. /\ RouterIdTokenErr(c, s) = FirstErr(checks)
         /\ checks[1] = Check(~Faulty(c, "token", "no id_token"), "IdToken")
         /\ checks[2] = Decoded(tok, cfg, env)
         /\ checks[3] = Required(tok, {"sub", "exp"})
         /\ checks[4] = Check(NonceMatches(tok, s), "IdToken")
         /\ checks[5] = Check(spec[s].skip \/ ~Faulty(c, "userinfo", "no object"), "AttributeError")
         /\ checks[6] = Check(spec[s].skip \/ ~Faulty(c, "userinfo", "sub"), "IdToken")
    BY ONLY <1>7, <1>8, <1>9, <1>10
  <1> QED BY ONLY <1>1, <1>3, <1>4, <1>5, <1>10, <1>11, <1>12, ZenonT(30)

\* The router logs in with its own token.
LEMMA OwnRouter ==
    ASSUME plan \in Plans, ~App, NEW c \in Flows, NEW s \in Flows, ParseOk(s), RouterErr(c, s) = "ok",
           RouterIdTokenErr(c, s) = "ok"
    PROVE  Own(c, s)
  <1>1. ~BadDisco(s, "callback") /\ ~Fapi(s)
    BY RouterFacts, PlanFacts DEF Fapi
  <1>2. PICK tok, cfg, env, iss, client, checks :
             /\ tok = IdToken(c) /\ env = Env(s) /\ iss = spec[s].issuer /\ client = spec[s].client_id
             /\ cfg.algorithms = <<>>
             /\ Configured(cfg, client, iss) /\ Provides(env, iss) /\ iss # "" /\ iss # None /\ client # None
             /\ RouterIdTokenErr(c, s) = FirstErr(checks) /\ DOMAIN checks = {1, 2, 3, 4, 5, 6}
             /\ checks[1] = Check(~Faulty(c, "token", "no id_token"), "IdToken")
             /\ checks[2] = Decoded(tok, cfg, env)
             /\ checks[3] = Required(tok, {"sub", "exp"})
             /\ checks[4] = Check(NonceMatches(tok, s), "IdToken")
             /\ checks[5] = Check(spec[s].skip \/ ~Faulty(c, "userinfo", "no object"), "AttributeError")
             /\ checks[6] = Check(spec[s].skip \/ ~Faulty(c, "userinfo", "sub"), "IdToken")
    BY <1>1, RouterVerdict
  <1>3. checks[2] = "ok" /\ checks[4] = "ok"
    <2>1. FirstErr(checks) = "ok" /\ DOMAIN checks = {1, 2, 3, 4, 5, 6}
      BY <1>2, Zenon
    <2> QED BY ONLY <2>1, FirstErrOk
  <1>4. Decoded(tok, cfg, env) = "ok" /\ NonceMatches(tok, s)
    BY ONLY <1>2, <1>3 DEF Check
  <1>5. tok.mat[1] = iss /\ tok.iss = iss /\ client \in tok.aud
    <2>1. Configured(cfg, client, iss) /\ Provides(env, iss) /\ iss # "" /\ iss # None /\ client # None
      BY <1>2, Zenon
    <2> QED BY ONLY <1>4, <2>1, DecodedFor
  <1>6. tok.mat[1] = spec[s].issuer /\ tok.iss = spec[s].issuer /\ spec[s].client_id \in tok.aud
    BY ONLY <1>2, <1>5
  <1>7. tok.nonce = s
    BY ONLY <1>4 DEF NonceMatches
  <1> QED BY ONLY <1>1, <1>2, <1>6, <1>7 DEF Own

\* What the router raises for an ID token, but for a malformed one or for a UserInfo answer
\* that is not an object, is a response.
LEMMA RouterTyped ==
    ASSUME plan \in Plans, NEW c \in Flows, NEW s \in Flows, ParseOk(s), ~BadDisco(s, "callback"),
           ~Faulty(c, "token", "malformed"), ~Faulty(c, "userinfo", "no object")
    PROVE  RouterIdTokenErr(c, s) \in {"ok"} \cup Typed
  <1>1. PICK tok, cfg, env, iss, client, checks :
             /\ tok = IdToken(c) /\ env = Env(s) /\ iss = spec[s].issuer /\ client = spec[s].client_id
             /\ cfg.algorithms = <<>>
             /\ Configured(cfg, client, iss) /\ Provides(env, iss) /\ iss # "" /\ iss # None /\ client # None
             /\ RouterIdTokenErr(c, s) = FirstErr(checks) /\ DOMAIN checks = {1, 2, 3, 4, 5, 6}
             /\ checks[1] = Check(~Faulty(c, "token", "no id_token"), "IdToken")
             /\ checks[2] = Decoded(tok, cfg, env)
             /\ checks[3] = Required(tok, {"sub", "exp"})
             /\ checks[4] = Check(NonceMatches(tok, s), "IdToken")
             /\ checks[5] = Check(spec[s].skip \/ ~Faulty(c, "userinfo", "no object"), "AttributeError")
             /\ checks[6] = Check(spec[s].skip \/ ~Faulty(c, "userinfo", "sub"), "IdToken")
    BY RouterVerdict
  <1>2. tok.alg \in {"RS256", "ES256", "none"} /\ tok.wf
    BY <1>1, IdTokenFacts
  <1>3. Decoded(tok, cfg, env) \in {"ok"} \cup TokenValidationErrors
    BY ONLY <1>1, <1>2, DecodedErr
  <1>4. /\ checks[1] \in {"ok"} \cup Typed /\ checks[4] \in {"ok"} \cup Typed
        /\ checks[5] \in {"ok"} \cup Typed /\ checks[6] \in {"ok"} \cup Typed
    BY <1>1 DEF Check, Typed
  <1>5. checks[2] \in {"ok"} \cup Typed
    BY ONLY <1>1, <1>3 DEF TokenValidationErrors, Typed
  <1>6. checks[3] \in {"ok"} \cup Typed
    BY ONLY <1>1 DEF Required, Check, Typed
  <1>7. FirstErr(checks) # "ok" => \E i \in DOMAIN checks : FirstErr(checks) = checks[i]
    <2>1. DOMAIN checks = {1, 2, 3, 4, 5, 6}
      BY <1>1, Zenon
    <2> QED BY ONLY <2>1, FirstErrIn
  <1>8. DOMAIN checks = {1, 2, 3, 4, 5, 6}
    BY <1>1
  <1>9. FirstErr(checks) \in {"ok"} \cup Typed
    BY ONLY <1>4, <1>5, <1>6, <1>7, <1>8
  <1> QED BY ONLY <1>1, <1>9

\* The state of a genuine answer passes.
LEMMA StateComplete ==
    ASSUME NEW s \in Flows, spec[s].fault.at # "response"
    PROVE  validate_authorize_callback_state(Answer(s), s) = "ok"
  <1>1. Answer(s).ok /\ FieldOf(Answer(s), "state") = s
    BY GenuineAnswer
  <1>2. s \notin {None, ""}
    BY PlansAssumption
  <1> QED BY ONLY <1>1, <1>2, FirstErr4 DEF validate_authorize_callback_state, Check

\* The router accepts a provider that behaves.
LEMMA RouterComplete ==
    ASSUME plan \in Plans, ~App, NEW s \in Flows, ParseOk(s), spec[s].fault.at = "none"
    PROVE  RouterErr(s, s) = "ok" /\ RouterIdTokenErr(s, s) = "ok"
  <1>1. /\ ~BadDisco(s, "callback") /\ "token_endpoint" \in Disco(s, "callback").endpoints
    BY GenuineDisco DEF AllEndpoints
  <1>2. FieldOf(Answer(s), "code") # None
    BY GenuineAnswer, PlansAssumption
  <1>3. RouterErr(s, s) = "ok"
    BY <1>1, <1>2, StateComplete, RouterFacts
  <1>4. PICK tok, cfg, env, iss, client, checks :
             /\ tok = IdToken(s) /\ env = Env(s) /\ iss = spec[s].issuer /\ client = spec[s].client_id
             /\ cfg.algorithms = <<>>
             /\ Configured(cfg, client, iss) /\ Provides(env, iss) /\ iss # "" /\ iss # None /\ client # None
             /\ RouterIdTokenErr(s, s) = FirstErr(checks) /\ DOMAIN checks = {1, 2, 3, 4, 5, 6}
             /\ checks[1] = Check(~Faulty(s, "token", "no id_token"), "IdToken")
             /\ checks[2] = Decoded(tok, cfg, env)
             /\ checks[3] = Required(tok, {"sub", "exp"})
             /\ checks[4] = Check(NonceMatches(tok, s), "IdToken")
             /\ checks[5] = Check(spec[s].skip \/ ~Faulty(s, "userinfo", "no object"), "AttributeError")
             /\ checks[6] = Check(spec[s].skip \/ ~Faulty(s, "userinfo", "sub"), "IdToken")
    BY <1>1, RouterVerdict
  <1>5. GenuineToken(tok, iss, client) /\ tok.nonce = s /\ tok.sub # None
    BY <1>4, IdTokenFacts
  <1>6. Decoded(tok, cfg, env) = "ok"
    <2>1. /\ Configured(cfg, client, iss) /\ Provides(env, iss) /\ iss # "" /\ iss # None /\ client # None
          /\ cfg.algorithms = <<>>
      BY <1>4, Zenon
    <2> QED BY ONLY <1>5, <2>1, DecodedComplete
  <1>7. tok.exp # Never
    BY ONLY <1>5 DEF GenuineToken, Never
  <1>8. ~Faulty(s, "token", "no id_token") /\ ~Faulty(s, "userinfo", "sub") /\ ~Faulty(s, "userinfo", "no object")
    BY NoFault
  <1>9. checks[1] = "ok" /\ checks[4] = "ok" /\ checks[5] = "ok" /\ checks[6] = "ok"
    BY ONLY <1>4, <1>5, <1>8 DEF Check, NonceMatches
  <1>10. checks[3] = "ok"
    BY ONLY <1>4, <1>5, <1>7 DEF Required, Check
  <1>11. \A i \in DOMAIN checks : checks[i] = "ok"
    BY ONLY <1>4, <1>6, <1>9, <1>10
  <1>12. FirstErr(checks) = "ok"
    BY ONLY <1>11, FirstErrNone
  <1> QED BY ONLY <1>3, <1>4, <1>12

\* The logout token of a provider that behaves is accepted.
LEMMA LogoutComplete ==
    ASSUME plan \in Plans, NEW f \in Flows, NEW g \in Flows, SameContext(f, g), spec[f].fault.at = "none",
           spec[g].fault.at = "none", ParseOk(g)
    PROVE  validate_logout_token_sync(LogoutToken(f),
             ValidationConfig(spec[g].client_id, spec[g].issuer, <<>>), Env(g)) = "ok"
  <1>1. PICK tok, env, iss, client, algs :
          /\ tok = LogoutToken(f) /\ env = Env(g) /\ iss = spec[g].issuer /\ client = spec[g].client_id
          /\ algs = <<>>
    OBVIOUS
  <1>2. PICK cfg : cfg = ValidationConfig(client, iss, algs)
    OBVIOUS
  <1>3. Configured(cfg, client, iss) /\ cfg.algorithms \in {algs}
    BY ONLY <1>2, ConfigFacts
  <1>4. iss # "" /\ iss # None /\ client # None
    BY <1>1, PlanFacts DEF ParseOk
  <1>5. ~BadDisco(g, "callback")
    BY GenuineDisco
  <1>6. Provides(env, iss)
    BY <1>1, <1>5, EnvProvides
  <1>7. iss = spec[f].issuer /\ client = spec[f].client_id
    BY <1>1 DEF SameContext
  <1>8. /\ GenuineToken(tok, iss, client) /\ tok.sub # None /\ tok.nonce = None /\ tok.jti
        /\ tok.events = "backchannel-logout"
    BY <1>1, <1>7, LogoutTokenFacts
  <1>9. cfg.algorithms = <<>>
    BY ONLY <1>1, <1>3
  <1>10. Decoded(tok, cfg, env) = "ok"
    BY ONLY <1>3, <1>4, <1>6, <1>8, <1>9, DecodedComplete
  <1>11. validate_token_sync(tok, cfg, env) = "ok"
    BY ONLY <1>3, <1>4, <1>10, HarnessValidates
  <1>12. tok.iss # None /\ tok.aud # {}
    BY ONLY <1>4, <1>8 DEF GenuineToken
  <1>13. validate_logout_token_claims(tok) = "ok"
    BY ONLY <1>8, <1>12, FirstErr4 DEF validate_logout_token_claims, Check, None
  <1>14. validate_logout_token_sync(tok, cfg, env) = "ok"
    BY ONLY <1>11, <1>13, FirstErr2 DEF validate_logout_token_sync
  <1> QED BY ONLY <1>1, <1>2, <1>14

\* The fields of an answer are all recognised.
LEMMA MappedFacts ==
    ASSUME NEW v, DOMAIN v = {"state", "code", "iss"}
    PROVE  DOMAIN _map_params_to_fields(v) # {} /\ "error" \notin DOMAIN _map_params_to_fields(v)
  BY DEF _map_params_to_fields, Recognised, Restrict

\* The answer of a provider that behaves, in the query, is parsed.
LEMMA QueryParses ==
    ASSUME NEW f \in Flows, spec[f].fault.at = "none", spec[f].mode # "jarm"
    PROVE  _parse_callback(f).err = "ok"
  <1>1. PICK p : p = Params(f)
    OBVIOUS
  <1>2. DOMAIN p = {"state", "code", "iss"}
    BY <1>1, AnswerFields
  <1>3. PICK q : q = [x \in DOMAIN p |-> <<p[x]>>]
    OBVIOUS
  <1>4. DOMAIN q = {"state", "code", "iss"}
    BY ONLY <1>2, <1>3
  <1>5. PICK uri : uri = CallbackUri(f)
    OBVIOUS
  <1>6. ~uri.blank /\ uri.scheme = "https" /\ uri.fragment = <<>> /\ uri.query = q
    BY <1>1, <1>3, <1>5 DEF CallbackUri
  <1>7. ~is_jarm_response(uri)
    <2>1. "response" \notin DOMAIN uri.fragment /\ "response" \notin DOMAIN uri.query
      BY ONLY <1>4, <1>6
    <2>2. ASSUME NEW params, "response" \notin DOMAIN params
          PROVE  LET r == _extract_response_param(params) IN ~(r.err # "ok" \/ r.jwt # <<>>)
      BY ONLY <2>2 DEF _extract_response_param
    <2> QED BY ONLY <2>1, <2>2 DEF is_jarm_response
  <1>8. _parse_callback(f) = parse_authorize_callback_response(uri)
    BY <1>5, <1>7 DEF _parse_callback
  <1>9. PICK v : v = [x \in DOMAIN q \cap Recognised |-> q[x][1]]
    OBVIOUS
  <1>10. DOMAIN v = {"state", "code", "iss"}
    BY ONLY <1>4, <1>9 DEF Recognised
  <1>11. DOMAIN _map_params_to_fields(v) # {}
    BY ONLY <1>10, MappedFacts
  <1>12. DOMAIN uri.fragment = {}
    BY ONLY <1>6
  <1>13. parse_authorize_callback_response(uri).err = "ok"
    BY ONLY <1>6, <1>9, <1>11, <1>12 DEF parse_authorize_callback_response
  <1> QED BY ONLY <1>8, <1>13

\* The context in which app.py reads a JARM response of a provider that behaves.
LEMMA JarmContext ==
    ASSUME plan \in Plans, NEW g \in Flows, spec[g].fault.at = "none", ParseOk(g), NEW ctx,
           ctx.address, ctx.issuer = <<>>, ctx.jwks = <<>>, ctx.algorithms = <<>>, NEW env, env = Env(g),
           NEW r, r = _resolve_jarm_context(ctx, env)
    PROVE  /\ r.err = "ok" /\ r.issuer = spec[g].issuer /\ r.algs = {"ES256"}
           /\ r.keys = Keys(spec[g].issuer).keys
  <1>1. PICK disco, jwks, iss : disco = env.disco /\ jwks = env.jwks /\ iss = spec[g].issuer
    OBVIOUS
  <1>2. disco = Disco(g, "callback") /\ jwks = Keys(iss)
    BY <1>1 DEF Env
  <1>3. /\ disco.st = "ok" /\ disco.issuer = spec[g].issuer /\ disco.jwks_uri
        /\ disco.signing_algs = {"ES256"}
    BY <1>2, GenuineDisco
  <1>4. disco.issuer # None /\ disco.issuer # ""
    BY <1>3, PlanFacts DEF ParseOk
  <1>5. validate_jwks_response(jwks) = "ok"
    BY ONLY <1>2, KeysFacts
  <1>6. PICK checks : checks = <<Check(ctx.address, "Configuration"), validate_disco_response(disco),
                               Check(disco.issuer \notin {None, ""}, "Configuration"),
                               validate_jwks_uri(disco), validate_jwks_response(jwks)>>
    OBVIOUS
  <1>7. /\ DOMAIN checks = {1, 2, 3, 4, 5} /\ checks[1] = "ok" /\ checks[2] = "ok" /\ checks[3] = "ok"
        /\ checks[4] = "ok" /\ checks[5] = "ok"
    <2>1. Check(ctx.address, "Configuration") = "ok"
      BY DEF Check
    <2>2. validate_disco_response(disco) = "ok"
      BY ONLY <1>3 DEF Check, validate_disco_response
    <2>3. Check(disco.issuer \notin {None, ""}, "Configuration") = "ok"
      BY ONLY <1>4 DEF Check
    <2>4. validate_jwks_uri(disco) = "ok"
      <3>1. disco.jwks_uri
        BY <1>3, Zenon
      <3> QED BY ONLY <3>1 DEF Check, validate_jwks_uri
    <2>5. PICK a, b, c, d, e :
            /\ a = Check(ctx.address, "Configuration") /\ b = validate_disco_response(disco)
            /\ c = Check(disco.issuer \notin {None, ""}, "Configuration")
            /\ d = validate_jwks_uri(disco) /\ e = validate_jwks_response(jwks)
      OBVIOUS
    <2>6. a = "ok" /\ b = "ok" /\ c = "ok" /\ d = "ok" /\ e = "ok"
      BY ONLY <1>5, <2>1, <2>2, <2>3, <2>4, <2>5
    <2>7. checks = <<a, b, c, d, e>>
      BY ONLY <1>6, <2>5, Zenon
    <2> QED BY ONLY <2>6, <2>7
  <1>8. \A i \in DOMAIN checks : checks[i] = "ok"
    BY ONLY <1>7
  <1>9. FirstErr(checks) = "ok"
    BY ONLY <1>8, FirstErrNone
  <1>10. r = [err |-> FirstErr(checks), issuer |-> disco.issuer, algs |-> disco.signing_algs, keys |-> jwks.keys]
    BY <1>1, <1>6 DEF _resolve_jarm_context
  <1> QED BY <1>1, <1>2, <1>3, <1>9, <1>10

\* A JARM response of a provider that behaves is parsed.
LEMMA JarmParses ==
    ASSUME plan \in Plans, NEW f \in Flows, NEW g \in Flows, g = lastFlow, SameContext(f, g), ParseOk(g),
           spec[f].fault.at = "none", spec[g].fault.at = "none", spec[f].mode = "jarm"
    PROVE  _parse_callback(f).err = "ok"
  <1>1. PICK tok : tok = JarmToken(f)
    OBVIOUS
  <1>2. PICK jwt : jwt = <<tok>>
    OBVIOUS
  <1>3. PICK uri : uri = CallbackUri(f)
    OBVIOUS
  <1>4. ~Faulty(f, "response", "blank") /\ ~Faulty(f, "response", "repeated")
    BY NoFault
  <1>5. ~uri.blank /\ uri.fragment = <<>> /\ uri.query = [response |-> <<jwt>>]
    BY <1>1, <1>2, <1>3, <1>4 DEF CallbackUri
  <1>6. PICK got : got = [err |-> "ok", jwt |-> jwt]
    OBVIOUS
  <1>7. _extract_response_param(uri.query) = got
    BY ONLY <1>5, <1>6 DEF _extract_response_param, Check
  <1>8. _extract_response_param(uri.fragment) = [err |-> "ok", jwt |-> <<>>]
    BY ONLY <1>5 DEF _extract_response_param
  <1>9. got.err = "ok" /\ got.jwt = jwt /\ jwt # <<>> /\ jwt[1] = tok
    BY ONLY <1>2, <1>6
  <1>10. is_jarm_response(uri)
    BY ONLY <1>5, <1>7, <1>9 DEF is_jarm_response
  <1>11. extract_jarm_response_jwt(uri) = got
    BY ONLY <1>5, <1>7, <1>8, <1>9 DEF extract_jarm_response_jwt
  <1>12. lastFlow # ""
    BY PlansAssumption
  <1>13. PICK ctx, env, iss, client :
           /\ ctx = [address |-> lastFlow # "", issuer |-> <<>>, jwks |-> <<>>, algorithms |-> <<>>]
           /\ env = Env(g) /\ iss = spec[g].issuer /\ client = spec[g].client_id
    OBVIOUS
  <1>14. ctx.address /\ ctx.issuer = <<>> /\ ctx.jwks = <<>> /\ ctx.algorithms = <<>>
    BY ONLY <1>12, <1>13
  <1>15. PICK r : r = _resolve_jarm_context(ctx, env)
    OBVIOUS
  <1>16. PICK jwks : jwks = Keys(iss)
    OBVIOUS
  <1>17. r.err = "ok" /\ r.issuer = iss /\ r.algs = {"ES256"} /\ r.keys = jwks.keys
    <2>1. ctx.issuer = <<>> /\ ctx.jwks = <<>> /\ ctx.algorithms = <<>>
      BY ONLY <1>14
    <2>2. ctx.address /\ env = Env(g)
      BY <1>13, <1>14, Zenon
    <2>3. r.err = "ok" /\ r.issuer = spec[g].issuer /\ r.algs = {"ES256"} /\ r.keys = Keys(spec[g].issuer).keys
      BY <1>15, <2>1, <2>2, JarmContext
    <2> QED BY ONLY <1>13, <1>16, <2>3
  <1>18. iss = spec[f].issuer /\ client = spec[f].client_id
    BY <1>13 DEF SameContext
  <1>19. GenuineToken(tok, iss, client) /\ tok.alg = "ES256" /\ tok.claims = Params(f)
    BY <1>1, <1>18, JarmTokenFacts
  <1>20. iss # None /\ client # None
    BY <1>13, PlanFacts
  <1>21. PICK found : found = find_key_by_kid(tok.kid, r.keys, tok.alg)
    OBVIOUS
  <1>22. found = find_key_by_kid(tok.kid, jwks.keys, tok.alg)
    BY ONLY <1>17, <1>21
  <1>23. /\ found.err = "ok" /\ found.alg = tok.alg
         /\ IsKey(found.key) /\ found.key.form = "dict" /\ found.key.kty = KtyOf(tok.alg)
         /\ found.key.mat = tok.mat
    BY ONLY <1>16, <1>19, <1>22, GenuineFound
  <1>24. Decoding(tok, found, client, iss) = "ok"
    BY ONLY <1>19, <1>20, <1>23, GenuineDecodes
  <1>25. PICK algorithms, leeway, none, issuer :
           algorithms = <<tok.alg>> /\ leeway = 0 /\ none = None /\ issuer = {r.issuer}
    OBVIOUS
  <1>26. decode_and_validate_jwt(tok, found.key, algorithms, client, issuer, none, leeway, none) = "ok"
    BY ONLY <1>17, <1>23, <1>24, <1>25 DEF Decoding
  <1>27. tok.wf /\ tok.iss # None /\ tok.aud # {} /\ tok.exp # Never
    BY ONLY <1>19, <1>20 DEF GenuineToken, Never
  <1>28. decode_jarm_claims(tok, found.key, algorithms, r.issuer, client, leeway) = "ok"
    BY ONLY <1>25, <1>26, <1>27, FirstErr2 DEF decode_jarm_claims, Check
  <1>29. extract_jarm_header(tok) = "ok" /\ select_jarm_algorithm(tok.alg, r.algs) = "ok"
    BY ONLY <1>17, <1>19, <1>27 DEF extract_jarm_header, extract_jwt_header_fields, select_jarm_algorithm, Check, None
  <1>30. process_jarm_response(uri, client, ctx, env, leeway) = build_authorize_response_from_claims(tok.claims)
    BY ONLY <1>9, <1>11, <1>15, <1>17, <1>21, <1>23, <1>25, <1>28, <1>29 DEF process_jarm_response
  <1>31. DOMAIN Params(f) = {"state", "code", "iss"}
    BY AnswerFields
  <1>32. DOMAIN _map_params_to_fields(tok.claims) # {}
    BY ONLY <1>19, <1>31, MappedFacts
  <1>33. build_authorize_response_from_claims(tok.claims).err = "ok"
    BY ONLY <1>32 DEF build_authorize_response_from_claims
  <1>34. _parse_callback(f) = process_jarm_response(uri, client, ctx, env, leeway)
    BY <1>3, <1>10, <1>12, <1>13, <1>25 DEF _parse_callback
  <1> QED BY ONLY <1>30, <1>33, <1>34

\* The callback of a provider that behaves is parsed.
LEMMA ParseComplete ==
    ASSUME plan \in Plans, NEW f \in Flows, NEW g \in Flows, g = lastFlow, SameContext(f, g), ParseOk(g),
           spec[f].fault.at = "none", spec[g].fault.at = "none"
    PROVE  _parse_callback(f).err = "ok"
  BY QueryParses, JarmParses

-----------------------------------------------------------------------------
(* The actions of the conformance harness                                  *)

\* The handler of r goes on to its next point.
LEMMA GoesTo ==
    ASSUME HarnessInv, NEW r \in Slots, NEW p, p = req[r], NEW at, Go(r, at)
    PROVE  \E q : /\ req' = [req EXCEPT ![r] = q] /\ IsReq(q) /\ q.op = p.op /\ q.flow = p.flow
                  /\ q.at = at
  <1>1. PICK q : q = [p EXCEPT !.at = at]
    OBVIOUS
  <1>2. IsReq(p)
    BY DEF HarnessInv, HarnessTypes
  <1>3. IsReq(q) /\ q.op = p.op /\ q.flow = p.flow /\ q.at = at
    BY <1>1, <1>2 DEF IsReq
  <1>4. req' = [req EXCEPT ![r] = q]
    BY <1>1 DEF Go
  <1> QED BY <1>3, <1>4

\* The request of a flow that is being started.
LEMMA StartingFacts ==
    ASSUME HarnessInv, NEW r \in Slots, NEW p, p = req[r], p.op \in {"authorize", "discover"}
    PROVE  p.flow \in Flows /\ Concerns(p) = p.flow /\ StartingOK(p)
  <1>1. ReqOK(p)
    BY DEF HarnessInv
  <1>2. Concerns(p) = p.flow
    BY DEF Concerns
  <1>3. p # NoReq
    BY NoReqFacts
  <1> QED BY <1>1, <1>2, <1>3 DEF ReqOK

\* The request of a callback that holds a session.
LEMMA HoldingFacts ==
    ASSUME HarnessInv, NEW r \in Slots, NEW p, p = req[r], p.op = "callback", p.at \notin {"lookup", "pop"}
    PROVE  \E s, c \in Flows : /\ c = p.flow /\ s = Named(c) /\ s = Taken(r) /\ s = Concerns(p)
                               /\ HoldingOK(p, s)
  <1>1. ReqOK(p)
    BY DEF HarnessInv
  <1>2. p # NoReq
    BY NoReqFacts
  <1>3. p.flow \in Flows /\ \E s \in Flows : s = Named(p.flow) /\ HoldingOK(p, s)
    BY <1>1, <1>2 DEF ReqOK
  <1>4. Taken(r) = Named(p.flow) /\ Concerns(p) = Named(p.flow)
    BY DEF Taken, Named, Concerns
  <1> QED BY <1>3, <1>4

\* The request of a callback that has not found its session yet.
LEMMA SeekingFacts ==
    ASSUME HarnessInv, NEW r \in Slots, NEW p, p = req[r], p.op = "callback", p.at \in {"lookup", "pop"}
    PROVE  p.flow \in Flows /\ Concerns(p) = "" /\ App
  <1>1. ReqOK(p)
    BY DEF HarnessInv
  <1>2. p # NoReq
    BY NoReqFacts
  <1>3. Concerns(p) = ""
    BY DEF Concerns
  <1> QED BY <1>1, <1>2, <1>3 DEF ReqOK

\* The issuer of the flow is parsed, or not.
LEMMA ParsedFacts ==
    ASSUME NEW f
    PROVE  parse_discovery_url(spec[f].issuer) = "ok" <=> ParseOk(f)
  BY DEF parse_discovery_url, ParseOk, Check

\* /authorize and /discover of app.py.
LEMMA StartAuthorizeKeeps ==
    ASSUME HarnessInv, NEW r \in Slots, NEW f \in Flows, StartAuthorize(r, f)
    PROVE  HarnessInv'
  <1>1. /\ App /\ Starts(r, f)
        /\ UNCHANGED <<plan, sessions, lastFlow, request_objects, provider, history, clients>>
    BY DEF StartAuthorize
  <1>2. CASE ~ParseOk(f)
    <2>1. _store_test_result(f, "error") /\ UNCHANGED req
      BY <1>2, ParsedFacts DEF StartAuthorize
    <2> QED BY <1>1, <2>1, StartBadKeeps
  <1>3. CASE ParseOk(f)
    <2>1. Serve(r, spec[f].op, f, "discovery") /\ UNCHANGED <<session, test_results>>
      BY <1>3, ParsedFacts DEF StartAuthorize
    <2>2. PICK at : at = "discovery"
      OBVIOUS
    <2>3. Serve(r, spec[f].op, f, at) /\ at = (IF App THEN "discovery" ELSE "login")
      BY <1>1, <2>1, <2>2
    <2> QED BY <1>1, <1>3, <2>1, <2>3, StartServeKeeps
  <1> QED BY <1>2, <1>3

\* /authorize and /discover of app_fastapi.py.
LEMMA StartLoginKeeps ==
    ASSUME HarnessInv, NEW r \in Slots, NEW f \in Flows, StartLogin(r, f)
    PROVE  HarnessInv'
  <1>1. /\ ~App /\ Starts(r, f)
        /\ UNCHANGED <<plan, sessions, lastFlow, request_objects, provider, history>>
    BY DEF StartLogin
  <1>2. CASE ~ParseOk(f)
    <2>1. _store_test_result(f, "error") /\ UNCHANGED <<req, clients>>
      BY <1>2, ParsedFacts DEF StartLogin
    <2> QED BY <1>1, <2>1, StartBadKeeps
  <1>3. CASE ParseOk(f)
    <2>1. /\ Serve(r, spec[f].op, f, "login") /\ UNCHANGED <<session, test_results>>
          /\ clients' = clients \cup {f}
      BY <1>3, ParsedFacts DEF StartLogin
    <2>2. PICK at : at = "login"
      OBVIOUS
    <2>3. Serve(r, spec[f].op, f, at) /\ at = (IF App THEN "discovery" ELSE "login")
      BY <1>1, <2>1, <2>2
    <2> QED BY <1>1, <1>3, <2>1, <2>3, StartServeKeeps
  <1> QED BY <1>2, <1>3

\* The provider fetches the request object.
LEMMA RequestObjectKeeps ==
    ASSUME HarnessInv, NEW f \in Flows, request_object(f)
    PROVE  HarnessInv'
  <1>1. /\ f \in request_objects /\ provider' = [provider EXCEPT !.asked = @ \cup {f}]
        /\ UNCHANGED <<plan, req, sessions, session, lastFlow, request_objects, test_results, clients, begun,
                       history>>
    BY DEF request_object, rp
  <1>2. IsBegun(begun) /\ IsProvider(provider) /\ IsHistory(history)
    BY DEF HarnessInv, HarnessTypes
  <1>3. /\ IsProvider(provider') /\ provider'.redeemed = provider.redeemed
        /\ provider'.asked = provider.asked \cup {f}
    BY <1>1, <1>2 DEF IsProvider
  <1> QED BY <1>1, <1>2, <1>3, QuietKeeps

\* /logout.
LEMMA LogoutKeeps ==
    ASSUME HarnessInv, NEW send, logout(send)
    PROVE  HarnessInv'
  <1>1. /\ begun' = [begun EXCEPT !.logouts = @ + 1]
        /\ UNCHANGED <<plan, req, sessions, session, lastFlow, request_objects, test_results, clients, provider,
                       history>>
    BY DEF logout
  <1>2. IsBegun(begun) /\ IsProvider(provider) /\ IsHistory(history)
    BY DEF HarnessInv, HarnessTypes
  <1>3. IsBegun(begun') /\ begun'.started = begun.started /\ begun'.registered = begun.registered
    BY <1>1, <1>2 DEF IsBegun
  <1> QED BY <1>1, <1>2, <1>3, QuietKeeps

\* One more thing is turned away: nothing that a provider that behaves has sent.
LEMMA TurnedKept ==
    ASSUME HarnessInv, plan' = plan, NEW entry, history'.turned = history.turned \cup {entry},
           \A f, g \in Flows : SameContext(f, g) /\ spec[f].fault.at = "none" /\ spec[g].fault.at = "none" =>
             entry # <<f, g>> /\ entry # <<f, g, "logout">>,
           \A state \in Members(Logouts) : entry # <<state, state>>
    PROVE  TurnedOK'
  <1>1. TurnedOK
    BY DEF HarnessInv, RestOK
  <1>2. spec' = spec
    BY FlowKept
  <1>3. \A f, g : SameContext(f, g)' <=> SameContext(f, g)
    BY VerdictKept
  <1> QED BY <1>1, <1>2, <1>3 DEF TurnedOK

\* Pairs and triples.
LEMMA Tuples ==
    ASSUME NEW a, NEW b, NEW c, NEW d, NEW e
    PROVE  <<a, b>> # <<c, d, e>> /\ (<<a, b>> = <<c, d>> => a = c /\ b = d)
  <1>1. PICK x, y : x = <<a, b>> /\ y = <<c, d, e>>
    OBVIOUS
  <1>2. DOMAIN x = {1, 2} /\ DOMAIN y = {1, 2, 3}
    BY <1>1
  <1>3. x # y
    BY ONLY <1>2
  <1> QED BY <1>1, <1>3

\* /register.
LEMMA RegisterKeeps ==
    ASSUME HarnessInv, NEW r \in Slots, NEW f \in Flows, register(r, f)
    PROVE  HarnessInv'
  <1>1. /\ App
        /\ UNCHANGED <<plan, req, sessions, session, lastFlow, request_objects, test_results, clients, provider>>
    BY DEF register
  <1>2. IsBegun(begun) /\ IsProvider(provider) /\ IsHistory(history)
    BY DEF HarnessInv, HarnessTypes
  <1>3. CASE Registers(f)
    <2>1. begun' = [begun EXCEPT !.registered = @ \cup {f}] /\ UNCHANGED history
      BY <1>3 DEF register
    <2>2. IsBegun(begun') /\ begun'.started = begun.started /\ begun'.registered = begun.registered \cup {f}
      BY <1>2, <2>1 DEF IsBegun
    <2> QED BY <1>1, <1>2, <2>1, <2>2, QuietKeeps
  <1>4. CASE ~Registers(f)
    <2>1. PICK entry : entry = <<f, "", "register">>
      OBVIOUS
    <2>2. history' = [history EXCEPT !.turned = @ \cup {entry}] /\ UNCHANGED begun
      BY <1>4, <2>1 DEF register
    <2>3. /\ IsHistory(history') /\ history'.sent = history.sent /\ history'.cleared = history.cleared
          /\ history'.turned = history.turned \cup {entry}
      BY <1>2, <2>2 DEF IsHistory
    <2>4. ASSUME NEW c, NEW h PROVE entry # <<c, h>> /\ entry # <<c, h, "logout">>
      <3>1. entry # <<c, h>>
        BY ONLY <2>1, Tuples
      <3>2. entry # <<c, h, "logout">>
        BY ONLY <2>1
      <3> QED BY <3>1, <3>2
    <2>5. TurnedOK'
      BY <1>1, <2>3, <2>4, TurnedKept
    <2> QED BY <1>1, <1>2, <2>2, <2>3, <2>5, QuietKeeps
  <1> QED BY <1>3, <1>4

\* The logout endpoint of the RP.
LEMMA BackchannelKeeps ==
    ASSUME HarnessInv, NEW f \in Flows, _receive_backchannel_logout(f)
    PROVE  HarnessInv'
  <1>1. /\ begun' = [begun EXCEPT !.told = @ + 1] /\ lastFlow # ""
        /\ UNCHANGED <<plan, req, sessions, session, lastFlow, request_objects, test_results, clients, provider>>
    BY DEF _receive_backchannel_logout, rp
  <1>2. IsBegun(begun) /\ IsProvider(provider) /\ IsHistory(history) /\ plan \in Plans /\ lastFlow \in Flows \cup {""}
    BY DEF HarnessInv, HarnessTypes
  <1>3. IsBegun(begun') /\ begun'.started = begun.started /\ begun'.registered = begun.registered
    BY <1>1, <1>2 DEF IsBegun
  <1>4. PICK g \in Flows : g = lastFlow
    BY <1>1, <1>2
  <1>5. ParseOk(g)
    BY <1>4 DEF HarnessInv, RestOK
  <1>6. PICK err : err = validate_logout_token_sync(LogoutToken(f),
                           ValidationConfig(spec[g].client_id, spec[g].issuer, <<>>), Env(g))
    OBVIOUS
  <1>7. history' = IF err = "ok" THEN history
                   ELSE [history EXCEPT !.turned = @ \cup {<<f, g, "logout">>}]
    BY <1>4, <1>6 DEF _receive_backchannel_logout
  <1>8. CASE err = "ok"
    BY <1>1, <1>2, <1>3, <1>7, <1>8, QuietKeeps
  <1>9. CASE err # "ok"
    <2>1. PICK entry : entry = <<f, g, "logout">>
      OBVIOUS
    <2>2. /\ IsHistory(history') /\ history'.sent = history.sent /\ history'.cleared = history.cleared
          /\ history'.turned = history.turned \cup {entry}
      BY <1>2, <1>7, <1>9, <2>1 DEF IsHistory
    <2>3. ~(SameContext(f, g) /\ spec[f].fault.at = "none" /\ spec[g].fault.at = "none")
      BY <1>2, <1>5, <1>6, <1>9, LogoutComplete
    <2>4. \A c, h \in Flows : SameContext(c, h) /\ spec[c].fault.at = "none" /\ spec[h].fault.at = "none" =>
            entry # <<c, h>> /\ entry # <<c, h, "logout">>
      <3> SUFFICES ASSUME NEW c \in Flows, NEW h \in Flows, SameContext(c, h), spec[c].fault.at = "none",
                          spec[h].fault.at = "none"
                   PROVE  entry # <<c, h>> /\ entry # <<c, h, "logout">>
        OBVIOUS
      <3>1. entry # <<c, h>>
        BY ONLY <2>1, Tuples
      <3>2. entry = <<c, h, "logout">> => c = f /\ h = g
        BY ONLY <2>1
      <3> QED BY <2>3, <3>1, <3>2
    <2>5. \A state \in Members(Logouts) : entry # <<state, state>>
      BY ONLY <2>1, Tuples
    <2>6. TurnedOK'
      BY <1>1, <2>2, <2>4, <2>5, TurnedKept
    <2> QED BY <1>1, <1>2, <1>3, <2>2, <2>6, QuietKeeps
  <1> QED BY <1>8, <1>9

\* The browser comes back from a logout.
LEMMA PostLogoutKeeps ==
    ASSUME HarnessInv, NEW state \in {None} \cup Members(Logouts), post_logout_callback(state)
    PROVE  HarnessInv'
  <1>1. UNCHANGED <<plan, req, sessions, session, lastFlow, request_objects, test_results, clients, begun, provider>>
    BY DEF post_logout_callback, rp
  <1>2. IsBegun(begun) /\ IsProvider(provider) /\ IsHistory(history)
    BY DEF HarnessInv, HarnessTypes
  <1>3. PICK err : err = validate_post_logout_state(expected, state)
    OBVIOUS
  <1>4. history' = IF err = "ok" THEN history ELSE [history EXCEPT !.turned = @ \cup {<<state, expected>>}]
    BY <1>3 DEF post_logout_callback
  <1>5. CASE err = "ok"
    BY <1>1, <1>2, <1>4, <1>5, QuietKeeps
  <1>6. CASE err # "ok"
    <2>1. PICK entry, known : entry = <<state, known>> /\ known = expected
      OBVIOUS
    <2>2. /\ IsHistory(history') /\ history'.sent = history.sent /\ history'.cleared = history.cleared
          /\ history'.turned = history.turned \cup {entry}
      BY <1>2, <1>4, <1>6, <2>1 DEF IsHistory
    <2>3. \A c, h \in Flows : SameContext(c, h) /\ spec[c].fault.at = "none" /\ spec[h].fault.at = "none" =>
            entry # <<c, h>> /\ entry # <<c, h, "logout">>
      <3>1. state \notin Flows
        BY PlansAssumption
      <3> QED BY ONLY <2>1, <3>1, Tuples
    <2>4. \A st \in Members(Logouts) : entry # <<st, st>>
      <3> SUFFICES ASSUME NEW st \in Members(Logouts), entry = <<st, st>> PROVE FALSE
        OBVIOUS
      <3>1. state = st /\ known = st
        BY ONLY <2>1, entry = <<st, st>>, Tuples
      <3>2. st # "" /\ st # None
        BY PlansAssumption
      <3>3. validate_post_logout_state(known, state) = "ok"
        BY ONLY <3>1, <3>2, FirstErr3 DEF validate_post_logout_state, Check
      <3> QED BY <1>3, <1>6, <2>1, <3>3
    <2>5. TurnedOK'
      BY <1>1, <2>2, <2>3, <2>4, TurnedKept
    <2> QED BY <1>1, <1>2, <2>2, <2>5, QuietKeeps
  <1> QED BY <1>5, <1>6

\* /callback of app.py is opened: the response is parsed.
LEMMA StartCallbackKeeps ==
    ASSUME HarnessInv, NEW r \in Slots, NEW f \in Flows, StartCallback(r, f)
    PROVE  HarnessInv'
  <1>1. /\ App /\ req[r] = NoReq
        /\ UNCHANGED <<plan, sessions, session, lastFlow, request_objects, test_results, clients, begun, provider>>
    BY DEF StartCallback, Opens, Vacant, rp
  <1>2. IsBegun(begun) /\ IsProvider(provider) /\ IsHistory(history) /\ plan \in Plans
    BY DEF HarnessInv, HarnessTypes
  <1>3. PICK parsed, entry : parsed = (_parse_callback(f).err = "ok") /\ entry = <<f, lastFlow>>
    OBVIOUS
  <1>4. /\ history' = [history EXCEPT !.opened[f] = @ + 1,
                                      !.turned = IF parsed THEN @ ELSE @ \cup {entry}]
        /\ IF parsed THEN Serve(r, "callback", f, "lookup") ELSE UNCHANGED req
    BY <1>3 DEF StartCallback
  <1>5. /\ IsHistory(history') /\ history'.sent = history.sent /\ history'.cleared = history.cleared
        /\ history'.turned = IF parsed THEN history.turned ELSE history.turned \cup {entry}
    BY <1>2, <1>4 DEF IsHistory
  <1>6. (App' <=> App) /\ Concerns(NoReq) = ""
    BY <1>1, FlowKept, NoReqFacts
  <1>7. \A p \in {req[r]} : Concerns(p) = ""
    BY <1>1, <1>6
  <1>8. CASE parsed
    <2>1. PICK q : q = [NoReq EXCEPT !.op = "callback", !.flow = f, !.at = "lookup",
                                     !.secret = registered = spec[f].client_id]
      OBVIOUS
    <2>2. req' = [req EXCEPT ![r] = q]
      BY <1>4, <1>8, <2>1 DEF Serve
    <2>3. q.op = "callback" /\ q.flow = f /\ q.at = "lookup" /\ IsReq(q)
      BY <2>1 DEF NoReq, IsReq
    <2>4. Concerns(q) = "" /\ ReqOK(q)'
      BY <1>1, <1>6, <2>3 DEF Concerns, ReqOK
    <2> QED BY <1>1, <1>5, <1>7, <1>8, <2>2, <2>3, <2>4, FreeKeeps
  <1>9. CASE ~parsed
    <2>1. _parse_callback(f).err # "ok" /\ history'.turned = history.turned \cup {entry} /\ UNCHANGED req
      BY <1>3, <1>4, <1>5, <1>9
    <2>2. \A c, h \in Flows : SameContext(c, h) /\ spec[c].fault.at = "none" /\ spec[h].fault.at = "none" =>
            entry # <<c, h>> /\ entry # <<c, h, "logout">>
      <3> SUFFICES ASSUME NEW c \in Flows, NEW h \in Flows, SameContext(c, h), spec[c].fault.at = "none",
                          spec[h].fault.at = "none"
                   PROVE  entry # <<c, h>> /\ entry # <<c, h, "logout">>
        OBVIOUS
      <3>1. entry # <<c, h, "logout">>
        BY ONLY <1>3, Tuples
      <3>2. entry = <<c, h>> => c = f /\ h = lastFlow
        BY ONLY <1>3, Tuples
      <3>3. h = lastFlow => ParseOk(h)
        BY DEF HarnessInv, RestOK
      <3> QED BY <1>2, <2>1, <3>1, <3>2, <3>3, ParseComplete
    <2>3. \A st \in Members(Logouts) : entry # <<st, st>>
      <3>1. f \notin Members(Logouts)
        BY PlansAssumption
      <3> QED BY ONLY <1>3, <3>1, Tuples
    <2>4. TurnedOK'
      BY <1>1, <2>1, <2>2, <2>3, TurnedKept
    <2> QED BY <1>1, <1>2, <1>5, <2>1, <2>4, QuietKeeps
  <1> QED BY <1>8, <1>9

-----------------------------------------------------------------------------
(* Sessions are stored, found and taken                                    *)

\* A session that is stored waits for its callback.
LEMMA WaitingFacts ==
    ASSUME HarnessInv, NEW s \in sessions
    PROVE  /\ s \in Flows /\ ~Busy(s) /\ s \in begun.started /\ history.sent[s] = 0 /\ ParseOk(s)
           /\ App \/ s \in clients
  BY DEF HarnessInv, HarnessTypes, FlowOK

\* A callback takes the session of flow s.
LEMMA TakeKeeps ==
    ASSUME HarnessInv, NEW r \in Slots, \A p \in {req[r]} : Concerns(p) = "", NEW s \in sessions, sessions' = sessions \ {s},
           UNCHANGED <<plan, session, lastFlow, request_objects, test_results, clients, begun, provider>>,
           IsHistory(history'), history'.sent = history.sent, history'.cleared = history.cleared,
           history'.turned = history.turned,
           NEW q, IsReq(q), req' = [req EXCEPT ![r] = q], q.op = "callback", q.flow \in Flows, s = Named(q.flow),
           q.at = IF App THEN "discovery" ELSE "router"
    PROVE  HarnessInv'
  <1>1. HarnessTypes
    BY DEF HarnessInv
  <1>2. /\ s \in Flows /\ ~Busy(s) /\ s \in begun.started /\ history.sent[s] = 0 /\ ParseOk(s)
        /\ App \/ s \in clients
    BY WaitingFacts
  <1>3. /\ req'[r] = q /\ \A o \in Slots \ {r} : req'[o] = req[o]
        /\ req' = [o \in Slots |-> req'[o]] /\ \A o \in Slots : IsReq(req'[o])
    BY SlotBecomes
  <1>4. \A o \in Slots \ {r} : \A u \in {req[o]} : Concerns(u) # s
    BY <1>2, OwnRequest
  <1>5. Concerns(q) = s
    BY DEF Concerns
  <1>6. Frame(r, s)
    BY <1>3, <1>4, <1>5 DEF Frame
  <1>7. HarnessTypes'
    BY <1>1, <1>3 DEF HarnessTypes
  <1>8. RestOK'
    BY RestKept
  <1>9. (App' <=> App) /\ Named(q.flow)' = Named(q.flow) /\ (ParseOk(s)' <=> ParseOk(s)) /\ spec' = spec
    BY FlowKept
  <1>10. ReqOK(q)'
    <2>1. HoldingOK(q, s)'
      BY <1>2, <1>9 DEF HoldingOK
    <2> QED BY <1>2, <1>9, <2>1 DEF ReqOK
  <1>11. FlowOK(s)'
    <2>1. Busy(s)'
      <3>1. q = req'[r] /\ r \in Slots /\ s \in Flows
        BY <1>2, <1>3
      <3> QED BY ONLY <1>5, <1>6, <3>1, BusyAfter
    <2>2. \A c : Own(c, s)' <=> Own(c, s)
      BY VerdictKept
    <2>3. FlowOK(s)
      BY <1>2 DEF HarnessInv
    <2>4. Listed(s) => Listed(s)'
      BY <1>9 DEF Listed
    <2> QED BY <1>2, <1>9, <2>1, <2>2, <2>3, <2>4 DEF FlowOK
  <1> QED BY <1>2, <1>3, <1>6, <1>7, <1>8, <1>10, <1>11, StepKeeps

\* A callback of app.py takes the session of flow s and ends in an error.
LEMMA TakeErrorKeeps ==
    ASSUME HarnessInv, App, NEW r \in Slots, \A p \in {req[r]} : Concerns(p) = "", NEW s \in sessions,
           sessions' = sessions \ {s}, ~Honest(s),
           UNCHANGED <<plan, lastFlow, request_objects, clients, begun, provider, history>>,
           _record_error(r, s)
    PROVE  HarnessInv'
  <1>1. PICK q : q = NoReq
    OBVIOUS
  <1>2. PICK x : x = [session[s] EXCEPT !.status = "error"]
    OBVIOUS
  <1>3. req' = [req EXCEPT ![r] = q] /\ session' = [session EXCEPT ![s] = x] /\ test_results' = Entered(s)
    BY <1>1, <1>2 DEF _record_error, _store_test_result, Done
  <1>4. IsReq(q) /\ Concerns(q) = "" /\ ReqOK(q)'
    BY <1>1, NoReqFacts DEF ReqOK
  <1>5. /\ s \in Flows /\ ~Busy(s) /\ s \in begun.started /\ history.sent[s] = 0 /\ ParseOk(s)
    BY WaitingFacts
  <1>6. HarnessTypes /\ IsSession(session[s])
    BY <1>5 DEF HarnessInv, HarnessTypes
  <1>7. IsSession(x) /\ x.status = "error" /\ x.secret = session[s].secret /\ x.code = session[s].code
    BY <1>2, <1>6 DEF IsSession
  <1>8. /\ session' = [g \in Flows |-> session'[g]] /\ \A g \in Flows : IsSession(session'[g])
        /\ session'[s] = x /\ \A g \in Flows \ {s} : session'[g] = session[g]
        /\ DOMAIN test_results \subseteq DOMAIN test_results'
        /\ \A t \in DOMAIN test_results' :
             \/ test_results'[t] = s
             \/ t \in DOMAIN test_results /\ test_results'[t] = test_results[t]
        /\ \A t \in DOMAIN test_results' : test_results'[t] \in Flows
        /\ Recorded(s)' /\ Listed(s)'
    BY <1>3, <1>5, <1>7, MarkFacts
  <1>9. /\ req'[r] = q /\ \A o \in Slots \ {r} : req'[o] = req[o]
        /\ req' = [o \in Slots |-> req'[o]] /\ \A o \in Slots : IsReq(req'[o])
    BY <1>3, <1>4, SlotBecomes
  <1>10. \A o \in Slots \ {r} : \A u \in {req[o]} : Concerns(u) # s
    BY <1>5, OwnRequest
  <1>11. Frame(r, s)
    BY <1>4, <1>5, <1>8, <1>9, <1>10 DEF Frame
  <1>12. HarnessTypes'
    BY <1>6, <1>8, <1>9 DEF HarnessTypes
  <1>13. RestOK'
    BY RestKept
  <1>14. FlowOK(s)'
    <2>1. ~Busy(s)'
      BY <1>4, <1>5, <1>9, <1>11, BusyAfter, PlansAssumption, ZenonT(30)
    <2>2. spec' = spec /\ (Honest(s)' <=> Honest(s))
      BY <1>7, <1>8, FlowKept, HonestKept
    <2>3. \A c : Own(c, s)' <=> Own(c, s)
      BY VerdictKept
    <2>4. FlowOK(s) /\ clients = {}
      BY <1>5 DEF HarnessInv, RestOK
    <2> QED BY <1>5, <1>7, <1>8, <2>1, <2>2, <2>3, <2>4 DEF FlowOK
  <1> QED BY <1>4, <1>5, <1>9, <1>11, <1>12, <1>13, <1>14, StepKeeps

\* The session of a flow is stored, and the browser is sent to the provider.
LEMMA StoreKeeps ==
    ASSUME HarnessInv, NEW r \in Slots, NEW p, p = req[r], NEW f \in Flows, f = Concerns(p), p.op = "authorize",
           StartingOK(p), p.at # "close", Done(r), sessions' = sessions \cup {f},
           NEW x, IsSession(x), x.code \in {"", session[f].code}, session' = [session EXCEPT ![f] = x],
           x = session[f] \/ Unlisted(f),
           lastFlow' \in {lastFlow, f}, UNCHANGED <<plan, test_results, clients, begun, history>>,
           IsProvider(provider'), provider'.redeemed = provider.redeemed,
           provider.asked \subseteq provider'.asked, provider'.asked \subseteq provider.asked \cup {f},
           request_objects \subseteq request_objects', request_objects' \subseteq request_objects \cup {f}
    PROVE  HarnessInv'
  <1>1. PICK q : q = NoReq
    OBVIOUS
  <1>2. req' = [req EXCEPT ![r] = q] /\ IsReq(q) /\ Concerns(q) = "" /\ ReqOK(q)'
    BY <1>1, NoReqFacts DEF Done, ReqOK
  <1>3. p.flow = f
    BY DEF Concerns
  <1>4. HarnessTypes
    BY DEF HarnessInv
  <1>5. /\ req'[r] = q /\ \A o \in Slots \ {r} : req'[o] = req[o]
        /\ req' = [o \in Slots |-> req'[o]] /\ \A o \in Slots : IsReq(req'[o])
    BY <1>2, SlotBecomes
  <1>6. \A o \in Slots \ {r} : \A u \in {req[o]} : Concerns(u) # f
    BY OwnRequest
  <1>7. /\ session' = [g \in Flows |-> session'[g]] /\ \A g \in Flows : IsSession(session'[g])
        /\ session'[f] = x /\ \A g \in Flows \ {f} : session'[g] = session[g]
    BY <1>4 DEF HarnessTypes
  <1>8. Frame(r, f)
    BY <1>2, <1>5, <1>6, <1>7, ZenonT(30) DEF Frame
  <1>9. HarnessTypes'
    BY <1>4, <1>5, <1>7 DEF HarnessTypes
  <1>10. ParseOk(f) /\ f \in begun.started /\ history.sent[f] = 0 /\ (App \/ f \in clients)
    BY <1>3 DEF StartingOK
  <1>11. RestOK'
    BY <1>10, RestKept
  <1>12. FlowOK(f)'
    <2>1. ~Busy(f)'
      <3>1. q = req'[r] /\ r \in Slots /\ f \in Flows /\ Concerns(q) # f
        BY <1>2, <1>5, PlansAssumption
      <3> QED BY ONLY <1>8, <3>1, BusyAfter
    <2>2. spec' = spec /\ (ParseOk(f)' <=> ParseOk(f)) /\ (App' <=> App)
      BY FlowKept
    <2>3. \A c : Own(c, f)' <=> Own(c, f)
      BY VerdictKept
    <2>4. FlowOK(f)
      BY DEF HarnessInv
    <2>5. Listed(f)'
      BY <1>7, <2>2, <2>4 DEF Listed, Unlisted, FlowOK
    <2>6. session'[f].code # "" => \E c \in Flows : c = session'[f].code /\ Own(c, f)'
      BY <1>7, <2>3, <2>4 DEF FlowOK
    <2> QED BY <1>10, <2>1, <2>2, <2>4, <2>5, <2>6 DEF FlowOK
  <1> QED BY <1>2, <1>5, <1>8, <1>9, <1>11, <1>12, StepKeeps

\* state in sessions
LEMMA FindSessionKeeps ==
    ASSUME HarnessInv, NEW r \in Slots, FindSession(r)
    PROVE  HarnessInv'
  <1>1. PICK p : p = req[r]
    OBVIOUS
  <1>2. p.op = "callback" /\ p.at = "lookup" /\ (Advance(r, "pop") \/ Drop(r))
    BY <1>1 DEF FindSession, At
  <1>3. p.flow \in Flows /\ Concerns(p) = "" /\ App
    BY <1>1, <1>2, SeekingFacts
  <1>4. CASE Advance(r, "pop")
    <2>1. Go(r, "pop") /\ UNCHANGED <<plan, rp, begun, provider, history>>
      BY <1>4 DEF Advance
    <2>2. PICK q : /\ req' = [req EXCEPT ![r] = q] /\ IsReq(q) /\ q.op = p.op /\ q.flow = p.flow
                   /\ q.at = "pop"
      BY <1>1, <2>1, GoesTo
    <2>3. Concerns(q) = "" /\ ReqOK(q)
      BY <1>2, <1>3, <2>2 DEF Concerns, ReqOK
    <2> QED BY <1>1, <1>3, <2>1, <2>2, <2>3, MoveKeeps
  <1>5. CASE Drop(r)
    BY <1>1, <1>3, <1>5, DropKeeps, PlansAssumption
  <1> QED BY <1>2, <1>4, <1>5

\* sessions.pop of app.py.
LEMMA PopSessionKeeps ==
    ASSUME HarnessInv, NEW r \in Slots, PopSession(r)
    PROVE  HarnessInv'
  <1>1. PICK p : p = req[r]
    OBVIOUS
  <1>2. p.op = "callback" /\ p.at = "pop"
    BY <1>1 DEF PopSession, At
  <1>3. p.flow \in Flows /\ Concerns(p) = "" /\ App
    BY <1>1, <1>2, SeekingFacts
  <1>4. PICK s : s = Named(p.flow)
    OBVIOUS
  <1>5. Taken(r) = s
    BY <1>1, <1>4 DEF Taken, Named
  <1>6. CASE s \notin sessions
    <2>1. Drop(r)
      BY <1>5, <1>6 DEF PopSession
    <2> QED BY <1>1, <1>3, <2>1, DropKeeps, PlansAssumption
  <1>7. CASE s \in sessions
    <2>1. /\ sessions' = sessions \ {s}
          /\ UNCHANGED <<plan, lastFlow, request_objects, clients, begun, provider, history>>
          /\ IF validate_authorize_callback_state(Answer(p.flow), s) = "ok"
             THEN Go(r, "discovery") /\ UNCHANGED <<session, test_results>> ELSE _record_error(r, s)
      BY <1>1, <1>5, <1>7 DEF PopSession, Take
    <2>2. CASE validate_authorize_callback_state(Answer(p.flow), s) = "ok"
      <3>1. Go(r, "discovery") /\ UNCHANGED <<session, test_results>>
        BY <2>1, <2>2
      <3>2. PICK q : /\ req' = [req EXCEPT ![r] = q] /\ IsReq(q) /\ q.op = p.op /\ q.flow = p.flow
                     /\ q.at = "discovery"
        BY <1>1, <3>1, GoesTo
      <3>3. IsHistory(history')
        BY <2>1 DEF HarnessInv, HarnessTypes
      <3>4. q.op = "callback" /\ q.flow \in Flows /\ s = Named(q.flow)
        BY <1>2, <1>3, <1>4, <3>2
      <3> QED BY <1>1, <1>3, <1>7, <2>1, <3>1, <3>2, <3>3, <3>4, TakeKeeps
    <2>3. CASE validate_authorize_callback_state(Answer(p.flow), s) # "ok"
      <3>1. s \in Flows
        BY <1>7, WaitingFacts
      <3>2. ~Honest(s)
        BY <1>3, <1>4, <2>3, <3>1, HonestOwn, StateComplete
      <3> QED BY <1>1, <1>3, <1>7, <2>1, <2>3, <3>2, TakeErrorKeeps
    <2> QED BY <2>2, <2>3
  <1> QED BY <1>6, <1>7

-----------------------------------------------------------------------------
(* app.py                                                                  *)

\* A handler of app.py that starts a flow gives up.
LEMMA StartingEnds ==
    ASSUME HarnessInv, App, NEW r \in Slots, NEW p, p = req[r], NEW f, f = p.flow,
           p.op \in {"authorize", "discover"}, Drop(r) \/ Refuse(r, f)
    PROVE  HarnessInv'
  <1>1. f \in Flows /\ Concerns(p) = f /\ StartingOK(p)
    BY StartingFacts
  <1>2. f \notin provider.asked \cup request_objects /\ clients = {}
    BY <1>1 DEF StartingOK, HarnessInv, RestOK
  <1>3. CASE Drop(r)
    BY <1>1, <1>2, <1>3, DropKeeps
  <1>4. CASE Refuse(r, f)
    BY <1>1, <1>2, <1>4, RefuseKeeps
  <1> QED BY <1>3, <1>4

\* Whose handler it is.
LEMMA StartingApp ==
    ASSUME HarnessInv, NEW r \in Slots, NEW p, p = req[r], p.op \in {"authorize", "discover"},
           p.at \in {"discovery", "par"}
    PROVE  App
  BY StartingFacts DEF StartingOK

\* A result of a flow, with the slot free afterwards or the handler at "close".
LEMMA ResultOf ==
    ASSUME HarnessInv, NEW s \in Flows, NEW st, NEW x, x = [session[s] EXCEPT !.status = st]
    PROVE  IsSession(x) /\ x.status = st /\ x.secret = session[s].secret /\ x.code = session[s].code
  <1>1. IsSession(session[s])
    BY DEF HarnessInv, HarnessTypes
  <1> QED BY <1>1 DEF IsSession

\* /discover, answered.
LEMMA DiscoverKeeps ==
    ASSUME HarnessInv, NEW r \in Slots, discover(r)
    PROVE  HarnessInv'
  <1>1. PICK p : p = req[r]
    OBVIOUS
  <1>2. PICK f : f = p.flow
    OBVIOUS
  <1>3. p.op = "discover" /\ p.at = "discovery"
    BY <1>1 DEF discover, At
  <1>4. App /\ f \in Flows /\ Concerns(p) = f /\ StartingOK(p)
    BY <1>1, <1>2, <1>3, StartingFacts, StartingApp
  <1>5. \/ Drop(r) \/ Refuse(r, f)
        \/ /\ _store_test_result(f, "success") /\ Done(r)
           /\ UNCHANGED <<plan, sessions, lastFlow, request_objects, clients, begun, provider, history>>
    BY <1>1, <1>2 DEF discover
  <1>6. CASE Drop(r) \/ Refuse(r, f)
    BY <1>1, <1>2, <1>3, <1>4, <1>6, StartingEnds
  <1>7. CASE /\ _store_test_result(f, "success") /\ Done(r)
             /\ UNCHANGED <<plan, sessions, lastFlow, request_objects, clients, begun, provider, history>>
    <2>1. PICK q : q = NoReq
      OBVIOUS
    <2>2. PICK x : x = [session[f] EXCEPT !.status = "success"]
      OBVIOUS
    <2>3. req' = [req EXCEPT ![r] = q] /\ session' = [session EXCEPT ![f] = x] /\ test_results' = Entered(f)
      BY <1>7, <2>1, <2>2 DEF _store_test_result, Done
    <2>4. IsReq(q) /\ Concerns(q) = "" /\ ReqOK(q)'
      BY <2>1, NoReqFacts DEF ReqOK
    <2>5. IsSession(x) /\ x.status = "success" /\ x.secret = session[f].secret /\ x.code = session[f].code
      BY <1>4, <2>2, ResultOf
    <2>6. Spent(f)
      BY <1>4, <1>7, NothingSpent
    <2>7. clients = {}
      BY <1>4 DEF HarnessInv, RestOK
    <2> QED BY <1>1, <1>4, <1>7, <2>3, <2>4, <2>5, <2>6, <2>7, MarkKeeps
  <1> QED BY <1>5, <1>6, <1>7

\* The session is stored by a handler of app.py.
LEMMA StoreSessionKeeps ==
    ASSUME HarnessInv, NEW r \in Slots, NEW p, p = req[r], NEW f, f = p.flow, p.op = "authorize",
           p.at \in {"discovery", "par"}, StoreSession(r, f)
    PROVE  HarnessInv'
  <1>1. App /\ f \in Flows /\ Concerns(p) = f /\ StartingOK(p)
    BY StartingFacts, StartingApp
  <1>2. PICK x : x = [NoSession EXCEPT !.secret = p.secret]
    OBVIOUS
  <1>3. IsSession(x) /\ x.code = ""
    BY <1>2 DEF IsSession, NoSession
  <1>4. /\ sessions' = sessions \cup {f} /\ session' = [session EXCEPT ![f] = x] /\ lastFlow' = f /\ Done(r)
        /\ UNCHANGED <<plan, test_results, clients, begun, history>>
        /\ request_objects' = (IF spec[f].uri THEN request_objects \cup {f} ELSE request_objects)
        /\ provider' = (IF spec[f].uri THEN provider ELSE [provider EXCEPT !.asked = @ \cup {f}])
    BY <1>2 DEF StoreSession
  <1>5. IsProvider(provider)
    BY DEF HarnessInv, HarnessTypes
  <1>6. /\ IsProvider(provider') /\ provider'.redeemed = provider.redeemed
        /\ provider.asked \subseteq provider'.asked /\ provider'.asked \subseteq provider.asked \cup {f}
    BY <1>4, <1>5 DEF IsProvider
  <1>7. request_objects \subseteq request_objects' /\ request_objects' \subseteq request_objects \cup {f}
    BY <1>4
  <1>8. Unlisted(f) /\ p.at # "close"
    BY <1>1 DEF StartingOK
  <1> QED BY <1>1, <1>3, <1>4, <1>6, <1>7, <1>8, StoreKeeps

\* /authorize, with the discovery document at hand.
LEMMA AuthorizeKeeps ==
    ASSUME HarnessInv, NEW r \in Slots, authorize(r)
    PROVE  HarnessInv'
  <1>1. PICK p : p = req[r]
    OBVIOUS
  <1>2. PICK f : f = p.flow
    OBVIOUS
  <1>3. p.op = "authorize" /\ p.at = "discovery"
    BY <1>1 DEF authorize, At
  <1>4. App /\ f \in Flows /\ Concerns(p) = f /\ StartingOK(p)
    BY <1>1, <1>2, <1>3, StartingFacts, StartingApp
  <1>5. Drop(r) \/ Refuse(r, f) \/ Advance(r, "par") \/ StoreSession(r, f)
    BY <1>1, <1>2 DEF authorize
  <1>6. CASE Drop(r) \/ Refuse(r, f)
    BY <1>1, <1>2, <1>3, <1>4, <1>6, StartingEnds
  <1>7. CASE Advance(r, "par")
    <2>1. Go(r, "par") /\ UNCHANGED <<plan, rp, begun, provider, history>>
      BY <1>7 DEF Advance
    <2>2. PICK q : /\ req' = [req EXCEPT ![r] = q] /\ IsReq(q) /\ q.op = p.op /\ q.flow = p.flow
                   /\ q.at = "par"
      BY <1>1, <2>1, GoesTo
    <2>3. StartingOK(q)
      BY <1>3, <1>4, <2>2 DEF StartingOK
    <2>4. Concerns(q) = f /\ ReqOK(q)
      BY <1>2, <1>3, <1>4, <2>2, <2>3 DEF Concerns, ReqOK
    <2> QED BY <1>1, <1>4, <2>1, <2>2, <2>4, MoveKeeps
  <1>8. CASE StoreSession(r, f)
    BY <1>1, <1>2, <1>3, <1>8, StoreSessionKeeps
  <1> QED BY <1>5, <1>6, <1>7, <1>8

\* The pushed authorization request, answered.
LEMMA AuthorizeFapi2Keeps ==
    ASSUME HarnessInv, NEW r \in Slots, _authorize_fapi2(r)
    PROVE  HarnessInv'
  <1>1. PICK p : p = req[r]
    OBVIOUS
  <1>2. PICK f : f = p.flow
    OBVIOUS
  <1>3. p.op = "authorize" /\ p.at = "par"
    BY <1>1 DEF _authorize_fapi2, At
  <1>4. App
    BY <1>1, <1>3, StartingApp
  <1>5. Refuse(r, f) \/ StoreSession(r, f)
    BY <1>1, <1>2 DEF _authorize_fapi2
  <1>6. CASE Refuse(r, f)
    BY <1>1, <1>2, <1>3, <1>4, <1>6, StartingEnds
  <1>7. CASE StoreSession(r, f)
    BY <1>1, <1>2, <1>3, <1>7, StoreSessionKeeps
  <1> QED BY <1>5, <1>6, <1>7

\* What is known of a callback of app.py that holds a session.
LEMMA HoldingApp ==
    ASSUME HarnessInv, NEW r \in Slots, NEW p, p = req[r], p.op = "callback",
           p.at \in {"discovery", "exchange", "validate", "userinfo"}
    PROVE  \E s, c \in Flows : /\ c = p.flow /\ s = Named(c) /\ s = Taken(r) /\ s = Concerns(p)
                               /\ HoldingOK(p, s) /\ App /\ ParseOk(s) /\ plan \in Plans
                               /\ Honest(s) => c = s /\ spec[s].fault.at = "none"
  <1>1. PICK s, c \in Flows : /\ c = p.flow /\ s = Named(c) /\ s = Taken(r) /\ s = Concerns(p)
                              /\ HoldingOK(p, s)
    BY HoldingFacts
  <1>2. App /\ ParseOk(s)
    BY <1>1 DEF HoldingOK
  <1>3. plan \in Plans
    BY DEF HarnessInv, HarnessTypes
  <1>4. Honest(s) => c = s /\ spec[s].fault.at = "none"
    BY <1>1, HonestOwn
  <1> QED BY <1>1, <1>2, <1>3, <1>4

\* The request of a callback that goes on with its session.
LEMMA HoldsOn ==
    ASSUME HarnessInv, NEW r \in Slots, NEW p, p = req[r], p.op = "callback", NEW c \in Flows, c = p.flow,
           NEW s \in Flows, s = Named(c), NEW at, at \notin {"lookup", "pop"}, Go(r, at)
    PROVE  \E q : /\ req' = [req EXCEPT ![r] = q] /\ IsReq(q) /\ q.op = "callback" /\ q.flow = c /\ q.at = at
                  /\ Concerns(q) = s /\ (HoldingOK(q, s) => ReqOK(q))
  <1>1. PICK q : /\ req' = [req EXCEPT ![r] = q] /\ IsReq(q) /\ q.op = p.op /\ q.flow = p.flow
                 /\ q.at = at
    BY GoesTo
  <1>2. Concerns(q) = s
    BY <1>1 DEF Concerns
  <1>3. HoldingOK(q, s) => ReqOK(q)
    BY <1>1 DEF ReqOK
  <1> QED BY <1>1, <1>2, <1>3

\* The discovery document of the callback, and the checks before the exchange.
LEMMA FetchDiscoveryKeeps ==
    ASSUME HarnessInv, NEW r \in Slots, _fetch_and_validate_discovery(r)
    PROVE  HarnessInv'
  <1>1. PICK p : p = req[r]
    OBVIOUS
  <1>2. p.op = "callback" /\ p.at = "discovery"
    BY <1>1 DEF _fetch_and_validate_discovery, At
  <1>3. PICK s, c \in Flows : /\ c = p.flow /\ s = Named(c) /\ s = Taken(r) /\ s = Concerns(p)
                              /\ HoldingOK(p, s) /\ App /\ ParseOk(s) /\ plan \in Plans
                              /\ Honest(s) => c = s /\ spec[s].fault.at = "none"
    BY <1>1, <1>2, HoldingApp
  <1>4. clients = {}
    BY <1>3 DEF HarnessInv, RestOK
  <1>5. CASE Raises(s, "callback")
    <2>1. Drop(r)
      BY <1>3, <1>5 DEF _fetch_and_validate_discovery
    <2>2. Uncaught(s)
      BY <1>5 DEF Uncaught
    <2>3. ~Honest(s)
      BY <1>3, <1>5, GenuineDisco
    <2> QED BY <1>1, <1>3, <1>4, <2>1, <2>2, <2>3, DropKeeps
  <1>6. CASE /\ ~Raises(s, "callback")
             /\ \/ BadDisco(s, "callback")
                \/ ~_validate_fapi2_callback_issuer(c, s)
                \/ "token_endpoint" \notin Disco(s, "callback").endpoints
                \/ FieldOf(Answer(c), "code") = None
    <2>1. Refuse(r, s)
      BY <1>1, <1>3, <1>6 DEF _fetch_and_validate_discovery
    <2>2. ~Honest(s)
      <3> SUFFICES ASSUME Honest(s) PROVE FALSE
        OBVIOUS
      <3>1. c = s /\ spec[s].fault.at = "none"
        BY <1>3
      <3>2. /\ Disco(s, "callback").issuer = spec[s].issuer /\ Disco(s, "callback").endpoints = AllEndpoints
            /\ ~BadDisco(s, "callback")
        BY <1>3, <3>1, GenuineDisco
      <3>3. /\ Answer(s).ok /\ FieldOf(Answer(s), "code") = s /\ FieldOf(Answer(s), "iss") = spec[s].issuer
        BY <3>1, GenuineAnswer
      <3>4. s # None /\ spec[s].issuer # None /\ spec[s].issuer # ""
        BY <1>3, PlanFacts, PlansAssumption DEF ParseOk
      <3>5. PICK answer, iss, enforce : answer = Answer(s) /\ iss = spec[s].issuer /\ enforce = TRUE
        OBVIOUS
      <3>6. answer.ok
        BY <3>3, <3>5, Zenon
      <3>7. FieldOf(answer, "iss") = iss /\ iss # None /\ iss # ""
        BY <3>3, <3>4, <3>5
      <3>8. validate_authorize_callback_issuer(answer, iss, enforce) = "ok"
        BY ONLY <3>6, <3>7, FirstErr3 DEF validate_authorize_callback_issuer, Check
      <3>9. _validate_fapi2_callback_issuer(s, s)
        BY <3>2, <3>5, <3>8 DEF _validate_fapi2_callback_issuer
      <3>10. "token_endpoint" \in AllEndpoints
        BY DEF AllEndpoints
      <3> QED BY <1>6, <3>1, <3>2, <3>3, <3>4, <3>9, <3>10
    <2> QED BY <1>1, <1>3, <2>1, <2>2, RefuseKeeps
  <1>7. CASE ~Raises(s, "callback") /\ ~BadDisco(s, "callback") /\ _validate_fapi2_callback_issuer(c, s)
             /\ Advance(r, "exchange")
    <2>1. Go(r, "exchange") /\ UNCHANGED <<plan, rp, begun, provider, history>>
      BY <1>7 DEF Advance
    <2>2. PICK at : at = "exchange"
      OBVIOUS
    <2>3. p = req[r] /\ p.op = "callback" /\ c = p.flow /\ s = Named(c) /\ at \notin {"lookup", "pop"} /\ Go(r, at)
      BY <1>1, <1>2, <1>3, <2>1, <2>2
    <2>4. PICK q : /\ req' = [req EXCEPT ![r] = q] /\ IsReq(q) /\ q.op = "callback" /\ q.flow = c /\ q.at = at
                   /\ Concerns(q) = s /\ (HoldingOK(q, s) => ReqOK(q))
      BY <2>3, HoldsOn
    <2>5. Passed(c, s)
      BY <1>7 DEF Passed
    <2>6. HoldingOK(q, s)
      BY <1>2, <1>3, <2>2, <2>4, <2>5 DEF HoldingOK
    <2> QED BY <1>1, <1>3, <2>1, <2>4, <2>6, MoveKeeps
  <1> QED
    <2>1. \/ Raises(s, "callback")
          \/ /\ ~Raises(s, "callback")
             /\ \/ BadDisco(s, "callback")
                \/ ~_validate_fapi2_callback_issuer(c, s)
                \/ "token_endpoint" \notin Disco(s, "callback").endpoints
                \/ FieldOf(Answer(c), "code") = None
          \/ /\ ~Raises(s, "callback") /\ ~BadDisco(s, "callback") /\ _validate_fapi2_callback_issuer(c, s)
             /\ Advance(r, "exchange")
      BY <1>1, <1>3 DEF _fetch_and_validate_discovery
    <2> QED BY <1>5, <1>6, <1>7, <2>1

\* The invariant of a request that holds a session, after the step.
LEMMA HoldsNext ==
    ASSUME plan' = plan, NEW q, q.op = "callback", q.flow \in Flows, q.at \notin {"lookup", "pop"},
           NEW s \in Flows, s = Named(q.flow), HoldingOK(q, s)'
    PROVE  ReqOK(q)'
  <1>1. Named(q.flow)' = Named(q.flow)
    BY FlowKept
  <1> QED BY <1>1 DEF ReqOK

\* A code goes out, and may be redeemed.
LEMMA SentFacts ==
    ASSUME HarnessInv, NEW c \in Flows, NEW s \in Flows, s = Named(c), history.sent[s] = 0,
           history' = [history EXCEPT !.sent[s] = @ + 1],
           provider' = provider \/ provider' = [provider EXCEPT !.redeemed = @ \cup {c}]
    PROVE  Spent(s)
  <1>1. /\ IsProvider(provider) /\ IsHistory(history) /\ provider.redeemed \subseteq Flows
        /\ history.sent = [f \in Flows |-> history.sent[f]]
    BY DEF HarnessInv, HarnessTypes
  <1>2. /\ IsHistory(history') /\ history'.turned = history.turned /\ history'.cleared = history.cleared
        /\ history'.sent = [history.sent EXCEPT ![s] = history.sent[s] + 1]
    BY <1>1 DEF IsHistory
  <1>3. /\ history'.sent = [f \in Flows |-> history'.sent[f]] /\ history'.sent[s] = 1
        /\ \A g \in Flows \ {s} : history'.sent[g] = history.sent[g]
    BY <1>1, <1>2
  <1>4. /\ IsProvider(provider') /\ provider'.asked = provider.asked
        /\ provider'.redeemed \subseteq provider.redeemed \cup {c}
    BY <1>1 DEF IsProvider
  <1>5. StateOf(c) = s
    BY NamedState
  <1> QED BY <1>1, <1>2, <1>3, <1>4, <1>5 DEF Spent

\* The code of a flow whose provider behaves is redeemed.
LEMMA RedeemComplete ==
    ASSUME HarnessInv, NEW s \in Flows, Honest(s), spec[s].fault.at = "none", history.sent[s] = 0, NEW verifier,
           App \/ s \in begun.started
    PROVE  Redeems(s, s, verifier)
  <1>1. s \notin provider.redeemed
    <2>1. StateOf(s) = s
      BY AnswerFields
    <2> QED BY <2>1 DEF HarnessInv, RestOK, RedeemedOK
  <1>2. ~Faulty(s, "token", "refused")
    BY NoFault
  <1>3. spec[s].dyn => session[s].secret
    <2>1. CASE App
      BY <2>1 DEF Honest
    <2>2. CASE ~App
      BY <2>2 DEF HarnessInv, RestOK, FlowOK
    <2> QED BY <2>1, <2>2
  <1> QED BY <1>1, <1>2, <1>3 DEF Redeems

\* The code is exchanged.
LEMMA ExchangeKeeps ==
    ASSUME HarnessInv, NEW r \in Slots, Exchange(r)
    PROVE  HarnessInv'
  <1>1. PICK p : p = req[r]
    OBVIOUS
  <1>2. p.op = "callback" /\ p.at = "exchange"
    BY <1>1 DEF Exchange, At
  <1>3. PICK s, c \in Flows : /\ c = p.flow /\ s = Named(c) /\ s = Taken(r) /\ s = Concerns(p)
                              /\ HoldingOK(p, s) /\ App /\ ParseOk(s) /\ plan \in Plans
                              /\ Honest(s) => c = s /\ spec[s].fault.at = "none"
    BY <1>1, <1>2, HoldingApp
  <1>4. PICK t, ok : /\ t = _build_auth_code_token_request(s)
                     /\ ok = (Redeems(c, s, t.verifier) /\ t.endpoint # None)
    OBVIOUS
  <1>5. /\ history' = [history EXCEPT !.sent[s] = @ + 1]
        /\ UNCHANGED <<plan, sessions, lastFlow, request_objects, clients, begun>>
        /\ IF ok
           THEN /\ provider' = [provider EXCEPT !.redeemed = @ \cup {c}]
                /\ IF Faulty(c, "token", "no data") THEN _record_error(r, s)
                   ELSE /\ IF Faulty(c, "token", "no object") THEN Done(r) ELSE Go(r, "validate")
                        /\ UNCHANGED <<session, test_results>>
           ELSE _record_error(r, s) /\ UNCHANGED provider
    BY <1>1, <1>3, <1>4 DEF Exchange
  <1>6. history.sent[s] = 0 /\ Passed(c, s) /\ s \in begun.started /\ clients = {}
    BY <1>2, <1>3 DEF HoldingOK, HarnessInv, RestOK
  <1>7. Spent(s)
    BY <1>3, <1>5, <1>6, SentFacts
  <1>8. CASE ok /\ ~Faulty(c, "token", "no data") /\ ~Faulty(c, "token", "no object")
    <2>1. PICK at : at = "validate"
      OBVIOUS
    <2>2. Go(r, at) /\ UNCHANGED <<session, test_results>>
      BY <1>5, <1>8, <2>1
    <2>3. p = req[r] /\ p.op = "callback" /\ c = p.flow /\ s = Named(c) /\ at \notin {"lookup", "pop"}
      BY <1>1, <1>2, <1>3, <2>1
    <2>4. PICK q : /\ req' = [req EXCEPT ![r] = q] /\ IsReq(q) /\ q.op = "callback" /\ q.flow = c /\ q.at = at
                   /\ Concerns(q) = s /\ (HoldingOK(q, s) => ReqOK(q))
      BY <2>2, <2>3, HoldsOn
    <2>5. (App' <=> App) /\ (ParseOk(s)' <=> ParseOk(s)) /\ (Passed(c, s)' <=> Passed(c, s))
      BY <1>5, FlowKept, VerdictKept
    <2>6. HoldingOK(q, s)'
      BY <1>3, <1>5, <1>6, <2>1, <2>4, <2>5 DEF HoldingOK
    <2>7. ReqOK(q)'
      BY <1>5, <2>3, <2>4, <2>6, HoldsNext
    <2> QED BY <1>1, <1>3, <1>5, <1>7, <2>2, <2>4, <2>7, HoldKeeps
  <1>9. CASE ~ok \/ Faulty(c, "token", "no data")
    <2>1. _record_error(r, s)
      BY <1>5, <1>9
    <2>2. ~Honest(s)
      <3> SUFFICES ASSUME Honest(s) PROVE FALSE
        OBVIOUS
      <3>1. c = s /\ spec[s].fault.at = "none"
        BY <1>3
      <3>2. Redeems(c, s, t.verifier)
        BY <1>3, <1>6, <3>1, RedeemComplete
      <3>3. t.endpoint # None
        <4>1. spec[s].mode = "mtls" => "token_endpoint" \in Disco(s, "callback").aliases
          BY DEF Disco
        <4>2. t.endpoint \in {"mtls", "plain"}
          BY <1>4, <4>1 DEF _build_auth_code_token_request, resolve_mtls_endpoint
        <4> QED BY <4>2 DEF None
      <3>4. ~Faulty(c, "token", "no data")
        BY <3>1, NoFault
      <3> QED BY <1>4, <1>9, <3>2, <3>3, <3>4
    <2>3. PICK q : q = NoReq
      OBVIOUS
    <2>4. PICK x : x = [session[s] EXCEPT !.status = "error"]
      OBVIOUS
    <2>5. req' = [req EXCEPT ![r] = q] /\ session' = [session EXCEPT ![s] = x] /\ test_results' = Entered(s)
      BY <2>1, <2>3, <2>4 DEF _record_error, _store_test_result, Done
    <2>6. IsReq(q) /\ Concerns(q) = "" /\ ReqOK(q)'
      BY <2>3, NoReqFacts DEF ReqOK
    <2>7. IsSession(x) /\ x.status = "error" /\ x.secret = session[s].secret /\ x.code = session[s].code
      BY <2>4, ResultOf
    <2> QED BY <1>1, <1>3, <1>5, <1>6, <1>7, <2>2, <2>5, <2>6, <2>7, MarkKeeps
  <1>10. CASE ok /\ ~Faulty(c, "token", "no data") /\ Faulty(c, "token", "no object")
    <2>1. PICK q : q = NoReq
      OBVIOUS
    <2>2. req' = [req EXCEPT ![r] = q] /\ UNCHANGED <<session, test_results>>
      BY <1>5, <1>10, <2>1 DEF Done
    <2>3. IsReq(q) /\ Concerns(q) = "" /\ ReqOK(q)'
      BY <2>1, NoReqFacts DEF ReqOK
    <2>4. Uncaught(s)
      BY <1>3, <1>10, UncaughtBy
    <2>5. ~Honest(s)
      BY <1>3, <1>10, NoFault
    <2> QED BY <1>1, <1>3, <1>5, <1>6, <1>7, <2>2, <2>3, <2>4, <2>5, GoneKeeps
  <1> QED BY <1>8, <1>9, <1>10

\* The ID token is validated.
LEMMA ValidateIdTokenKeeps ==
    ASSUME HarnessInv, NEW r \in Slots, ValidateIdToken(r)
    PROVE  HarnessInv'
  <1>1. PICK p : p = req[r]
    OBVIOUS
  <1>2. p.op = "callback" /\ p.at = "validate"
    BY <1>1 DEF ValidateIdToken, At
  <1>3. PICK s, c \in Flows : /\ c = p.flow /\ s = Named(c) /\ s = Taken(r) /\ s = Concerns(p)
                              /\ HoldingOK(p, s) /\ App /\ ParseOk(s) /\ plan \in Plans
                              /\ Honest(s) => c = s /\ spec[s].fault.at = "none"
    BY <1>1, <1>2, HoldingApp
  <1>4. Passed(c, s) /\ s \in begun.started /\ clients = {}
    BY <1>2, <1>3 DEF HoldingOK, HarnessInv, RestOK
  <1>5. IF Verified(c, s) THEN Advance(r, "userinfo")
        ELSE IF IdTokenErr(c, s) \in {"ok"} \cup TokenValidationErrors THEN Refuse(r, s) ELSE Drop(r)
    BY <1>1, <1>3 DEF ValidateIdToken, Verified
  <1>6. Honest(s) => Verified(c, s)
    BY <1>3, SyncComplete DEF Verified
  <1>7. CASE Verified(c, s)
    <2>1. PICK at : at = "userinfo"
      OBVIOUS
    <2>2. Go(r, at) /\ UNCHANGED <<plan, rp, begun, provider, history>>
      BY <1>5, <1>7, <2>1 DEF Advance
    <2>3. p = req[r] /\ p.op = "callback" /\ c = p.flow /\ s = Named(c) /\ at \notin {"lookup", "pop"}
      BY <1>1, <1>2, <1>3, <2>1
    <2>4. PICK q : /\ req' = [req EXCEPT ![r] = q] /\ IsReq(q) /\ q.op = "callback" /\ q.flow = c /\ q.at = at
                   /\ Concerns(q) = s /\ (HoldingOK(q, s) => ReqOK(q))
      BY <2>2, <2>3, HoldsOn
    <2>5. HoldingOK(q, s)
      BY <1>3, <1>4, <1>7, <2>1, <2>4 DEF HoldingOK
    <2> QED BY <1>1, <1>3, <2>2, <2>4, <2>5, MoveKeeps
  <1>8. CASE ~Verified(c, s) /\ Refuse(r, s)
    BY <1>1, <1>3, <1>6, <1>8, RefuseKeeps
  <1>9. CASE ~Verified(c, s) /\ IdTokenErr(c, s) \notin {"ok"} \cup TokenValidationErrors /\ Drop(r)
    <2>1. ~BadDisco(s, "callback")
      BY <1>4 DEF Passed
    <2>2. Faulty(c, "token", "malformed")
      BY <1>3, <1>9, <2>1, SyncErr
    <2>3. Uncaught(s)
      BY <1>3, <2>2, UncaughtBy
    <2> QED BY <1>1, <1>3, <1>4, <1>6, <1>9, <2>3, DropKeeps
  <1> QED BY <1>5, <1>7, <1>8, <1>9

\* The end of a callback of app.py.
LEMMA FinishCallbackKeeps ==
    ASSUME HarnessInv, NEW r \in Slots, FinishCallback(r)
    PROVE  HarnessInv'
  <1>1. PICK p : p = req[r]
    OBVIOUS
  <1>2. p.op = "callback" /\ p.at = "userinfo"
    BY <1>1 DEF FinishCallback, At
  <1>3. PICK s, c \in Flows : /\ c = p.flow /\ s = Named(c) /\ s = Taken(r) /\ s = Concerns(p)
                              /\ HoldingOK(p, s) /\ App /\ ParseOk(s) /\ plan \in Plans
                              /\ Honest(s) => c = s /\ spec[s].fault.at = "none"
    BY <1>1, <1>2, HoldingApp
  <1>4. Passed(c, s) /\ Verified(c, s) /\ clients = {}
    BY <1>2, <1>3 DEF HoldingOK, HarnessInv, RestOK
  <1>5. CASE Unhashable(c, s)
    <2>1. Drop(r)
      BY <1>1, <1>3, <1>5 DEF FinishCallback
    <2>2. Uncaught(s)
      BY <1>3, <1>5, UncaughtBy
    <2>3. ~Honest(s)
      BY <1>3, <1>5, NoFault DEF Unhashable
    <2> QED BY <1>1, <1>3, <1>4, <2>1, <2>2, <2>3, DropKeeps
  <1>6. CASE ~Unhashable(c, s) /\ ~_fetch_userinfo(c, s)
    <2>1. Refuse(r, s)
      BY <1>1, <1>3, <1>6 DEF FinishCallback
    <2>2. spec[c].fault.at = "none" => /\ ~Faulty(c, "userinfo", "down") /\ ~Faulty(c, "userinfo", "sub")
                                       /\ ~Faulty(c, "userinfo", "no object") /\ ~Faulty(c, "token", "access_token")
      BY NoFault
    <2>3. ~Honest(s)
      BY <1>3, <1>6, <2>2 DEF _fetch_userinfo
    <2> QED BY <1>1, <1>3, <2>1, <2>3, RefuseKeeps
  <1>7. CASE ~Unhashable(c, s) /\ _fetch_userinfo(c, s)
    <2>1. PICK code, ends : /\ code = (IF Faulty(c, "token", "no id_token") THEN "" ELSE c)
                            /\ ends = ("end_session_endpoint" \in Disco(s, "callback").endpoints)
      OBVIOUS
    <2>2. PICK x : x = [session[s] EXCEPT !.status = "success", !.code = code, !.ends = ends]
      OBVIOUS
    <2>3. PICK q : q = NoReq
      OBVIOUS
    <2>4. /\ session' = [session EXCEPT ![s].status = "success", ![s].code = code, ![s].ends = ends]
          /\ test_results' = Entered(s) /\ Done(r)
          /\ UNCHANGED <<plan, sessions, lastFlow, request_objects, clients, begun, provider, history>>
      BY <1>1, <1>3, <1>7, <2>1 DEF FinishCallback
    <2>5. session = [f \in Flows |-> session[f]] /\ IsSession(session[s])
      BY DEF HarnessInv, HarnessTypes
    <2>6. session' = [session EXCEPT ![s] = x]
      BY <2>2, <2>4, <2>5
    <2>7. IsSession(x) /\ x.status = "success" /\ x.secret = session[s].secret /\ x.code = code
      BY <2>2, <2>5 DEF IsSession
    <2>8. x.code \in {"", session[s].code} \/ (\E g \in Flows : g = x.code /\ Own(g, s))
      BY <1>3, <1>4, <2>1, <2>7, OwnSync
    <2>9. req' = [req EXCEPT ![r] = q] /\ IsReq(q) /\ Concerns(q) = "" /\ ReqOK(q)'
      BY <2>3, <2>4, NoReqFacts DEF Done, ReqOK
    <2>10. Spent(s)
      BY <2>4, NothingSpent
    <2> QED BY <1>1, <1>3, <1>4, <2>4, <2>6, <2>7, <2>8, <2>9, <2>10, MarkKeeps, ZenonT(30)
  <1> QED BY <1>5, <1>6, <1>7

-----------------------------------------------------------------------------
(* app_fastapi.py                                                          *)

\* A handler of app_fastapi.py records an error or a success and goes on to close the client.
LEMMA CloseKeeps ==
    ASSUME HarnessInv, ~App, NEW r \in Slots, NEW p, p = req[r], NEW f, f = p.flow,
           p.op \in {"authorize", "discover"}, NEW st \in {"success", "error"}, Close(r, f, st)
    PROVE  HarnessInv'
  <1>1. f \in Flows /\ Concerns(p) = f /\ StartingOK(p)
    BY StartingFacts
  <1>2. f \notin provider.asked \cup request_objects /\ f \in begun.started /\ ParseOk(f) /\ history.sent[f] = 0
    BY <1>1 DEF StartingOK
  <1>3. PICK x : x = [session[f] EXCEPT !.status = st]
    OBVIOUS
  <1>4. /\ session' = [session EXCEPT ![f] = x] /\ test_results' = Entered(f) /\ Go(r, "close")
        /\ UNCHANGED <<plan, sessions, lastFlow, request_objects, clients, begun, provider, history>>
    BY <1>3 DEF Close, _store_test_result
  <1>5. IsSession(x) /\ x.status = st /\ x.secret = session[f].secret /\ x.code = session[f].code
    BY <1>1, <1>3, ResultOf
  <1>6. PICK q : /\ req' = [req EXCEPT ![r] = q] /\ IsReq(q) /\ q.op = p.op /\ q.flow = p.flow
                 /\ q.at = "close"
    BY <1>4, GoesTo
  <1>7. Concerns(q) = f
    BY <1>6 DEF Concerns
  <1>8. (App' <=> App) /\ (ParseOk(f)' <=> ParseOk(f))
    BY <1>4, FlowKept
  <1>9. StartingOK(q)'
    BY <1>2, <1>4, <1>6, <1>8 DEF StartingOK
  <1>10. ReqOK(q)'
    BY <1>1, <1>6, <1>9 DEF ReqOK
  <1>11. Spent(f)
    BY <1>1, <1>4, NothingSpent
  <1> QED BY <1>1, <1>4, <1>5, <1>6, <1>7, <1>10, <1>11, MarkKeeps

\* /login, answered.
LEMMA LoginKeeps ==
    ASSUME HarnessInv, NEW r \in Slots, Login(r)
    PROVE  HarnessInv'
  <1>1. PICK p : p = req[r]
    OBVIOUS
  <1>2. PICK f : f = p.flow
    OBVIOUS
  <1>3. p.op \in {"authorize", "discover"} /\ p.at = "login"
    BY <1>1 DEF Login
  <1>4. f \in Flows /\ Concerns(p) = f /\ StartingOK(p)
    BY <1>1, <1>2, <1>3, StartingFacts
  <1>5. ~App /\ f \in clients /\ f \notin provider.asked \cup request_objects
    BY <1>2, <1>3, <1>4 DEF StartingOK
  <1>6. \/ Advance(r, "close") \/ (Raises(f, "authorize") /\ Drop(r))
        \/ Close(r, f, "error") \/ Close(r, f, "success")
        \/ /\ p.op = "authorize" /\ sessions' = sessions \cup {f} /\ provider' = [provider EXCEPT !.asked = @ \cup {f}]
           /\ Done(r)
           /\ UNCHANGED <<plan, session, lastFlow, request_objects, test_results, clients, begun, history>>
    BY <1>1, <1>2, <1>3 DEF Login, LoginFailed
  <1>7. CASE Advance(r, "close")
    <2>1. Go(r, "close") /\ UNCHANGED <<plan, rp, begun, provider, history>>
      BY <1>7 DEF Advance
    <2>2. PICK q : /\ req' = [req EXCEPT ![r] = q] /\ IsReq(q) /\ q.op = p.op /\ q.flow = p.flow
                   /\ q.at = "close"
      BY <1>1, <2>1, GoesTo
    <2>3. StartingOK(q)
      BY <1>3, <1>4, <1>5, <2>2 DEF StartingOK
    <2>4. Concerns(q) = f /\ ReqOK(q)
      BY <1>2, <1>3, <1>4, <2>2, <2>3 DEF Concerns, ReqOK
    <2> QED BY <1>1, <1>4, <2>1, <2>2, <2>4, MoveKeeps
  <1>8. CASE Raises(f, "authorize") /\ Drop(r)
    BY <1>1, <1>4, <1>5, <1>8, DropKeeps
  <1>9. CASE Close(r, f, "error") \/ Close(r, f, "success")
    BY <1>1, <1>2, <1>3, <1>5, <1>9, CloseKeeps
  <1>10. CASE /\ p.op = "authorize" /\ sessions' = sessions \cup {f} /\ provider' = [provider EXCEPT !.asked = @ \cup {f}]
              /\ Done(r)
              /\ UNCHANGED <<plan, session, lastFlow, request_objects, test_results, clients, begun, history>>
    <2>1. PICK x : x = session[f]
      OBVIOUS
    <2>2. IsProvider(provider) /\ session = [g \in Flows |-> session[g]] /\ IsSession(session[f])
      BY <1>4 DEF HarnessInv, HarnessTypes
    <2>3. session' = [session EXCEPT ![f] = x] /\ IsSession(x) /\ x.code \in {"", session[f].code}
      BY <1>10, <2>1, <2>2
    <2>4. /\ IsProvider(provider') /\ provider'.redeemed = provider.redeemed
          /\ provider.asked \subseteq provider'.asked /\ provider'.asked \subseteq provider.asked \cup {f}
      BY <1>10, <2>2 DEF IsProvider
    <2>5. p.at # "close" /\ lastFlow' \in {lastFlow, f} /\ f = Concerns(p) /\ p = req[r] /\ p.op = "authorize" /\ Done(r)
      BY <1>1, <1>3, <1>4, <1>10
    <2>6. /\ request_objects \subseteq request_objects' /\ request_objects' \subseteq request_objects \cup {f}
          /\ UNCHANGED <<plan, test_results, clients, begun, history>> /\ sessions' = sessions \cup {f}
      BY <1>10
    <2>7. HarnessInv /\ r \in Slots /\ f \in Flows /\ StartingOK(p) /\ (x = session[f] \/ Unlisted(f))
      BY <1>4, <2>1
    <2> QED BY ONLY <2>3, <2>4, <2>5, <2>6, <2>7, StoreKeeps
  <1> QED BY <1>6, <1>7, <1>8, <1>9, <1>10

\* The callback of app_fastapi.py pops its flow.
LEMMA PopFlowKeeps ==
    ASSUME HarnessInv, NEW r \in Slots, NEW f \in Flows, _pop_flow(r, f)
    PROVE  HarnessInv'
  <1>1. /\ ~App /\ req[r] = NoReq /\ history' = [history EXCEPT !.opened[f] = @ + 1]
        /\ UNCHANGED <<plan, session, lastFlow, request_objects, test_results, clients, begun, provider>>
    BY DEF _pop_flow, Opens, Vacant
  <1>2. IsBegun(begun) /\ IsProvider(provider) /\ IsHistory(history)
    BY DEF HarnessInv, HarnessTypes
  <1>3. /\ IsHistory(history') /\ history'.sent = history.sent /\ history'.cleared = history.cleared
        /\ history'.turned = history.turned
    BY <1>1, <1>2 DEF IsHistory
  <1>4. PICK s : s = Named(f)
    OBVIOUS
  <1>5. IF s \in sessions THEN sessions' = sessions \ {s} /\ Serve(r, "callback", f, "router")
        ELSE UNCHANGED <<sessions, req>>
    BY <1>4 DEF _pop_flow, Named, Take
  <1>6. \A p \in {req[r]} : Concerns(p) = ""
    BY <1>1, NoReqFacts
  <1>7. CASE s \in sessions
    <2>1. PICK q : q = [NoReq EXCEPT !.op = "callback", !.flow = f, !.at = "router",
                                     !.secret = registered = spec[f].client_id]
      OBVIOUS
    <2>2. req' = [req EXCEPT ![r] = q] /\ sessions' = sessions \ {s}
      BY <1>5, <1>7, <2>1 DEF Serve
    <2>3. q.op = "callback" /\ q.flow \in Flows /\ s = Named(q.flow) /\ q.at = "router" /\ IsReq(q)
      BY <1>4, <2>1 DEF NoReq, IsReq
    <2> QED BY <1>1, <1>3, <1>6, <1>7, <2>2, <2>3, TakeKeeps
  <1>8. CASE s \notin sessions
    BY <1>1, <1>2, <1>3, <1>5, <1>8, QuietKeeps
  <1> QED BY <1>7, <1>8

\* What is known of a callback of app_fastapi.py that holds a session.
LEMMA HoldingFastapi ==
    ASSUME HarnessInv, NEW r \in Slots, NEW p, p = req[r], p.op = "callback", p.at \in {"router", "session"}
    PROVE  \E s, c \in Flows : /\ c = p.flow /\ s = Named(c) /\ s = Taken(r) /\ s = Concerns(p)
                               /\ HoldingOK(p, s) /\ ~App /\ ParseOk(s) /\ plan \in Plans
                               /\ Honest(s) => c = s /\ spec[s].fault.at = "none"
  <1>1. PICK s, c \in Flows : /\ c = p.flow /\ s = Named(c) /\ s = Taken(r) /\ s = Concerns(p)
                              /\ HoldingOK(p, s)
    BY HoldingFacts
  <1>2. ~App /\ ParseOk(s)
    BY <1>1 DEF HoldingOK
  <1>3. plan \in Plans
    BY DEF HarnessInv, HarnessTypes
  <1>4. Honest(s) => c = s /\ spec[s].fault.at = "none"
    BY <1>1, HonestOwn
  <1> QED BY <1>1, <1>2, <1>3, <1>4

\* A callback of app_fastapi.py records how it ended and goes on to close the client.
LEMMA CloseCallbackKeeps ==
    ASSUME HarnessInv, ~App, NEW r \in Slots, NEW p, p = req[r], p.op = "callback", NEW s \in Flows, NEW c \in Flows,
           c = p.flow, s = Named(c), s = Concerns(p), HoldingOK(p, s), Spent(s), Go(r, "close"),
           UNCHANGED <<plan, sessions, lastFlow, request_objects, clients, begun>>,
           NEW st \in {"success", "error"}, NEW x, IsSession(x), x.status = st, x.secret = session[s].secret,
           x.code \in {"", session[s].code} \/ (\E g \in Flows : g = x.code /\ Own(g, s)),
           session' = [session EXCEPT ![s] = x], test_results' = Entered(s),
           Honest(s) => st = "success"
    PROVE  HarnessInv'
  <1>1. PICK at : at = "close"
    OBVIOUS
  <1>2. /\ Go(r, at) /\ at \notin {"lookup", "pop"} /\ HarnessInv /\ r \in Slots /\ p = req[r] /\ p.op = "callback"
        /\ c \in Flows /\ s \in Flows /\ c = p.flow /\ s = Named(c)
    BY <1>1
  <1>3. PICK q : /\ req' = [req EXCEPT ![r] = q] /\ IsReq(q) /\ q.op = "callback" /\ q.flow = c /\ q.at = at
                 /\ Concerns(q) = s /\ (HoldingOK(q, s) => ReqOK(q))
    BY ONLY <1>2, HoldsOn
  <1>4. session'[s] = x /\ Recorded(s)'
    BY MarkFacts
  <1>5. (App' <=> App) /\ (ParseOk(s)' <=> ParseOk(s)) /\ (Honest(s)' <=> Honest(s))
    BY <1>4, FlowKept, HonestKept
  <1>6. s \in begun.started /\ ParseOk(s)
    BY DEF HoldingOK
  <1>7. HoldingOK(q, s)'
    BY <1>1, <1>3, <1>4, <1>5, <1>6 DEF HoldingOK
  <1>8. q.flow \in Flows /\ s = Named(q.flow) /\ q.op = "callback" /\ q.at \notin {"lookup", "pop"}
    BY <1>2, <1>3
  <1>9. ReqOK(q)'
    BY <1>7, <1>8, HoldsNext
  <1>10. Concerns(q) \in {"", s} /\ Concerns(q) = s /\ IsReq(q) /\ req' = [req EXCEPT ![r] = q]
    BY <1>3
  <1> QED BY <1>9, <1>10, MarkKeeps

\* The router's verdict on a callback.
LEMMA CallbackKeeps ==
    ASSUME HarnessInv, NEW r \in Slots, Callback(r)
    PROVE  HarnessInv'
  <1>1. PICK p : p = req[r]
    OBVIOUS
  <1>2. p.op = "callback" /\ p.at = "router"
    BY <1>1 DEF Callback, At
  <1>3. PICK s, c \in Flows : /\ c = p.flow /\ s = Named(c) /\ s = Taken(r) /\ s = Concerns(p)
                              /\ HoldingOK(p, s) /\ ~App /\ ParseOk(s) /\ plan \in Plans
                              /\ Honest(s) => c = s /\ spec[s].fault.at = "none"
    BY <1>1, <1>2, HoldingFastapi
  <1>4. history.sent[s] = 0 /\ s \in begun.started
    BY <1>2, <1>3 DEF HoldingOK
  <1>5. CASE Raises(s, "callback")
    <2>1. PICK at : at = "close"
      OBVIOUS
    <2>2. Go(r, at) /\ UNCHANGED <<plan, rp, begun, provider, history>>
      BY <1>3, <1>5, <2>1 DEF Callback, Advance
    <2>3. /\ HarnessInv /\ r \in Slots /\ p = req[r] /\ p.op = "callback" /\ c = p.flow /\ s = Named(c)
          /\ at \notin {"lookup", "pop"}
      BY <1>1, <1>2, <1>3, <2>1
    <2>4. PICK q : /\ req' = [req EXCEPT ![r] = q] /\ IsReq(q) /\ q.op = "callback" /\ q.flow = c /\ q.at = at
                   /\ Concerns(q) = s /\ (HoldingOK(q, s) => ReqOK(q))
      BY <2>2, <2>3, HoldsOn
    <2>5. Uncaught(s)
      BY <1>5 DEF Uncaught
    <2>6. ~Honest(s)
      BY <1>3, <1>5, GenuineDisco
    <2>7. HoldingOK(q, s)
      BY <1>3, <1>4, <2>1, <2>4, <2>5, <2>6 DEF HoldingOK
    <2> QED BY <1>1, <1>3, <2>2, <2>4, <2>7, MoveKeeps
  <1>6. CASE ~Raises(s, "callback")
    <2>1. PICK sent, got : /\ sent = (RouterErr(c, s) = "ok") /\ got = (sent /\ Redeems(c, s, TRUE))
      OBVIOUS
    <2>2. PICK err : err = IF ~got \/ Faulty(c, "token", "no data") THEN "HTTPException"
                           ELSE IF Faulty(c, "token", "no object") THEN "AttributeError"
                           ELSE RouterIdTokenErr(c, s)
      OBVIOUS
    <2>3. /\ history' = (IF sent THEN [history EXCEPT !.sent[s] = @ + 1] ELSE history)
          /\ provider' = (IF got THEN [provider EXCEPT !.redeemed = @ \cup {c}] ELSE provider)
          /\ IF err = "ok" THEN Go(r, "session") /\ UNCHANGED <<session, test_results>>
             ELSE IF err \in {"HTTPException"} \cup Typed
             THEN _store_test_result(s, "error") /\ Go(r, "close")
             ELSE Go(r, "close") /\ UNCHANGED <<session, test_results>>
          /\ UNCHANGED <<plan, sessions, lastFlow, request_objects, clients, begun>>
      BY <1>1, <1>3, <1>6, <2>1, <2>2 DEF Callback
    <2>4. Spent(s)
      <3>1. CASE sent
        <4>1. history' = [history EXCEPT !.sent[s] = @ + 1]
          BY <2>3, <3>1
        <4>2. provider' = provider \/ provider' = [provider EXCEPT !.redeemed = @ \cup {c}]
          BY <2>3
        <4>3. HarnessInv /\ c \in Flows /\ s \in Flows /\ s = Named(c) /\ history.sent[s] = 0
          BY <1>3, <1>4
        <4> QED BY ONLY <4>1, <4>2, <4>3, SentFacts
      <3>2. CASE ~sent
        <4>1. UNCHANGED <<provider, history>>
          BY <2>1, <2>3, <3>2
        <4> QED BY <4>1, NothingSpent
      <3> QED BY <3>1, <3>2
    <2>5. Honest(s) => err = "ok"
      <3> SUFFICES ASSUME Honest(s) PROVE err = "ok"
        OBVIOUS
      <3>1. c = s /\ spec[s].fault.at = "none"
        BY <1>3
      <3>2. RouterErr(s, s) = "ok" /\ RouterIdTokenErr(s, s) = "ok"
        BY <1>3, <3>1, RouterComplete
      <3>3. Redeems(s, s, TRUE)
        <4>1. PICK verifier : verifier = TRUE
          OBVIOUS
        <4>2. Redeems(s, s, verifier)
          BY <1>4, <3>1, RedeemComplete
        <4> QED BY <4>1, <4>2
      <3>4. ~Faulty(s, "token", "no data") /\ ~Faulty(s, "token", "no object")
        BY <3>1, NoFault
      <3> QED BY <2>1, <2>2, <3>1, <3>2, <3>3, <3>4
    <2>6. /\ err \notin {"HTTPException"} => RouterErr(c, s) = "ok"
          /\ err \notin {"HTTPException", "AttributeError"} => err = RouterIdTokenErr(c, s)
          /\ ~Faulty(c, "token", "no object") /\ err \notin {"HTTPException"} => err = RouterIdTokenErr(c, s)
      BY <2>1, <2>2
    <2>7. CASE err = "ok"
      <3>1. PICK at : at = "session"
        OBVIOUS
      <3>2. Go(r, at) /\ UNCHANGED <<session, test_results>>
        BY <2>3, <2>7, <3>1
      <3>3. /\ HarnessInv /\ r \in Slots /\ p = req[r] /\ p.op = "callback" /\ c = p.flow /\ s = Named(c)
            /\ at \notin {"lookup", "pop"} /\ c \in Flows /\ s \in Flows
        BY <1>1, <1>2, <1>3, <3>1
      <3>4. PICK q : /\ req' = [req EXCEPT ![r] = q] /\ IsReq(q) /\ q.op = "callback" /\ q.flow = c /\ q.at = at
                     /\ Concerns(q) = s /\ (HoldingOK(q, s) => ReqOK(q))
        BY ONLY <3>2, <3>3, HoldsOn
      <3>5. RouterErr(c, s) = "ok" /\ RouterIdTokenErr(c, s) = "ok"
        BY <2>6, <2>7
      <3>6. (App' <=> App) /\ (ParseOk(s)' <=> ParseOk(s))
        BY <2>3, FlowKept
      <3>7. RouterErr(c, s)' = RouterErr(c, s) /\ RouterIdTokenErr(c, s)' = RouterIdTokenErr(c, s)
        BY <2>3, VerdictKept
      <3>8. HoldingOK(q, s)'
        BY <1>3, <1>4, <2>3, <3>1, <3>4, <3>5, <3>6, <3>7 DEF HoldingOK
      <3>9. q.flow \in Flows /\ s = Named(q.flow) /\ q.op = "callback" /\ q.at \notin {"lookup", "pop"}
        BY <3>3, <3>4
      <3>10. ReqOK(q)'
        BY <2>3, <3>8, <3>9, HoldsNext
      <3> QED BY <1>1, <1>3, <2>3, <2>4, <3>2, <3>4, <3>10, HoldKeeps
    <2>8. CASE err # "ok" /\ err \in {"HTTPException"} \cup Typed
      <3>1. PICK x : x = [session[s] EXCEPT !.status = "error"]
        OBVIOUS
      <3>2. IsSession(x) /\ x.status = "error" /\ x.secret = session[s].secret /\ x.code = session[s].code
        BY <3>1, ResultOf
      <3>3. session' = [session EXCEPT ![s] = x] /\ test_results' = Entered(s) /\ Go(r, "close")
        BY <2>3, <2>8, <3>1 DEF _store_test_result
      <3>4. ~Honest(s)
        BY <2>5, <2>8
      <3> QED BY <1>1, <1>2, <1>3, <2>3, <2>4, <3>2, <3>3, <3>4, CloseCallbackKeeps
    <2>9. CASE err # "ok" /\ err \notin {"HTTPException"} \cup Typed
      <3>1. PICK at : at = "close"
        OBVIOUS
      <3>2. Go(r, at) /\ UNCHANGED <<session, test_results>>
        BY <2>3, <2>9, <3>1
      <3>3. /\ HarnessInv /\ r \in Slots /\ p = req[r] /\ p.op = "callback" /\ c = p.flow /\ s = Named(c)
            /\ at \notin {"lookup", "pop"} /\ c \in Flows /\ s \in Flows
        BY <1>1, <1>2, <1>3, <3>1
      <3>4. PICK q : /\ req' = [req EXCEPT ![r] = q] /\ IsReq(q) /\ q.op = "callback" /\ q.flow = c /\ q.at = at
                     /\ Concerns(q) = s /\ (HoldingOK(q, s) => ReqOK(q))
        BY ONLY <3>2, <3>3, HoldsOn
      <3>5. ~BadDisco(s, "callback")
        BY <2>6, <2>9, RouterFacts
      <3>6. \/ Faulty(c, "token", "malformed") \/ Faulty(c, "token", "no object")
            \/ Faulty(c, "userinfo", "no object")
        BY <1>3, <2>6, <2>9, <3>5, RouterTyped
      <3>7. Uncaught(s)
        BY <1>3, <3>6, UncaughtBy
      <3>8. (App' <=> App) /\ (ParseOk(s)' <=> ParseOk(s)) /\ (Uncaught(s)' <=> Uncaught(s))
        BY <2>3, FlowKept, VerdictKept
      <3>9. ~Honest(s)'
        BY <2>3, <2>5, <2>9, <3>2, HonestKept
      <3>10. HoldingOK(q, s)'
        BY <1>3, <1>4, <2>3, <3>1, <3>4, <3>7, <3>8, <3>9 DEF HoldingOK
      <3>11. q.flow \in Flows /\ s = Named(q.flow) /\ q.op = "callback" /\ q.at \notin {"lookup", "pop"}
        BY <3>3, <3>4
      <3>12. ReqOK(q)'
        BY <2>3, <3>10, <3>11, HoldsNext
      <3> QED BY <1>1, <1>3, <2>3, <2>4, <3>2, <3>4, <3>12, HoldKeeps
    <2> QED BY <2>7, <2>8, <2>9
  <1> QED BY <1>5, <1>6

\* The result of a callback of app_fastapi.py.
LEMMA FinishFlowKeeps ==
    ASSUME HarnessInv, NEW r \in Slots, _finish_callback(r)
    PROVE  HarnessInv'
  <1>1. PICK p : p = req[r]
    OBVIOUS
  <1>2. p.op = "callback" /\ p.at = "session"
    BY <1>1 DEF _finish_callback, At
  <1>3. PICK s, c \in Flows : /\ c = p.flow /\ s = Named(c) /\ s = Taken(r) /\ s = Concerns(p)
                              /\ HoldingOK(p, s) /\ ~App /\ ParseOk(s) /\ plan \in Plans
                              /\ Honest(s) => c = s /\ spec[s].fault.at = "none"
    BY <1>1, <1>2, HoldingFastapi
  <1>4. Own(c, s)
    <2>1. RouterErr(c, s) = "ok" /\ RouterIdTokenErr(c, s) = "ok"
      BY <1>2, <1>3 DEF HoldingOK
    <2> QED BY <1>3, <2>1, OwnRouter
  <1>5. PICK x : x = [session[s] EXCEPT !.status = "success", !.code = c]
    OBVIOUS
  <1>6. /\ session' = [session EXCEPT ![s].status = "success", ![s].code = c]
        /\ test_results' = Entered(s) /\ Go(r, "close")
        /\ UNCHANGED <<plan, sessions, lastFlow, request_objects, clients, begun, provider, history>>
    BY <1>1, <1>3 DEF _finish_callback
  <1>7. session = [f \in Flows |-> session[f]] /\ IsSession(session[s])
    BY DEF HarnessInv, HarnessTypes
  <1>8. session' = [session EXCEPT ![s] = x]
    BY <1>5, <1>6, <1>7
  <1>9. IsSession(x) /\ x.status = "success" /\ x.secret = session[s].secret /\ x.code = c
    BY <1>5, <1>7 DEF IsSession
  <1>10. x.code \in {"", session[s].code} \/ (\E g \in Flows : g = x.code /\ Own(g, s))
    BY <1>4, <1>9
  <1>11. Spent(s)
    BY <1>6, NothingSpent
  <1> QED BY <1>1, <1>2, <1>3, <1>6, <1>8, <1>9, <1>10, <1>11, CloseCallbackKeeps

\* A handler closes the client of its flow and is done.
LEMMA ClientClosed ==
    ASSUME HarnessInv, NEW r \in Slots, NEW p, p = req[r], NEW s \in Flows, s = Concerns(p), Done(r),
           clients' = clients \ {s},
           UNCHANGED <<plan, sessions, session, lastFlow, request_objects, test_results, begun, provider, history>>,
           s \in provider.asked \cup request_objects =>
             (Uncaught(s) \/ Recorded(s)) /\ (Honest(s) => session[s].status = "success")
    PROVE  HarnessInv'
  <1>1. PICK q : q = NoReq
    OBVIOUS
  <1>2. req' = [req EXCEPT ![r] = q] /\ IsReq(q) /\ Concerns(q) = "" /\ ReqOK(q)'
    BY <1>1, NoReqFacts DEF Done, ReqOK
  <1>3. HarnessTypes
    BY DEF HarnessInv
  <1>4. /\ req'[r] = q /\ \A o \in Slots \ {r} : req'[o] = req[o]
        /\ req' = [o \in Slots |-> req'[o]] /\ \A o \in Slots : IsReq(req'[o])
    BY <1>2, SlotBecomes
  <1>5. \A o \in Slots \ {r} : \A u \in {req[o]} : Concerns(u) # s
    BY OwnRequest
  <1>6. Frame(r, s)
    BY <1>2, <1>4, <1>5 DEF Frame
  <1>7. HarnessTypes'
    BY <1>3, <1>4 DEF HarnessTypes
  <1>8. RestOK'
    BY RestKept
  <1>9. FlowOK(s)'
    <2>1. ~Busy(s)'
      <3>1. q = req'[r] /\ r \in Slots /\ s \in Flows /\ Concerns(q) # s
        BY <1>2, <1>4, PlansAssumption
      <3> QED BY ONLY <1>6, <3>1, BusyAfter
    <2>2. Busy(s)
      BY DEF Busy
    <2>3. spec' = spec /\ (Honest(s)' <=> Honest(s)) /\ (Uncaught(s)' <=> Uncaught(s))
      BY FlowKept, HonestKept, VerdictKept
    <2>4. \A c : Own(c, s)' <=> Own(c, s)
      BY VerdictKept
    <2>5. (Recorded(s)' <=> Recorded(s)) /\ (Listed(s)' <=> Listed(s))
      BY <2>3 DEF Recorded, Listed
    <2>6. FlowOK(s)
      BY DEF HarnessInv
    <2>7. s \in begun.started /\ s \notin sessions
      BY <2>2, <2>6 DEF FlowOK
    <2> QED BY <2>1, <2>3, <2>4, <2>5, <2>6, <2>7 DEF FlowOK
  <1> QED BY <1>2, <1>4, <1>6, <1>7, <1>8, <1>9, StepKeeps

\* await client.aclose()
LEMMA CloseClientKeeps ==
    ASSUME HarnessInv, NEW r \in Slots, CloseClient(r)
    PROVE  HarnessInv'
  <1>1. PICK p : p = req[r]
    OBVIOUS
  <1>2. p.at = "close" /\ ReqOK(p) /\ p # NoReq
    BY <1>1, NoReqFacts DEF CloseClient, HarnessInv
  <1>3. /\ clients' = clients \ {IF p.op = "callback" THEN Taken(r) ELSE p.flow} /\ Done(r)
        /\ UNCHANGED <<plan, sessions, session, lastFlow, request_objects, test_results, begun, provider, history>>
    BY <1>1 DEF CloseClient
  <1>4. CASE p.op \in {"authorize", "discover"}
    <2>1. p.flow \in Flows /\ Concerns(p) = p.flow /\ StartingOK(p)
      BY <1>1, <1>4, StartingFacts
    <2>2. PICK s \in Flows : s = p.flow
      BY <2>1
    <2>3. s \notin provider.asked \cup request_objects /\ clients' = clients \ {s}
      BY <1>3, <1>4, <2>1, <2>2 DEF StartingOK
    <2> QED BY <1>1, <1>3, <2>1, <2>2, <2>3, ClientClosed
  <1>5. CASE p.op = "callback"
    <2>1. PICK s, c \in Flows : /\ c = p.flow /\ s = Named(c) /\ s = Taken(r) /\ s = Concerns(p)
                                /\ HoldingOK(p, s)
      BY <1>1, <1>2, <1>5, HoldingFacts
    <2>2. (Recorded(s) \/ Uncaught(s)) /\ (Honest(s) => session[s].status = "success")
      BY <1>2, <2>1 DEF HoldingOK
    <2>3. clients' = clients \ {s}
      BY <1>3, <1>5, <2>1
    <2> QED BY <1>1, <1>3, <2>1, <2>2, <2>3, ClientClosed
  <1> QED BY <1>2, <1>4, <1>5 DEF ReqOK

\* /clear-cache begins.
LEMMA StartClearKeeps ==
    ASSUME HarnessInv, NEW r \in Slots, StartClear(r)
    PROVE  HarnessInv'
  <1>1. PICK q : q = [NoReq EXCEPT !.op = "clear", !.left = sessions]
    OBVIOUS
  <1>2. /\ ~App /\ req[r] = NoReq /\ req' = [req EXCEPT ![r] = q]
        /\ UNCHANGED <<plan, sessions, session, lastFlow, request_objects, test_results, clients, begun, provider,
                       history>>
    BY <1>1 DEF StartClear, Vacant, rp
  <1>3. q.op = "clear" /\ q.at = "" /\ q.left = sessions /\ IsReq(q)
    BY <1>1 DEF NoReq, IsReq
  <1>4. sessions \subseteq Flows /\ IsHistory(history)
    BY DEF HarnessInv, HarnessTypes
  <1>5. App' <=> App
    BY <1>2, FlowKept
  <1>6. Concerns(q) = "" /\ ReqOK(q)'
    BY <1>2, <1>3, <1>4, <1>5 DEF Concerns, ReqOK
  <1>7. \A p \in {req[r]} : Concerns(p) = ""
    BY <1>2, NoReqFacts
  <1> QED BY <1>2, <1>3, <1>4, <1>6, <1>7, FreeKeeps

\* /clear-cache throws one flow away.
LEMMA ClearOneKeeps ==
    ASSUME HarnessInv, ~App, NEW r \in Slots, NEW p, p = req[r], p.op = "clear", NEW s \in sessions,
           sessions' = sessions \ {s}, clients' = clients \ {s}, req' = [req EXCEPT ![r].left = @ \ {s}],
           history' = [history EXCEPT !.cleared = @ \cup {s}],
           UNCHANGED <<plan, session, lastFlow, request_objects, test_results, begun, provider>>
    PROVE  HarnessInv'
  <1>1. HarnessTypes /\ IsReq(p) /\ ReqOK(p) /\ p # NoReq /\ IsHistory(history)
    BY NoReqFacts DEF HarnessInv, HarnessTypes
  <1>2. p.at = "" /\ p.left \subseteq Flows
    BY <1>1 DEF ReqOK
  <1>3. PICK q : q = [p EXCEPT !.left = @ \ {s}]
    OBVIOUS
  <1>4. req' = [req EXCEPT ![r] = q] /\ IsReq(q) /\ q.op = "clear" /\ q.at = "" /\ q.left \subseteq Flows
    BY <1>1, <1>2, <1>3 DEF IsReq
  <1>5. Concerns(p) = "" /\ Concerns(q) = ""
    BY <1>4 DEF Concerns
  <1>6. s \in Flows /\ ~Busy(s) /\ s \in begun.started /\ history.sent[s] = 0 /\ ParseOk(s)
    BY WaitingFacts
  <1>7. /\ req'[r] = q /\ \A o \in Slots \ {r} : req'[o] = req[o]
        /\ req' = [o \in Slots |-> req'[o]] /\ \A o \in Slots : IsReq(req'[o])
    BY <1>4, SlotBecomes
  <1>8. \A o \in Slots \ {r} : \A u \in {req[o]} : Concerns(u) # s
    BY <1>6, OwnRequest
  <1>9. /\ IsHistory(history') /\ history'.sent = history.sent /\ history'.turned = history.turned
        /\ history'.cleared = history.cleared \cup {s}
    BY <1>1 DEF IsHistory
  <1>10. Frame(r, s)
    BY <1>5, <1>7, <1>8, <1>9 DEF Frame
  <1>11. HarnessTypes'
    BY <1>1, <1>7, <1>9 DEF HarnessTypes
  <1>12. RestOK'
    BY <1>9, RestKept
  <1>13. (App' <=> App) /\ spec' = spec
    BY FlowKept
  <1>14. ReqOK(q)'
    BY <1>4, <1>13 DEF ReqOK
  <1>15. FlowOK(s)'
    <2>1. ~Busy(s)'
      <3>1. q = req'[r] /\ r \in Slots /\ s \in Flows /\ Concerns(q) # s
        BY <1>5, <1>6, <1>7, PlansAssumption
      <3> QED BY ONLY <1>10, <3>1, BusyAfter
    <2>2. \A c : Own(c, s)' <=> Own(c, s)
      BY VerdictKept
    <2>3. Listed(s)' <=> Listed(s)
      BY <1>13 DEF Listed
    <2>4. FlowOK(s)
      BY <1>6 DEF HarnessInv
    <2> QED BY <1>6, <1>9, <1>13, <2>1, <2>2, <2>3, <2>4 DEF FlowOK
  <1> QED BY <1>6, <1>7, <1>10, <1>11, <1>12, <1>14, <1>15, StepKeeps

\* A step of /clear-cache.
LEMMA ClearCacheKeeps ==
    ASSUME HarnessInv, NEW r \in Slots, clear_cache(r)
    PROVE  HarnessInv'
  <1>1. PICK p : p = req[r]
    OBVIOUS
  <1>2. p.op = "clear" /\ ReqOK(p) /\ p # NoReq
    BY <1>1, NoReqFacts DEF clear_cache, HarnessInv
  <1>3. ~App /\ Concerns(p) = ""
    BY <1>2 DEF ReqOK, Concerns
  <1>4. CASE Drop(r)
    BY <1>1, <1>3, <1>4, DropKeeps, PlansAssumption
  <1>5. CASE \E s \in sessions :
               /\ sessions' = sessions \ {s} /\ clients' = clients \ {s} /\ req' = [req EXCEPT ![r].left = @ \ {s}]
               /\ history' = [history EXCEPT !.cleared = @ \cup {s}]
               /\ UNCHANGED <<plan, session, lastFlow, request_objects, test_results, begun, provider>>
    BY <1>1, <1>2, <1>3, <1>5, ClearOneKeeps
  <1> QED BY <1>1, <1>4, <1>5 DEF clear_cache

-----------------------------------------------------------------------------
(* The theorems about the conformance harness                              *)

\* The invariant holds when the harness starts.
LEMMA HarnessInitInv ==
    ASSUME HarnessInit
    PROVE  HarnessInv
  <1>1. /\ plan \in Plans /\ sessions = {} /\ session = [f \in Flows |-> NoSession] /\ lastFlow = ""
        /\ request_objects = {} /\ test_results = <<>> /\ req = [r \in Slots |-> NoReq] /\ clients = {}
    BY DEF HarnessInit
  <1>2. /\ IsBegun(begun) /\ begun.registered = {} /\ begun.started = {}
        /\ IsProvider(provider) /\ provider.asked = {} /\ provider.redeemed = {}
        /\ IsHistory(history) /\ history.sent = [f \in Flows |-> 0] /\ history.turned = {} /\ history.cleared = {}
    BY DEF HarnessInit, IsBegun, IsProvider, IsHistory
  <1>3. \A r \in Slots : \A q \in {req[r]} : q = NoReq /\ IsReq(q) /\ ReqOK(q) /\ Concerns(q) = ""
    BY <1>1, NoReqFacts
  <1>4. IsSession(NoSession) /\ NoSession.code = "" /\ DOMAIN test_results = {}
    <2>1. PICK x : x = NoSession
      OBVIOUS
    <2>2. IsSession(x) /\ x.code = ""
      BY ONLY <2>1 DEF IsSession, NoSession
    <2>3. test_results = <<>>
      BY <1>1
    <2>4. DOMAIN test_results = {}
      BY ONLY <2>3
    <2> QED BY ONLY <2>1, <2>2, <2>4
  <1>5. HarnessTypes
    BY <1>1, <1>2, <1>3, <1>4 DEF HarnessTypes
  <1>6. Alone
    BY <1>3 DEF Alone
  <1>7. RestOK
    BY <1>1, <1>2, PlansAssumption DEF RestOK, RedeemedOK, TurnedOK
  <1>8. ASSUME NEW f \in Flows
        PROVE  FlowOK(f)
    <2>1. ~Busy(f)
      BY <1>3, PlansAssumption DEF Busy
    <2>2. Unlisted(f) /\ Listed(f)
      BY <1>4 DEF Unlisted, Listed
    <2>3. history.sent[f] = 0 /\ session[f].code = ""
      BY <1>1, <1>2, <1>4
    <2> QED BY <1>1, <1>2, <2>1, <2>2, <2>3 DEF FlowOK
  <1> QED BY <1>3, <1>5, <1>6, <1>7, <1>8 DEF HarnessInv

\* No step of the harness leaves the invariant.
LEMMA HarnessNextInv ==
    ASSUME HarnessInv, [HarnessNext]_harnessVars
    PROVE  HarnessInv'
  <1>1. CASE \E r \in Slots, f \in Flows :
               \/ StartAuthorize(r, f) \/ register(r, f) \/ StartCallback(r, f)
               \/ StartLogin(r, f) \/ _pop_flow(r, f)
    BY <1>1, StartAuthorizeKeeps, RegisterKeeps, StartCallbackKeeps, StartLoginKeeps, PopFlowKeeps
  <1>2. CASE \E r \in Slots :
               \/ discover(r) \/ authorize(r) \/ _authorize_fapi2(r)
               \/ FindSession(r) \/ PopSession(r) \/ _fetch_and_validate_discovery(r) \/ Exchange(r)
               \/ ValidateIdToken(r) \/ FinishCallback(r)
    BY <1>2, DiscoverKeeps, AuthorizeKeeps, AuthorizeFapi2Keeps, FindSessionKeeps, PopSessionKeeps,
       FetchDiscoveryKeeps, ExchangeKeeps, ValidateIdTokenKeeps, FinishCallbackKeeps
  <1>3. CASE \E r \in Slots :
               \/ Login(r) \/ Callback(r) \/ _finish_callback(r) \/ CloseClient(r)
               \/ StartClear(r) \/ clear_cache(r)
    BY <1>3, LoginKeeps, CallbackKeeps, FinishFlowKeeps, CloseClientKeeps, StartClearKeeps, ClearCacheKeeps
  <1>4. CASE \E f \in Flows : request_object(f) \/ _receive_backchannel_logout(f)
    BY <1>4, RequestObjectKeeps, BackchannelKeeps
  <1>5. CASE \E send \in BOOLEAN : logout(send)
    BY <1>5, LogoutKeeps
  <1>6. CASE \E state \in {None} \cup Members(Logouts) : post_logout_callback(state)
    BY <1>6, PostLogoutKeeps
  <1>7. CASE UNCHANGED harnessVars
    <2>1. /\ UNCHANGED <<plan, req, sessions, session, lastFlow, request_objects, test_results, clients>>
          /\ UNCHANGED <<begun, provider, history>>
      BY <1>7 DEF harnessVars, rp
    <2>2. IsBegun(begun) /\ IsProvider(provider) /\ IsHistory(history)
      BY DEF HarnessInv, HarnessTypes
    <2> QED BY <2>1, <2>2, QuietKeeps
  <1> QED BY <1>1, <1>2, <1>3, <1>4, <1>5, <1>6, <1>7 DEF HarnessNext

\* The invariant of the harness, for every set of flows, of slots and of plans.
THEOREM HarnessInvariant == HarnessSpec => []HarnessInv
  <1>1. HarnessInit => HarnessInv
    BY HarnessInitInv
  <1>2. HarnessInv /\ [HarnessNext]_harnessVars => HarnessInv'
    BY HarnessNextInv
  <1> QED BY <1>1, <1>2, PTL DEF HarnessSpec

\* However often and however concurrently the callbacks of a flow arrive, sessions.pop and
\* flows.pop let only one of them send a code to the token endpoint.
THEOREM FlowOnceHolds == HarnessSpec => []FlowOnce
  <1>1. HarnessInv => FlowOnce
    <2>1. HarnessInv => \A s \in Flows : history.sent[s] \in {0, 1}
      BY DEF HarnessInv, FlowOK
    <2> QED BY <2>1 DEF FlowOnce
  <1> QED BY <1>1, HarnessInvariant, PTL

\* A login that succeeds with an ID token does so with the token of its own flow, whatever
\* the other flows are sent at the same time.
THEOREM OwnLoginHolds == HarnessSpec => []OwnLogin
  <1>1. HarnessInv => OwnLogin
    BY ZenonT(30) DEF HarnessInv, FlowOK, OwnLogin, Own
  <1> QED BY <1>1, HarnessInvariant, PTL

\* What is ended is not busy.
LEMMA EndedFree ==
    ASSUME HarnessInv, NEW s \in Flows, Ended(s)
    PROVE  s \in provider.asked /\ s \notin sessions /\ ~Busy(s)
  <1>1. s \in provider.asked /\ s \notin sessions
    BY DEF Ended
  <1>2. ASSUME NEW r \in Slots, NEW q, q = req[r], Concerns(q) = s
        PROVE  FALSE
    <2>1. s # ""
      BY PlansAssumption
    <2>2. CASE q.op \in {"authorize", "discover"}
      <3>1. q.flow = s /\ StartingOK(q)
        BY <1>2, <2>2, StartingFacts
      <3> QED BY <1>1, <3>1 DEF StartingOK
    <2>3. CASE q.op = "callback" /\ q.at \notin {"lookup", "pop"}
      <3>1. Taken(r) = s
        BY <1>2, <2>3 DEF Concerns, Taken, Named
      <3> QED BY <1>2, <2>3, <3>1 DEF Ended, Holds
    <2> QED BY <1>2, <2>1, <2>2, <2>3 DEF Concerns
  <1> QED BY <1>1, <1>2 DEF Busy

\* The runner is never left without a verdict on a flow that has ended.
THEOREM ReportedHolds == HarnessSpec => []Reported
  <1>1. ASSUME HarnessInv, NEW s \in Flows \ history.cleared, Ended(s), spec[s].test # "", ~Uncaught(s)
        PROVE  /\ spec[s].test \in DOMAIN test_results
               /\ session[test_results[spec[s].test]].status \in {"success", "error"}
               /\ spec[test_results[spec[s].test]].test = spec[s].test
    <2>1. s \in provider.asked /\ s \notin sessions /\ ~Busy(s) /\ FlowOK(s)
      BY <1>1, EndedFree DEF HarnessInv
    <2>2. Recorded(s)
      BY <1>1, <2>1 DEF FlowOK
    <2>3. PICK t \in DOMAIN test_results : t = spec[s].test
      BY <1>1, <2>2 DEF Recorded
    <2>4. PICK f \in Flows : f = test_results[t]
      BY <1>1 DEF HarnessInv, HarnessTypes
    <2>5. Listed(f)
      BY <1>1 DEF HarnessInv, FlowOK
    <2>6. spec[f].test = t /\ session[f].status \in {"success", "error"}
      BY <2>4, <2>5 DEF Listed
    <2> QED BY <2>3, <2>4, <2>6
  <1>2. HarnessInv => Reported
    BY <1>1 DEF Reported
  <1> QED BY <1>2, HarnessInvariant, PTL

\* A provider that behaves is accepted, by every handler and in every interleaving.
THEOREM GenuineAcceptedHolds == HarnessSpec => []GenuineAccepted
  <1>1. ASSUME HarnessInv, NEW s \in Flows \ history.cleared, Ended(s), Honest(s)
        PROVE  session[s].status = "success"
    <2>1. s \in provider.asked /\ s \notin sessions /\ ~Busy(s) /\ FlowOK(s)
      BY <1>1, EndedFree DEF HarnessInv
    <2> QED BY <1>1, <2>1 DEF FlowOK
  <1>2. HarnessInv => TurnedOK
    BY DEF HarnessInv, RestOK
  <1>3. HarnessInv => GenuineAccepted
    BY <1>1, <1>2 DEF GenuineAccepted, TurnedOK
  <1> QED BY <1>3, HarnessInvariant, PTL

\* app_fastapi.py closes the clients that it opens.
THEOREM ClientsAccountedHolds == HarnessSpec => []ClientsAccounted
  <1>1. ASSUME HarnessInv, NEW f \in Flows, Busy(f)
        PROVE  \E r \in Slots : req[r].flow = f \/ Holds(r, f)
    <2>1. PICK r \in Slots : \E q \in {req[r]} : Concerns(q) = f
      BY <1>1 DEF Busy
    <2>2. PICK q : q = req[r] /\ Concerns(q) = f
      BY <2>1
    <2>3. f # ""
      BY PlansAssumption
    <2>4. q.flow = f \/ (q.op = "callback" /\ q.at \notin {"lookup", "pop"} /\ Named(q.flow) = f)
      BY <2>2, <2>3 DEF Concerns
    <2> QED BY <2>2, <2>4 DEF Holds, Taken, Named
  <1>2. ASSUME HarnessInv
        PROVE  ClientsAccounted
    <2>1. clients \subseteq Flows /\ sessions \subseteq Flows
      BY <1>2 DEF HarnessInv, HarnessTypes
    <2>2. \A f \in Flows : FlowOK(f)
      BY <1>2 DEF HarnessInv
    <2> QED BY <1>1, <1>2, <2>1, <2>2 DEF ClientsAccounted, FlowOK
  <1> QED BY <1>2, HarnessInvariant, PTL
=============================================================================
