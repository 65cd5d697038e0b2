---------------------------- MODULE PyJwks_proofs ----------------------------
(***************************************************************************)
(* Theorems about PyJwks for every number of callers, loops, URIs, keys    *)
(* and entries.                                                            *)
(***************************************************************************)
EXTENDS PyJwksBudget, Recency_proofs, SequenceTheorems, TLAPS

\* A failed answer is a response without keys.
LEMMA FailureType == Failure \in Responses
  BY DEF Failure, Responses

\* The record of an idle caller is a well typed one.
LEMMA NoJobType == NoJob \in Jobs
  <1>1. (CHOOSE u \in Uris : TRUE) \in Uris
    BY LocksAssumption
  <1>2. (CHOOSE t \in Tokens : TRUE) \in Tokens
    BY KeysAssumption
  <1>3. 0 \in Time
    BY BoundsAssumption DEF Time
  <1>4. "none" \in Origins
    BY DEF Origins
  <1> QED BY <1>1, <1>2, <1>3, <1>4, FailureType DEF NoJob, Jobs

\* resolve_ttl clamps every max-age and the environment value into its bounds.
LEMMA ResolveTtlType ==
    ASSUME NEW a \in MaxAges \cup {NoMaxAge}
    PROVE  resolve_ttl(a) \in MinTTL..MaxTTL
  BY BoundsAssumption DEF resolve_ttl, Clamp, NoMaxAge

\* Removing an element from the OrderedDict's order leaves a sequence of URIs.
LEMMA PoppedType ==
    ASSUME NEW s \in Seq(Uris), NEW u \in Uris
    PROVE  Popped(s, u) \in Seq(Uris)
  <1>1. CASE Contains(s, u)
    <2>1. PICK i \in 1..Len(s) : Popped(s, u) = SubSeq(s, 1, i - 1) \o SubSeq(s, i + 1, Len(s))
      BY <1>1 DEF Popped, RemoveAt, Contains
    <2>2. SubSeq(s, 1, i - 1) \in Seq(Uris) /\ SubSeq(s, i + 1, Len(s)) \in Seq(Uris)
      BY <2>1, SubSeqProperties
    <2> QED BY <2>1, <2>2
  <1>2. CASE ~Contains(s, u)
    BY <1>2 DEF Popped
  <1> QED BY <1>1, <1>2

\* _enforce_size_limit keeps a sequence of URIs that fits.
LEMMA EnforceSizeLimit ==
    ASSUME NEW s \in Seq(Uris)
    PROVE  /\ _enforce_size_limit(s) \in Seq(Uris)
           /\ Len(_enforce_size_limit(s)) <= MaxEntries
  BY BoundsAssumption, SubSeqProperties DEF _enforce_size_limit, Newest

\* apply_jwks_cache_outcome keeps the types of the cache, its order and the sidecar.
LEMMA ApplyType ==
    ASSUME TypeOK, NEW u \in Uris, NEW r \in Responses, apply_jwks_cache_outcome(u, r)
    PROVE  /\ entry' \in [Uris -> JwksCacheEntry \cup {NoEntry}]
           /\ order' \in Seq(Uris)
           /\ stamp' \in [Uris -> Time \cup {NoStamp}]
  <1>1. CASE ~r.ok \/ r.keys = {}
    BY <1>1 DEF TypeOK, apply_jwks_cache_outcome
  <1>2. CASE ~(~r.ok \/ r.keys = {})
    <2> DEFINE full == Append(Popped(order, u), u)
    <2>1. full \in Seq(Uris)
      BY PoppedType DEF TypeOK
    <2>2. order' = _enforce_size_limit(full)
      BY <1>2 DEF apply_jwks_cache_outcome
    <2>3. r.maxAge \in MaxAges \cup {NoMaxAge}
      BY DEF Responses
    <2>4. [resp |-> r, cached_at |-> now, ttl |-> resolve_ttl(r.maxAge)] \in JwksCacheEntry
      BY <2>3, ResolveTtlType DEF JwksCacheEntry, TypeOK
    <2>5. entry' \in [Uris -> JwksCacheEntry \cup {NoEntry}]
      BY <1>2, <2>4 DEF apply_jwks_cache_outcome, TypeOK
    <2>6. stamp' \in [Uris -> Time \cup {NoStamp}]
      BY <1>2 DEF apply_jwks_cache_outcome, TypeOK
    <2> QED BY <2>1, <2>2, <2>5, <2>6, EnforceSizeLimit
  <1> QED BY <1>1, <1>2

\* touch_cache_entry keeps the order a sequence of URIs.
LEMMA TouchType ==
    ASSUME TypeOK, NEW u \in Uris, touch_cache_entry(u)
    PROVE  order' \in Seq(Uris)
  BY PoppedType DEF touch_cache_entry, TypeOK

\* What a caller learns and waits for keeps its record well typed.
LEMMA JobType ==
    ASSUME TypeOK, NEW c \in Callers
    PROVE  /\ \A r \in Responses, f \in Origins : Learned(c, r, f) \in [Callers -> Jobs]
           /\ \A p \in {"kid", "sig"} : Waiting(c, p) \in [Callers -> Jobs]
           /\ \A r \in Responses :
                [job EXCEPT ![c] = [@ EXCEPT !.resp = r]] \in [Callers -> Jobs]
  <1>1. job[c] \in Jobs /\ job \in [Callers -> Jobs] /\ now \in Time /\ 0 \in Time
    BY BoundsAssumption DEF TypeOK, Time
  <1>2. \A r \in Responses, f \in Origins :
          [job[c] EXCEPT !.resp = r, !.from = f, !.since = 0] \in Jobs
    BY <1>1 DEF Jobs
  <1>3. \A p \in {"kid", "sig"} : [job[c] EXCEPT !.path = p, !.since = now] \in Jobs
    BY <1>1 DEF Jobs
  <1>4. \A r \in Responses : [job[c] EXCEPT !.resp = r] \in Jobs
    BY <1>1 DEF Jobs
  <1>5. \A r \in Responses, f \in Origins : Learned(c, r, f) \in [Callers -> Jobs]
    BY <1>1, <1>2 DEF Learned
  <1>6. \A p \in {"kid", "sig"} : Waiting(c, p) \in [Callers -> Jobs]
    BY <1>1, <1>3 DEF Waiting
  <1> QED BY <1>1, <1>4, <1>5, <1>6

\* Every step of a caller, of the provider and of the clock keeps the types.
LEMMA TypeStep == TypeOK /\ [Next]_vars => TypeOK'
  <1> SUFFICES ASSUME TypeOK, [Next]_vars PROVE TypeOK'
    OBVIOUS
  <1> USE DEF TypeOK
  <1>0. ASSUME NEW c \in Callers
        PROVE  /\ job[c] \in Jobs /\ job[c].uri \in Uris /\ job[c].resp \in Responses
               /\ MyLock(c) \in Locks
    BY LocksAssumption DEF Jobs, MyLock, FetchLock, Locks
  <1>e. ASSUME NEW u \in Uris, entry[u] # NoEntry PROVE entry[u].resp \in Responses
    BY <1>e DEF JwksCacheEntry
  <1>j. ASSUME NEW c \in Callers
        PROVE  /\ \A r \in Responses, f \in Origins : Learned(c, r, f) \in [Callers -> Jobs]
               /\ \A p \in {"kid", "sig"} : Waiting(c, p) \in [Callers -> Jobs]
               /\ \A r \in Responses :
                    [job EXCEPT ![c] = [@ EXCEPT !.resp = r]] \in [Callers -> Jobs]
               /\ job[c].path \in {"kid", "sig"}
    BY <1>0, JobType DEF Jobs
  <1>1. ASSUME NEW c \in Callers, Lookup(c) PROVE TypeOK'
    <2>1. job' \in [Callers -> Jobs]
      BY <1>0, <1>e, <1>1, <1>j DEF Lookup, Usable, Origins
    <2> QED BY <1>1, <2>1 DEF Lookup, GoTo, Active
  <1>2. ASSUME NEW c \in Callers, Touch(c) PROVE TypeOK'
    BY <1>0, <1>2, TouchType DEF Touch, GoTo, Active
  <1>3. ASSUME NEW c \in Callers, AcquireFetch(c) PROVE TypeOK'
    <2>1. job' \in [Callers -> Jobs]
      <3>1. CASE Usable(job[c].uri)
        <4>1. job' = Learned(c, entry[job[c].uri].resp, "hit")
          BY <1>3, <3>1 DEF AcquireFetch
        <4> QED BY <1>0, <1>e, <1>j, <3>1, <4>1 DEF Usable, Origins
      <3>2. CASE ~Usable(job[c].uri)
        <4>1. job' = Waiting(c, job[c].path)
          BY <1>3, <3>2 DEF AcquireFetch
        <4> QED BY <1>j, <4>1
      <3> QED BY <3>1, <3>2
    <2> QED BY <1>0, <1>3, <2>1 DEF AcquireFetch, GoTo, Active, Holding
  <1>4. ASSUME NEW c \in Callers, TouchLocked(c) PROVE TypeOK'
    BY <1>0, <1>4, TouchType DEF TouchLocked, GoTo, Release, Active
  <1>5. ASSUME NEW c \in Callers, NEW r \in Answers(job[c].uri), Answer(c, r) PROVE TypeOK'
    <2>1. r \in Responses
      <3>1. Failure \in Responses
        BY FailureType
      <3>2. published[job[c].uri] \in SUBSET Keys
        BY <1>0, KeysAssumption
      <3>3. [ok : {TRUE}, keys : {published[job[c].uri], {}}, maxAge : MaxAges]
              \subseteq Responses
        BY <3>2 DEF Responses
      <3> QED BY <3>1, <3>3 DEF Answers
    <2> QED BY <1>5, <1>j, <2>1 DEF Answer, GoTo, Active, Holding
  <1>6. ASSUME NEW c \in Callers, ApplyFetch(c) PROVE TypeOK'
    <2>1. job' \in [Callers -> Jobs]
      BY <1>0, <1>6, <1>j DEF ApplyFetch, Origins
    <2> QED BY <1>0, <1>6, <2>1, ApplyType DEF ApplyFetch, GoTo, Release, Active
  <1>7. ASSUME NEW c \in Callers, Resolve(c) PROVE TypeOK'
    <2>1. job' \in [Callers -> Jobs]
      BY <1>7, <1>j DEF Resolve
    <2> QED BY <1>7, <2>1 DEF Resolve, GoTo, Active, Verdicts
  <1>8. ASSUME NEW c \in Callers, Decode(c) PROVE TypeOK'
    <2>1. job' \in [Callers -> Jobs]
      BY <1>8, <1>j DEF Decode
    <2> QED BY <1>8, <2>1 DEF Decode, GoTo, Active, Verdicts
  <1>9. ASSUME NEW c \in Callers, AcquireRefresh(c) PROVE TypeOK'
    <2>1. job' \in [Callers -> Jobs]
      <3> DEFINE u == job[c].uri
                 guard == entry[u] # NoEntry /\ entry[u].cached_at >= now
      <3>1. CASE guard
        <4>1. job' = Learned(c, entry[u].resp, "coalesced")
          BY <1>9, <3>1 DEF AcquireRefresh
        <4> QED BY <1>0, <1>e, <1>j, <3>1, <4>1 DEF Origins
      <3>2. CASE ~guard
        <4>1. job' = Waiting(c, job[c].path)
          BY <1>9, <3>2 DEF AcquireRefresh
        <4> QED BY <1>j, <4>1
      <3> QED BY <3>1, <3>2
    <2> QED BY <1>0, <1>9, <2>1 DEF AcquireRefresh, GoTo, Active, Holding
  <1>10. ASSUME NEW c \in Callers, ApplyRefresh(c) PROVE TypeOK'
    <2>1. job' \in [Callers -> Jobs]
      BY <1>0, <1>e, <1>10, <1>j DEF ApplyRefresh, Origins
    <2>2. apply_jwks_cache_outcome(job[c].uri, job[c].resp)
      BY <1>10 DEF ApplyRefresh
    <2> QED BY <1>0, <1>10, <2>1, <2>2, ApplyType DEF ApplyRefresh, GoTo, Release, Active
  <1>11. ASSUME NEW c \in Callers, AccountKidMiss(c) \/ AccountSignature(c) PROVE TypeOK'
    <2>1. \A helped \in BOOLEAN : Stamped(c, helped) \in [Uris -> Time \cup {NoStamp}]
      BY <1>0 DEF Stamped
    <2>2. CASE AccountKidMiss(c)
      BY <2>1, <2>2 DEF AccountKidMiss, GoTo, Active, Verdicts, KidMissing
    <2>3. CASE AccountSignature(c)
      BY <2>1, <2>3 DEF AccountSignature, GoTo, Verdicts, Verifies
    <2> QED BY <1>11, <2>2, <2>3
  <1>12. ASSUME NEW c \in Callers, Return(c) PROVE TypeOK'
    BY <1>12, NoJobType DEF Return, GoTo
  <1>13. ASSUME NEW c \in Callers, NEW u \in Uris, NEW t \in Tokens, Begin(c, u, t)
         PROVE  TypeOK'
    <2>1. [NoJob EXCEPT !.uri = u, !.token = t, !.began = now] \in Jobs
      BY NoJobType DEF Jobs
    <2>2. (\E k \in published[u] : k = t) \in BOOLEAN
      OBVIOUS
    <2> QED BY <1>13, <2>1, <2>2 DEF Begin, GoTo, Active
  <1>14. ASSUME clear_jwks_cache PROVE TypeOK'
    BY <1>14 DEF clear_jwks_cache
  <1>15. ASSUME NEW u \in Uris, NEW S \in KeySets, Rotate(u, S) PROVE TypeOK'
    BY <1>15 DEF Rotate
  <1>16. ASSUME Tick PROVE TypeOK'
    BY <1>16, BoundsAssumption DEF Tick, Time
  <1>17. ASSUME UNCHANGED vars PROVE TypeOK'
    BY <1>17 DEF vars
  <1> QED
    BY <1>1, <1>2, <1>3, <1>4, <1>5, <1>6, <1>7, <1>8, <1>9, <1>10, <1>11, <1>12,
       <1>13, <1>14, <1>15, <1>16, <1>17 DEF Next, Step

\* Type correctness of the JWKS cache, the cooldown sidecar, the fetch locks and
\* the callers, in every reachable state.
THEOREM TypeCorrect == Spec => []TypeOK
  <1>1. Init => TypeOK
    BY NoJobType, BoundsAssumption DEF Init, TypeOK, Time
  <1> QED BY <1>1, TypeStep, PTL DEF Spec

-----------------------------------------------------------------------------
(* Single flight.  SingleFlight is not inductive by itself: that no other  *)
(* request is in progress when a fetch lock is taken follows from LockInv, *)
(* every caller between acquire and release owns the lock of its URI.      *)

\* What a caller learns or waits for does not change its URI.
LEMMA SameUri ==
    ASSUME TypeOK, NEW c \in Callers, NEW r, NEW f, NEW d \in Callers,
           \/ job' = Learned(c, r, f) \/ job' = Waiting(c, r) \/ job' = job
           \/ job' = [job EXCEPT ![c] = [@ EXCEPT !.resp = r]]
    PROVE  job'[d].uri = job[d].uri
  <1>1. job[c] \in Jobs /\ job[d] \in Jobs
    BY DEF TypeOK
  <1>2. /\ [job[c] EXCEPT !.resp = r, !.from = f, !.since = 0].uri = job[c].uri
        /\ [job[c] EXCEPT !.path = r, !.since = now].uri = job[c].uri
        /\ [job[c] EXCEPT !.resp = r].uri = job[c].uri
    BY <1>1 DEF Jobs
  <1> QED BY <1>2 DEF TypeOK, Learned, Waiting

\* A step of caller c that keeps the URIs and either leaves the locks alone, takes
\* the free lock of c, or releases the lock of c, preserves LockInv.
LEMMA LockStep ==
    ASSUME TypeOK, LockInv, NEW c \in Callers,
           \A d \in Callers : MyLock(d)' = MyLock(d),
           \A d \in Callers \ {c} : pc'[d] = pc[d],
           \/ /\ lock' = lock
              /\ pc'[c] \in Holding => pc[c] \in Holding
           \/ /\ lock[MyLock(c)] = Nobody
              /\ lock' = [lock EXCEPT ![MyLock(c)] = c]
           \/ /\ pc[c] \in Holding /\ pc'[c] \notin Holding
              /\ lock' = [lock EXCEPT ![MyLock(c)] = Nobody]
    PROVE  LockInv'
  <1>1. \A d \in Callers : MyLock(d) \in Locks
    BY LocksAssumption DEF TypeOK, Jobs, MyLock, FetchLock, Locks
  <1>2. SUFFICES ASSUME NEW d \in Callers, pc'[d] \in Holding
                 PROVE  lock'[MyLock(d)] = d
    BY DEF LockInv
  <1> QED BY <1>1, <1>2, LocksAssumption DEF TypeOK, LockInv

\* Every step keeps the owners of the locks.
LEMMA LockInvStep == TypeOK /\ LockInv /\ [Next]_vars => LockInv'
  <1> SUFFICES ASSUME TypeOK, LockInv, [Next]_vars PROVE LockInv'
    OBVIOUS
  <1>u. ASSUME \A d \in Callers : job'[d].uri = job[d].uri
        PROVE  \A d \in Callers : MyLock(d)' = MyLock(d)
    BY <1>u DEF MyLock, FetchLock
  <1>p. ASSUME NEW c \in Callers, NEW l, GoTo(c, l)
        PROVE  pc'[c] = l /\ \A d \in Callers \ {c} : pc'[d] = pc[d]
    BY <1>p DEF GoTo, TypeOK
  <1>1. ASSUME NEW c \in Callers, Lookup(c) PROVE LockInv'
    <2>1. \A d \in Callers : job'[d].uri = job[d].uri
      BY <1>1, SameUri DEF Lookup
    <2>2. PICK l \in {"touch", "fetch_wait"} : GoTo(c, l)
      BY <1>1 DEF Lookup
    <2>3. l \notin Holding /\ lock' = lock
      BY <1>1, <2>2 DEF Holding, Lookup
    <2> QED BY <1>u, <1>p, <2>1, <2>2, <2>3, LockStep
  <1>2. ASSUME NEW c \in Callers, Touch(c) PROVE LockInv'
    <2>1. GoTo(c, "resolve") /\ lock' = lock /\ job' = job
      BY <1>2 DEF Touch
    <2>2. "resolve" \notin Holding
      BY DEF Holding
    <2> QED BY <1>u, <1>p, <2>1, <2>2, LockStep
  <1>3. ASSUME NEW c \in Callers, AcquireFetch(c) PROVE LockInv'
    <2>1. \A d \in Callers : job'[d].uri = job[d].uri
      BY <1>3, SameUri DEF AcquireFetch
    <2>2. PICK l : GoTo(c, l)
      BY <1>3 DEF AcquireFetch
    <2>3. lock[MyLock(c)] = Nobody /\ lock' = [lock EXCEPT ![MyLock(c)] = c]
      BY <1>3 DEF AcquireFetch, Free
    <2> QED BY <1>u, <1>p, <2>1, <2>2, <2>3, LockStep
  <1>4. ASSUME NEW c \in Callers, TouchLocked(c) \/ ApplyFetch(c) \/ ApplyRefresh(c)
        PROVE  LockInv'
    <2>1. \A d \in Callers : job'[d].uri = job[d].uri
      BY <1>4, SameUri DEF TouchLocked, ApplyFetch, ApplyRefresh
    <2>2. PICK l \in {"resolve", "account"} : GoTo(c, l)
      BY <1>4 DEF TouchLocked, ApplyFetch, ApplyRefresh
    <2>3. l \notin Holding /\ pc[c] \in Holding
      BY <1>4, <2>2 DEF Holding, TouchLocked, ApplyFetch, ApplyRefresh
    <2>4. lock' = [lock EXCEPT ![MyLock(c)] = Nobody]
      BY <1>4 DEF TouchLocked, ApplyFetch, ApplyRefresh, Release
    <2> QED BY <1>u, <1>p, <2>1, <2>2, <2>3, <2>4, LockStep
  <1>5. ASSUME NEW c \in Callers, NEW r, Answer(c, r) PROVE LockInv'
    <2>1. \A d \in Callers : job'[d].uri = job[d].uri
      BY <1>5, SameUri DEF Answer
    <2>2. PICK l : GoTo(c, l)
      BY <1>5 DEF Answer
    <2>3. pc[c] \in Holding /\ lock' = lock
      BY <1>5 DEF Answer, Holding
    <2> QED BY <1>u, <1>p, <2>1, <2>2, <2>3, LockStep
  <1>6. ASSUME NEW c \in Callers,
               Resolve(c) \/ Decode(c) \/ AccountKidMiss(c) \/ AccountSignature(c)
        PROVE  LockInv'
    <2>1. \A d \in Callers : job'[d].uri = job[d].uri
      BY <1>6, SameUri DEF Resolve, Decode, AccountKidMiss, AccountSignature
    <2>2. PICK l \in {"decode", "refresh_wait"} \cup Verdicts : GoTo(c, l)
      BY <1>6 DEF Resolve, Decode, AccountKidMiss, AccountSignature, Verdicts
    <2>3. l \notin Holding /\ lock' = lock
      BY <1>6, <2>2 DEF Holding, Verdicts, Resolve, Decode, AccountKidMiss, AccountSignature
    <2> QED BY <1>u, <1>p, <2>1, <2>2, <2>3, LockStep
  <1>7. ASSUME NEW c \in Callers, AcquireRefresh(c) PROVE LockInv'
    <2>1. \A d \in Callers : job'[d].uri = job[d].uri
      BY <1>7, SameUri DEF AcquireRefresh
    <2>2. CASE GoTo(c, "account") /\ UNCHANGED lock
      <3>1. "account" \notin Holding
        BY DEF Holding
      <3> QED BY <1>u, <1>p, <2>1, <2>2, <3>1, LockStep
    <2>3. CASE GoTo(c, "refreshing") /\ lock' = [lock EXCEPT ![MyLock(c)] = c]
      <3>1. lock[MyLock(c)] = Nobody
        BY <1>7 DEF AcquireRefresh, Free
      <3> QED BY <1>u, <1>p, <2>1, <2>3, <3>1, LockStep
    <2> QED BY <1>7, <2>2, <2>3 DEF AcquireRefresh
  <1>8. ASSUME NEW c \in Callers,
               Return(c) \/ \E u \in Uris, t \in Tokens : Begin(c, u, t)
        PROVE  LockInv'
    <2>1. \A d \in Callers \ {c} : pc'[d] = pc[d] /\ job'[d] = job[d]
      BY <1>8 DEF Return, Begin, GoTo, TypeOK
    <2>2. pc'[c] \notin Holding /\ lock' = lock
      BY <1>8 DEF Return, Begin, GoTo, TypeOK, Holding
    <2> QED BY <2>1, <2>2 DEF LockInv, MyLock, FetchLock
  <1>9. ASSUME clear_jwks_cache \/ Tick \/ UNCHANGED vars
               \/ \E u \in Uris, S \in KeySets : Rotate(u, S)
        PROVE  LockInv'
    BY <1>9 DEF clear_jwks_cache, Tick, vars, Rotate, LockInv, MyLock, FetchLock
  <1> QED
    BY <1>1, <1>2, <1>3, <1>4, <1>5, <1>6, <1>7, <1>8, <1>9 DEF Next, Step

\* At any time at most one upstream JWKS request is in progress per fetch lock,
\* for every number of threads, tasks, loops, stripes and URIs.
THEOREM SingleFlightHolds == Spec => []SingleFlight
  <1>1. Init => LockInv
    BY DEF Init, LockInv, Holding
  <1>2. TypeOK /\ LockInv => SingleFlight
    BY DEF LockInv, SingleFlight, InFlight, Holding
  <1> QED BY <1>1, <1>2, LockInvStep, TypeCorrect, PTL DEF Spec

-----------------------------------------------------------------------------
(* The revocation bound.  FreshInv ties every key a caller may use to the  *)
(* last time its provider published it: entries are at most one timeout    *)
(* older than their cached_at, and a caller that may still surface a       *)
(* retained entry has seen that entry, or a newer one, unexpired.          *)

\* A withdrawn key stays withdrawn at its time, a published one is current.
LEMMA PublishedMonotone ==
    ASSUME TypeOK, EntryInv, [Next]_vars, NEW u \in Uris, NEW k \in Keys
    PROVE  LastPublished(u, k)' >= LastPublished(u, k)
  <1>1. gone[u][k] <= now /\ gone[u][k] \in Int /\ now \in Int
    BY BoundsAssumption DEF TypeOK, EntryInv, Time, LongAgo
  <1>2. ASSUME NEW v \in Uris, NEW S \in KeySets, Rotate(v, S)
        PROVE  LastPublished(u, k)' >= LastPublished(u, k)
    BY <1>1, <1>2 DEF Rotate, LastPublished, TypeOK
  <1>3. ASSUME Tick PROVE LastPublished(u, k)' >= LastPublished(u, k)
    BY <1>1, <1>3 DEF Tick, LastPublished
  <1>4. ASSUME now' = now /\ published' = published /\ gone' = gone
        PROVE  LastPublished(u, k)' >= LastPublished(u, k)
    BY <1>1, <1>4 DEF LastPublished
  <1>5. ASSUME NEW c \in Callers, Step(c)
        PROVE  now' = now /\ published' = published /\ gone' = gone
    BY <1>5 DEF Step, Lookup, Touch, AcquireFetch, TouchLocked, Answer, ApplyFetch, Resolve,
       Decode, AcquireRefresh, ApplyRefresh, AccountKidMiss, AccountSignature, Return
  <1>6. ASSUME NEW c \in Callers, NEW v \in Uris, NEW t \in Tokens, Begin(c, v, t)
        PROVE  now' = now /\ published' = published /\ gone' = gone
    BY <1>6 DEF Begin
  <1> QED BY <1>2, <1>3, <1>4, <1>5, <1>6 DEF Next, clear_jwks_cache, vars

\* Numbers: what the arithmetic of the invariant is about.
LEMMA Numbers ==
    ASSUME TypeOK
    PROVE  /\ now \in Nat /\ MaxFlight \in Nat /\ MaxTTL \in Nat \ {0}
           /\ \A c \in Callers : job[c].began \in Nat /\ job[c].since \in Nat
           /\ \A u \in Uris : entry[u] # NoEntry =>
                /\ entry[u].cached_at \in Nat /\ entry[u].ttl \in 1..MaxTTL
                /\ entry[u].resp \in Responses /\ entry[u].resp.keys \subseteq Keys
           /\ \A u \in Uris, k \in Keys : LastPublished(u, k) \in Int
           /\ \A c \in Callers : job[c].uri \in Uris /\ job[c].resp.keys \subseteq Keys
  <1>1. now \in Nat /\ MaxFlight \in Nat /\ MaxTTL \in Nat \ {0}
    BY BoundsAssumption DEF TypeOK, Time
  <1>2. \A c \in Callers : job[c].began \in Nat /\ job[c].since \in Nat
    BY BoundsAssumption DEF TypeOK, Jobs, Time
  <1>3. ASSUME NEW u \in Uris, entry[u] # NoEntry
        PROVE  /\ entry[u].cached_at \in Nat /\ entry[u].ttl \in 1..MaxTTL
               /\ entry[u].resp \in Responses /\ entry[u].resp.keys \subseteq Keys
    <2>1. entry[u] \in JwksCacheEntry
      BY <1>3 DEF TypeOK
    <2> QED BY <2>1, BoundsAssumption DEF JwksCacheEntry, Responses, Time
  <1>4. ASSUME NEW u \in Uris, NEW k \in Keys PROVE LastPublished(u, k) \in Int
    BY BoundsAssumption DEF TypeOK, LastPublished, Time, LongAgo
  <1>5. \A c \in Callers : job[c].uri \in Uris /\ job[c].resp.keys \subseteq Keys
    BY DEF TypeOK, Jobs, Responses
  <1> QED BY <1>1, <1>2, <1>3, <1>4, <1>5

\* A step of caller c at a fixed time: what has to be shown of it alone.
LEMMA FreshStep ==
    ASSUME TypeOK, TypeOK', FreshInv, NEW c \in Callers,
           now' = now, published' = published, gone' = gone,
           \A d \in Callers \ {c} : pc'[d] = pc[d] /\ job'[d] = job[d],
           \A u \in Uris : \/ entry'[u] = entry[u]
                           \/ entry'[u] = NoEntry
                           \/ /\ entry'[u].cached_at = now
                              /\ KeysSince(u, entry'[u].resp.keys, now - MaxFlight),
           CallerInv(c)'
    PROVE  FreshInv'
  <1>1. \A u, k : LastPublished(u, k)' = LastPublished(u, k)
    BY DEF LastPublished
  <1>2. EntryInv'
    BY <1>1 DEF FreshInv, EntryInv, KeysSince
  <1>3. ASSUME NEW d \in Callers, d # c PROVE CallerInv(d)'
    <2>1. pc'[d] = pc[d] /\ job'[d] = job[d] /\ CallerInv(d)
      BY <1>3 DEF FreshInv
    <2>2. Relies(d)' <=> Relies(d)
      BY <2>1 DEF Relies, Validates
    <2>3. Relies(d) /\ entry'[job[d].uri] # NoEntry
            => entry'[job[d].uri].cached_at + entry'[job[d].uri].ttl > job[d].began
      <3>1. job[d].uri \in Uris /\ job[d].began \in Nat /\ now \in Nat
        BY Numbers
      <3>2. entry'[job[d].uri] # NoEntry => entry'[job[d].uri].ttl \in 1..MaxTTL
        <4>1. TypeOK' => \A u \in Uris : entry'[u] \in JwksCacheEntry \cup {NoEntry}
          BY DEF TypeOK
        <4>2. \A e \in JwksCacheEntry : e.ttl \in 1..MaxTTL
          BY BoundsAssumption DEF JwksCacheEntry
        <4> QED BY <3>1, <4>1, <4>2
      <3> QED BY <2>1, <3>1, <3>2, BoundsAssumption DEF CallerInv
    <2> QED BY <1>1, <2>1, <2>2, <2>3 DEF CallerInv, KeysSince
  <1> QED BY <1>2, <1>3 DEF FreshInv

\* The fields of a caller's record after it learns something or starts to wait.
LEMMA JobFields ==
    ASSUME TypeOK, NEW c \in Callers
    PROVE  /\ \A r, f : LET j == Learned(c, r, f) IN
                /\ j[c].uri = job[c].uri /\ j[c].began = job[c].began
                /\ j[c].token = job[c].token /\ j[c].resp = r
                /\ \A d \in Callers \ {c} : j[d] = job[d]
           /\ \A p : LET j == Waiting(c, p) IN
                /\ j[c].uri = job[c].uri /\ j[c].began = job[c].began
                /\ j[c].token = job[c].token /\ j[c].resp = job[c].resp
                /\ j[c].since = now
                /\ \A d \in Callers \ {c} : j[d] = job[d]
  BY DEF TypeOK, Learned, Waiting, Jobs

\* apply_jwks_cache_outcome leaves an entry, drops it, or caches the answer now.
LEMMA ApplyEntries ==
    ASSUME TypeOK, NEW u \in Uris, NEW r \in Responses, apply_jwks_cache_outcome(u, r)
    PROVE  \A v \in Uris :
             \/ entry'[v] = entry[v]
             \/ entry'[v] = NoEntry
             \/ /\ v = u /\ Validates(r)
                /\ entry'[v].cached_at = now /\ entry'[v].resp = r
  BY DEF apply_jwks_cache_outcome, Validates

\* The same, where the answer is stored: the entry of u is new or evicted.
LEMMA ApplyStores ==
    ASSUME TypeOK, NEW u \in Uris, NEW r \in Responses, apply_jwks_cache_outcome(u, r),
           Validates(r)
    PROVE  entry'[u] = NoEntry \/ entry'[u].cached_at = now
  BY DEF apply_jwks_cache_outcome, Validates

\* Every step keeps the age of keys: of entries, of answers and of keys in hand.
LEMMA FreshInvStep == TypeOK /\ FreshInv /\ [Next]_vars => FreshInv'
  <1> SUFFICES ASSUME TypeOK, FreshInv, [Next]_vars PROVE FreshInv'
    OBVIOUS
  <1>t. TypeOK'
    BY TypeStep
  <1>n. ASSUME NEW c \in Callers PROVE CallerInv(c)
    BY DEF FreshInv
  <1>p. ASSUME NEW c \in Callers, NEW l, GoTo(c, l)
        PROVE  pc'[c] = l /\ \A d \in Callers \ {c} : pc'[d] = pc[d]
    BY <1>p DEF GoTo, TypeOK
  \* c has keys in hand that are fresh enough, and its entry is too.
  <1>r. ASSUME NEW c \in Callers, UNCHANGED <<now, published, gone>>,
               pc'[c] \in {"touch", "touch_locked", "account"},
               job'[c].began = job[c].began, job'[c].uri = job[c].uri,
               KeysSince(job[c].uri, job'[c].resp.keys, job[c].began - MaxTTL - MaxFlight + 1),
               entry'[job[c].uri] = NoEntry
                 \/ entry'[job[c].uri].cached_at + entry'[job[c].uri].ttl > job[c].began
        PROVE  CallerInv(c)'
    <2>1. pc'[c] \notin InFlight /\ pc'[c] \notin {"fetched", "refreshed"} /\ pc'[c] # "accepted"
      BY <1>r DEF InFlight
    <2>2. KeysSince(job[c].uri, job[c].resp.keys, job[c].began - MaxTTL - MaxFlight + 1)'
      BY <1>r DEF KeysSince, LastPublished
    <2> QED BY <1>r, <1>n, <2>1, <2>2 DEF CallerInv
  \* The keys that c has in hand are those of r.
  <1>j. ASSUME NEW c \in Callers, NEW l \in {"touch", "touch_locked", "account"}, GoTo(c, l),
               NEW r, NEW f, job' = Learned(c, r, f), UNCHANGED <<now, published, gone>>,
               KeysSince(job[c].uri, r.keys, job[c].began - MaxTTL - MaxFlight + 1),
               entry'[job[c].uri] = NoEntry
                 \/ entry'[job[c].uri].cached_at + entry'[job[c].uri].ttl > job[c].began
        PROVE  CallerInv(c)'
    <2>1. pc'[c] \in {"touch", "touch_locked", "account"}
      BY <1>j, <1>p
    <2>2. job'[c].began = job[c].began /\ job'[c].uri = job[c].uri /\ job'[c].resp = r
      BY <1>j, JobFields
    <2>3. KeysSince(job[c].uri, job'[c].resp.keys, job[c].began - MaxTTL - MaxFlight + 1)
      BY <1>j, <2>2
    <2> QED BY <1>j, <1>r, <2>1, <2>2, <2>3
  <1>k. ASSUME NEW u \in Uris, entry[u] # NoEntry, NEW b \in Nat,
               entry[u].cached_at + entry[u].ttl > b
        PROVE  KeysSince(u, entry[u].resp.keys, b - MaxTTL - MaxFlight + 1)
    BY <1>k, Numbers DEF FreshInv, EntryInv, KeysSince
  \* A read of an unexpired entry, with or without the fetch lock.
  <1>h. ASSUME NEW c \in Callers, NEW l \in {"touch", "touch_locked"}, Usable(job[c].uri),
               GoTo(c, l), job' = Learned(c, entry[job[c].uri].resp, "hit"),
               UNCHANGED <<now, published, gone, entry>>
        PROVE  FreshInv'
    <2> DEFINE u == job[c].uri
    <2>1. entry[u] # NoEntry /\ entry[u].cached_at + entry[u].ttl > job[c].began
      BY <1>h, <1>n, Numbers DEF Usable, is_cache_expired, CallerInv
    <2>2. KeysSince(u, entry[u].resp.keys, job[c].began - MaxTTL - MaxFlight + 1)
      BY <1>k, <2>1, Numbers
    <2>3. CallerInv(c)'
      <3>1. entry'[u] = entry[u]
        BY <1>h
      <3> QED BY <1>h, <1>j, <2>1, <2>2, <3>1
    <2> QED BY <1>h, <1>p, <1>t, <2>3, JobFields, FreshStep
  \* A request is sent.
  <1>s. ASSUME NEW c \in Callers, NEW l \in {"fetching", "refreshing"},
               l = "refreshing" => Relies(c), GoTo(c, l),
               job' = Waiting(c, job[c].path), UNCHANGED <<now, published, gone, entry>>
        PROVE  FreshInv'
    <2>1. l \notin {"fetched", "refreshed", "accepted"} /\ l \notin InHand
      BY DEF InHand, Verdicts
    <2>2. CallerInv(c)'
      BY <1>s, <1>n, <1>p, <2>1, JobFields, Numbers DEF CallerInv, Relies
    <2> QED BY <1>s, <1>p, <1>t, <2>2, JobFields, FreshStep
  <1>1. ASSUME NEW c \in Callers, Lookup(c) PROVE FreshInv'
    <2>1. CASE Usable(job[c].uri)
      BY <1>1, <1>h, <2>1 DEF Lookup
    <2>2. CASE ~Usable(job[c].uri)
      <3>1. GoTo(c, "fetch_wait") /\ UNCHANGED <<job, now, published, gone, entry>>
        BY <1>1, <2>2 DEF Lookup
      <3>2. CallerInv(c)'
        BY <1>n, <1>p, <3>1 DEF CallerInv, InFlight, InHand, Verdicts, Relies
      <3> QED BY <1>p, <1>t, <3>1, <3>2, FreshStep
    <2> QED BY <2>1, <2>2
  <1>2. ASSUME NEW c \in Callers, Touch(c) \/ TouchLocked(c) PROVE FreshInv'
    <2>1. GoTo(c, "resolve") /\ UNCHANGED <<job, now, published, gone, entry>>
      BY <1>2 DEF Touch, TouchLocked
    <2>2. pc[c] \in {"touch", "touch_locked"}
      BY <1>2 DEF Touch, TouchLocked
    <2>3. CallerInv(c)'
      BY <1>n, <1>p, <2>1, <2>2
      DEF CallerInv, KeysSince, LastPublished, InFlight, InHand, Verdicts, Relies
    <2> QED BY <1>p, <1>t, <2>1, <2>3, FreshStep
  <1>3. ASSUME NEW c \in Callers, AcquireFetch(c) PROVE FreshInv'
    <2>1. CASE Usable(job[c].uri)
      BY <1>3, <1>h, <2>1 DEF AcquireFetch
    <2>2. CASE ~Usable(job[c].uri)
      <3>1. GoTo(c, "fetching") /\ job' = Waiting(c, job[c].path)
        BY <1>3, <2>2 DEF AcquireFetch
      <3>2. UNCHANGED <<now, published, gone, entry>>
        BY <1>3 DEF AcquireFetch
      <3> QED BY <1>s, <3>1, <3>2
    <2> QED BY <2>1, <2>2
  <1>4. ASSUME NEW c \in Callers, NEW r \in Answers(job[c].uri), Answer(c, r) PROVE FreshInv'
    <2> DEFINE l == IF pc[c] = "fetching" THEN "fetched" ELSE "refreshed"
               u == job[c].uri
    <2>1. /\ GoTo(c, l) /\ job' = [job EXCEPT ![c] = [@ EXCEPT !.resp = r]]
          /\ UNCHANGED <<now, published, gone, entry>> /\ pc[c] \in {"fetching", "refreshing"}
      BY <1>4 DEF Answer
    <2>2. r.keys \subseteq published[u]
      <3>1. CASE r = Failure
        BY <3>1 DEF Failure
      <3>2. CASE r \in [ok : {TRUE}, keys : {published[u], {}}, maxAge : MaxAges]
        BY <3>2
      <3> QED BY <3>1, <3>2 DEF Answers
    <2>3. /\ job'[c].uri = u /\ job'[c].began = job[c].began /\ job'[c].since = job[c].since
          /\ job'[c].resp = r /\ \A d \in Callers \ {c} : job'[d] = job[d]
      BY <2>1 DEF TypeOK, Jobs
    <2>4. KeysSince(u, r.keys, job[c].since)
      BY <1>n, <2>1, <2>2, Numbers DEF KeysSince, LastPublished, CallerInv, InFlight
    <2>5. CallerInv(c)'
      BY <1>n, <1>p, <2>1, <2>3, <2>4
      DEF CallerInv, KeysSince, LastPublished, InFlight, InHand, Verdicts, Relies
    <2> QED BY <1>p, <1>t, <2>1, <2>3, <2>5, FreshStep
  <1>5. ASSUME NEW c \in Callers, ApplyFetch(c) PROVE FreshInv'
    <2> DEFINE u == job[c].uri
               r == job[c].resp
    <2>1. /\ pc[c] = "fetched" /\ GoTo(c, "resolve") /\ job' = Learned(c, r, "fetch")
          /\ apply_jwks_cache_outcome(u, r) /\ UNCHANGED <<now, published, gone>>
      BY <1>5 DEF ApplyFetch
    <2>2. u \in Uris /\ r \in Responses
      BY DEF TypeOK, Jobs
    <2>3. KeysSince(u, r.keys, job[c].since) /\ now - job[c].since <= MaxFlight
          /\ job[c].began <= job[c].since /\ job[c].began <= now
      BY <1>n, <2>1 DEF CallerInv, InFlight
    <2>4. KeysSince(u, r.keys, now - MaxFlight)
          /\ KeysSince(u, r.keys, job[c].began - MaxTTL - MaxFlight + 1)
      BY <2>3, Numbers DEF KeysSince
    <2>5. \A v \in Uris : \/ entry'[v] = entry[v]
                          \/ entry'[v] = NoEntry
                          \/ /\ entry'[v].cached_at = now
                             /\ KeysSince(v, entry'[v].resp.keys, now - MaxFlight)
      BY <2>1, <2>2, <2>4, ApplyEntries
    <2>6. Validates(r) => entry'[u] = NoEntry \/ entry'[u].cached_at + entry'[u].ttl > job[c].began
      <3>1. entry'[u] # NoEntry => entry'[u].ttl \in 1..MaxTTL
        BY <1>t, <2>2, BoundsAssumption DEF TypeOK, JwksCacheEntry
      <3> QED BY <2>1, <2>2, <2>3, <3>1, ApplyStores, Numbers
    <2>7. CallerInv(c)'
      BY <1>p, <2>1, <2>3, <2>4, <2>6, JobFields
      DEF CallerInv, KeysSince, LastPublished, InFlight, InHand, Verdicts, Relies
    <2> QED BY <1>p, <1>t, <2>1, <2>5, <2>7, JobFields, FreshStep
  <1>6. ASSUME NEW c \in Callers, Resolve(c) \/ Decode(c) PROVE FreshInv'
    <2>1. PICK l \in {"decode", "refresh_wait", "accepted", "unavailable", "no_match", "suppressed"} :
            /\ GoTo(c, l)
            /\ l = "accepted" => Verifies(job[c].token, job[c].resp.keys)
            /\ l \in {"decode", "refresh_wait"} => Relies(c)
      BY <1>6 DEF Resolve, Decode, Relies
    <2>2. (job' = job \/ \E p : job' = Waiting(c, p)) /\ UNCHANGED <<now, published, gone, entry>>
      BY <1>6 DEF Resolve, Decode
    <2>3. /\ job'[c].uri = job[c].uri /\ job'[c].began = job[c].began
          /\ job'[c].resp = job[c].resp /\ job'[c].token = job[c].token
          /\ \A d \in Callers \ {c} : job'[d] = job[d]
      BY <2>2, JobFields
    <2>4. pc[c] \in InHand
      BY <1>6 DEF Resolve, Decode, InHand
    <2>5. CallerInv(c)'
      BY <1>n, <1>p, <2>1, <2>2, <2>3, <2>4
      DEF CallerInv, KeysSince, LastPublished, InFlight, InHand, Verdicts, Relies
    <2> QED BY <1>p, <1>t, <2>1, <2>2, <2>3, <2>5, FreshStep
  <1>7. ASSUME NEW c \in Callers, AcquireRefresh(c) PROVE FreshInv'
    <2> DEFINE u == job[c].uri
               guard == entry[u] # NoEntry /\ entry[u].cached_at >= now
    <2>0. pc[c] = "refresh_wait" /\ UNCHANGED <<now, published, gone, entry>>
      BY <1>7 DEF AcquireRefresh
    <2>1. CASE guard
      <3>1. GoTo(c, "account") /\ job' = Learned(c, entry[u].resp, "coalesced")
        BY <1>7, <2>1 DEF AcquireRefresh
      <3>2. entry[u].cached_at + entry[u].ttl > job[c].began
        BY <1>n, <2>1, Numbers DEF CallerInv
      <3>3. KeysSince(u, entry[u].resp.keys, job[c].began - MaxTTL - MaxFlight + 1)
        BY <1>k, <2>1, <3>2, Numbers
      <3>4. CallerInv(c)'
        BY <1>j, <2>0, <3>1, <3>2, <3>3
      <3> QED BY <1>p, <1>t, <2>0, <3>1, <3>4, JobFields, FreshStep
    <2>2. CASE ~guard
      <3>1. GoTo(c, "refreshing") /\ job' = Waiting(c, job[c].path)
        BY <1>7, <2>2 DEF AcquireRefresh
      <3>2. Relies(c)
        BY <2>0 DEF Relies
      <3> QED BY <1>s, <2>0, <3>1, <3>2
    <2> QED BY <2>1, <2>2
  <1>8. ASSUME NEW c \in Callers, ApplyRefresh(c) PROVE FreshInv'
    <2> DEFINE u == job[c].uri
               r == job[c].resp
               keeps == r.ok /\ r.keys = {} /\ entry[u] # NoEntry
    <2>1. /\ pc[c] = "refreshed" /\ GoTo(c, "account")
          /\ job' = IF keeps THEN Learned(c, entry[u].resp, "retained")
                             ELSE Learned(c, r, "refresh")
          /\ apply_jwks_cache_outcome(u, r) /\ UNCHANGED <<now, published, gone>>
      BY <1>8 DEF ApplyRefresh
    <2>2. u \in Uris /\ r \in Responses
      BY DEF TypeOK, Jobs
    <2>3. KeysSince(u, r.keys, job[c].since) /\ now - job[c].since <= MaxFlight
          /\ job[c].began <= job[c].since /\ job[c].began <= now
      BY <1>n, <2>1 DEF CallerInv, InFlight
    <2>4. KeysSince(u, r.keys, now - MaxFlight)
          /\ KeysSince(u, r.keys, job[c].began - MaxTTL - MaxFlight + 1)
      BY <2>3, Numbers DEF KeysSince
    <2>5. \A v \in Uris : \/ entry'[v] = entry[v]
                          \/ entry'[v] = NoEntry
                          \/ /\ entry'[v].cached_at = now
                             /\ KeysSince(v, entry'[v].resp.keys, now - MaxFlight)
      BY <2>1, <2>2, <2>4, ApplyEntries
    <2>6. entry[u] # NoEntry => entry[u].cached_at + entry[u].ttl > job[c].began
      BY <1>n, <2>1 DEF CallerInv, Relies
    <2>7. entry'[u] = NoEntry \/ entry'[u].cached_at + entry'[u].ttl > job[c].began
      <3>1. entry'[u] # NoEntry => entry'[u].ttl \in 1..MaxTTL
        BY <1>t, <2>2, BoundsAssumption DEF TypeOK, JwksCacheEntry
      <3> QED BY <2>1, <2>2, <2>3, <2>5, <2>6, <3>1, Numbers
    <2>8. keeps => KeysSince(u, entry[u].resp.keys, job[c].began - MaxTTL - MaxFlight + 1)
      BY <1>k, <2>2, <2>6, Numbers
    <2>9. CallerInv(c)'
      <3>1. CASE keeps
        <4>1. job' = Learned(c, entry[u].resp, "retained")
          BY <2>1, <3>1
        <4> QED BY <1>j, <2>1, <2>7, <2>8, <3>1, <4>1
      <3>2. CASE ~keeps
        <4>1. job' = Learned(c, r, "refresh")
          BY <2>1, <3>2
        <4> QED BY <1>j, <2>1, <2>4, <2>7, <4>1
      <3> QED BY <3>1, <3>2
    <2> QED BY <1>p, <1>t, <2>1, <2>5, <2>9, JobFields, FreshStep
  <1>9. ASSUME NEW c \in Callers, AccountKidMiss(c) \/ AccountSignature(c) PROVE FreshInv'
    <2>1. PICK l \in {"decode", "accepted", "unavailable", "no_match", "bad_signature"} :
            /\ GoTo(c, l)
            /\ l = "accepted" => Verifies(job[c].token, job[c].resp.keys)
      BY <1>9 DEF AccountKidMiss, AccountSignature
    <2>2. pc[c] = "account" /\ UNCHANGED <<job, now, published, gone, entry>>
      BY <1>9 DEF AccountKidMiss, AccountSignature
    <2>3. CallerInv(c)'
      BY <1>n, <1>p, <2>1, <2>2
      DEF CallerInv, KeysSince, LastPublished, InFlight, InHand, Verdicts, Relies
    <2> QED BY <1>p, <1>t, <2>1, <2>2, <2>3, FreshStep
  <1>10. ASSUME NEW c \in Callers, Return(c) \/ \E u \in Uris, t \in Tokens : Begin(c, u, t)
         PROVE  FreshInv'
    <2>1. pc'[c] \in {"idle", "lookup"} /\ UNCHANGED <<now, published, gone, entry>>
      BY <1>10 DEF Return, Begin, GoTo, TypeOK
    <2>2. \A d \in Callers \ {c} : pc'[d] = pc[d] /\ job'[d] = job[d]
      BY <1>10 DEF Return, Begin, GoTo, TypeOK
    <2>3. job'[c].began <= now
      <3>1. NoJob.began = 0 /\ \A u, t : [NoJob EXCEPT !.uri = u, !.token = t, !.began = now].began = now
        BY DEF NoJob
      <3>2. job'[c].began \in {0, now}
        <4>1. CASE Return(c)
          BY <3>1, <4>1 DEF Return, TypeOK
        <4>2. CASE \E u \in Uris, t \in Tokens : Begin(c, u, t)
          <5>1. PICK u \in Uris, t \in Tokens :
                  job' = [job EXCEPT ![c] = [NoJob EXCEPT !.uri = u, !.token = t, !.began = now]]
            BY <4>2 DEF Begin
          <5> QED BY <3>1, <5>1 DEF TypeOK
        <4> QED BY <1>10, <4>1, <4>2
      <3> QED BY <3>2, Numbers
    <2>4. CallerInv(c)'
      BY <2>1, <2>3 DEF CallerInv, InFlight, InHand, Verdicts, Relies
    <2> QED BY <1>t, <2>1, <2>2, <2>4, FreshStep
  <1>11. ASSUME clear_jwks_cache PROVE FreshInv'
    <2>1. UNCHANGED <<now, published, gone, pc, job>> /\ \A u \in Uris : entry'[u] = NoEntry
      BY <1>11 DEF clear_jwks_cache
    <2>2. EntryInv'
      BY <2>1 DEF FreshInv, EntryInv
    <2>3. ASSUME NEW c \in Callers PROVE CallerInv(c)'
      <3>1. entry'[job[c].uri] = NoEntry
        BY <2>1, Numbers
      <3> QED BY <1>n, <2>1, <3>1 DEF CallerInv, KeysSince, LastPublished
    <2> QED BY <2>2, <2>3 DEF FreshInv
  <1>12. ASSUME Tick \/ \E u \in Uris, S \in KeySets : Rotate(u, S) PROVE FreshInv'
    <2>1. UNCHANGED <<entry, pc, job>> /\ now' \in Nat /\ now' >= now
      BY <1>12, Numbers DEF Tick, Rotate
    <2>2. \A u \in Uris, k \in Keys :
            /\ LastPublished(u, k) \in Int /\ LastPublished(u, k)' \in Int
            /\ LastPublished(u, k)' >= LastPublished(u, k)
      BY <1>t, Numbers, PublishedMonotone, BoundsAssumption
      DEF FreshInv, LastPublished, TypeOK, Time, LongAgo
    <2>3. \A u \in Uris, k \in Keys : gone'[u][k] <= now'
      <3>1. \A u \in Uris, k \in Keys : gone[u][k] <= now /\ gone[u][k] \in Int
        BY BoundsAssumption DEF FreshInv, EntryInv, TypeOK, Time, LongAgo
      <3>2. CASE Tick
        BY <2>1, <3>1, <3>2, Numbers DEF Tick
      <3>3. ASSUME NEW v \in Uris, NEW S \in KeySets, Rotate(v, S)
            PROVE  \A u \in Uris, k \in Keys : gone'[u][k] <= now'
        <4>1. \A u \in Uris, k \in Keys : gone'[u][k] = now \/ gone'[u][k] = gone[u][k]
          BY <3>3 DEF Rotate, TypeOK
        <4>2. now' = now
          BY <3>3 DEF Rotate
        <4> QED BY <3>1, <4>1, <4>2, Numbers
      <3> QED BY <1>12, <3>2, <3>3
    <2>4. \A u \in Uris, K \in SUBSET Keys, t \in Int : KeysSince(u, K, t) => KeysSince(u, K, t)'
      BY <2>2 DEF KeysSince
    <2>5. EntryInv'
      BY <2>1, <2>3, <2>4, Numbers DEF FreshInv, EntryInv
    <2>6. ASSUME NEW c \in Callers PROVE CallerInv(c)'
      <3>1. pc[c] \in InFlight => now' - job[c].since <= MaxFlight
        BY <1>12, <1>n, <2>1, Numbers DEF Tick, Rotate, CallerInv
      <3>2. Relies(c)' <=> Relies(c)
        BY <2>1 DEF Relies, Validates
      <3> QED BY <1>n, <2>1, <2>4, <3>1, <3>2, Numbers DEF CallerInv
    <2> QED BY <2>5, <2>6 DEF FreshInv
  <1>13. ASSUME UNCHANGED vars PROVE FreshInv'
    BY <1>13 DEF vars, FreshInv, EntryInv, CallerInv, KeysSince, LastPublished, Relies, Validates,
       Verifies
  <1> QED
    BY <1>1, <1>2, <1>3, <1>4, <1>5, <1>6, <1>7, <1>8, <1>9, <1>10, <1>11, <1>12, <1>13
    DEF Next, Step

\* For every configuration, validate_token accepts only signatures by keys that
\* were published less than one TTL and one HTTP timeout before the call began.
THEOREM RevocationBound == Spec => []RevokedKeyBound
  <1>1. Init => FreshInv
    <2>1. SUFFICES ASSUME Init PROVE FreshInv
      OBVIOUS
    <2>2. \A u \in Uris, k \in Keys : gone[u][k] <= now
      BY <2>1, BoundsAssumption DEF Init, LongAgo
    <2>3. ASSUME NEW c \in Callers PROVE CallerInv(c)
      BY <2>1 DEF Init, CallerInv, NoJob, InFlight, InHand, Verdicts, Relies
    <2> QED BY <2>1, <2>2, <2>3 DEF Init, FreshInv, EntryInv
  <1>2. TypeOK /\ FreshInv => RevokedKeyBound
    <2>1. SUFFICES ASSUME TypeOK, FreshInv, NEW c \in Callers, pc[c] = "accepted"
                   PROVE  \E k \in Keys :
                            /\ k.mat = job[c].token.mat
                            /\ LastPublished(job[c].uri, k) > job[c].began - MaxTTL - MaxFlight
      BY DEF RevokedKeyBound
    <2>2. CallerInv(c)
      BY <2>1 DEF FreshInv
    <2>k. job[c].resp.keys \in SUBSET Keys
      BY <2>1 DEF TypeOK, Jobs, Responses
    <2>3. PICK k \in job[c].resp.keys : k.mat = job[c].token.mat
      <3>1. Candidates[job[c].resp.keys] \subseteq job[c].resp.keys
        BY <2>k, KeysAssumption
      <3> QED BY <2>1, <2>2, <3>1 DEF CallerInv, Verifies, find_key_by_kid
    <2>4. LastPublished(job[c].uri, k) >= job[c].began - MaxTTL - MaxFlight + 1
      BY <2>1, <2>2, <2>3 DEF CallerInv, KeysSince, InHand, Verdicts
    <2> QED BY <2>1, <2>3, <2>4, Numbers
  <1> QED BY <1>1, <1>2, FreshInvStep, TypeCorrect, PTL DEF Spec

-----------------------------------------------------------------------------
(* The OrderedDict.  CacheWellFormed is inductive: the write lock makes    *)
(* every change of _jwks_cache one step, and the key that was just written *)
(* is the newest one.                                                      *)

\* A key that is there moves to the end, a key that is not stays away.
LEMMA TouchWellFormed ==
    ASSUME TypeOK, CacheWellFormed, NEW u \in Uris, touch_cache_entry(u), UNCHANGED entry
    PROVE  CacheWellFormed'
  <1>1. order \in Seq(Uris) /\ IsInjective(order)
    BY DEF TypeOK, CacheWellFormed, IsInjective
  <1>2. CASE Contains(order, u)
    <2> DEFINE p == Popped(order, u)
    <2>1. u \in ToSet(order)
      BY <1>1, <1>2 DEF Contains, ToSet
    <2>2. /\ p \in Seq(Uris) /\ IsInjective(p) /\ ToSet(p) = ToSet(order) \ {u}
          /\ Len(p) + 1 = Len(order)
      BY <1>1, <2>1, PoppedFacts
    <2>3. order' = Append(p, u)
      BY <1>2 DEF touch_cache_entry
    <2> HIDE DEF p
    <2>4. /\ order' \in Seq(Uris) /\ IsInjective(order')
          /\ ToSet(order') = ToSet(order) /\ Len(order') = Len(order)
      <3>1. u \notin ToSet(p)
        BY <2>2
      <3>2. /\ Append(p, u) \in Seq(Uris) /\ IsInjective(Append(p, u))
            /\ ToSet(Append(p, u)) = ToSet(p) \cup {u} /\ Len(Append(p, u)) = Len(p) + 1
        BY <2>2, <3>1, AppendFacts
      <3>3. ToSet(p) \cup {u} = ToSet(order)
        BY <2>1, <2>2
      <3> QED BY <2>2, <2>3, <3>2, <3>3
    <2> QED BY <2>4 DEF CacheWellFormed, IsInjective
  <1>3. CASE ~Contains(order, u)
    BY <1>3 DEF touch_cache_entry, CacheWellFormed
  <1> QED BY <1>2, <1>3

\* An answer that is stored becomes the newest key; what _enforce_size_limit drops
\* loses its entry in the same step.
LEMMA ApplyWellFormed ==
    ASSUME TypeOK, CacheWellFormed, NEW u \in Uris, NEW r \in Responses,
           apply_jwks_cache_outcome(u, r)
    PROVE  CacheWellFormed'
  <1>1. order \in Seq(Uris) /\ IsInjective(order)
    BY DEF TypeOK, CacheWellFormed, IsInjective
  <1>2. CASE ~r.ok \/ r.keys = {}
    BY <1>2 DEF apply_jwks_cache_outcome, CacheWellFormed
  <1>3. CASE ~(~r.ok \/ r.keys = {})
    <2> DEFINE p == Popped(order, u)
               full == Append(p, u)
               kept == _enforce_size_limit(full)
               evicted == {v \in ToSet(full) : v \notin ToSet(kept)}
               e == [resp |-> r, cached_at |-> now, ttl |-> resolve_ttl(r.maxAge)]
    <2>1. /\ order' = kept
          /\ entry' = [v \in Uris |-> IF v \in evicted THEN NoEntry
                                      ELSE IF v = u THEN e ELSE entry[v]]
      BY <1>3 DEF apply_jwks_cache_outcome
    <2>2. p \in Seq(Uris) /\ IsInjective(p) /\ ToSet(p) = ToSet(order) \ {u}
      BY <1>1, PoppedFacts
    <2>3. e # NoEntry
      <3>1. r.maxAge \in MaxAges \cup {NoMaxAge}
        BY DEF Responses
      <3>2. e \in JwksCacheEntry
        BY <3>1, ResolveTtlType DEF JwksCacheEntry, TypeOK
      <3> QED BY <3>2, NoEntryAssumption
    <2> HIDE DEF p, e
    <2>4. full \in Seq(Uris) /\ IsInjective(full) /\ ToSet(full) = ToSet(order) \cup {u}
      BY <2>2, AppendFacts
    <2> HIDE DEF full
    <2>5. /\ kept \in Seq(Uris) /\ IsInjective(kept) /\ ToSet(kept) \subseteq ToSet(full)
          /\ Len(kept) <= MaxEntries
      BY <2>4, NewestFacts, BoundsAssumption DEF _enforce_size_limit
    <2> HIDE DEF kept
    <2>6. ToSet(full) \subseteq Uris
      BY <2>4 DEF ToSet
    <2>7. ToSet(kept) = {v \in Uris : entry'[v] # NoEntry}
      BY <2>1, <2>3, <2>4, <2>5, <2>6 DEF CacheWellFormed
    <2> QED BY <2>1, <2>5, <2>7 DEF CacheWellFormed, IsInjective
  <1> QED BY <1>2, <1>3

\* Whatever callers do between a lock-free read, its touch and a write, the keys of
\* the OrderedDict are distinct, at most MaxEntries, and exactly the cached URIs.
THEOREM CacheWellFormedHolds == Spec => []CacheWellFormed
  <1>1. Init => CacheWellFormed
    BY BoundsAssumption DEF Init, CacheWellFormed, ToSet
  <1>2. TypeOK /\ CacheWellFormed /\ [Next]_vars => CacheWellFormed'
    <2> SUFFICES ASSUME TypeOK, CacheWellFormed, [Next]_vars PROVE CacheWellFormed'
      OBVIOUS
    <2>j. ASSUME NEW c \in Callers PROVE job[c].uri \in Uris /\ job[c].resp \in Responses
      BY DEF TypeOK, Jobs
    <2>1. ASSUME NEW c \in Callers, Touch(c) \/ TouchLocked(c) PROVE CacheWellFormed'
      BY <2>1, <2>j, TouchWellFormed DEF Touch, TouchLocked
    <2>2. ASSUME NEW c \in Callers, ApplyFetch(c) \/ ApplyRefresh(c) PROVE CacheWellFormed'
      <3>1. apply_jwks_cache_outcome(job[c].uri, job[c].resp)
        BY <2>2 DEF ApplyFetch, ApplyRefresh
      <3> QED BY <2>j, <3>1, ApplyWellFormed
    <2>3. ASSUME clear_jwks_cache PROVE CacheWellFormed'
      BY <2>3, BoundsAssumption DEF clear_jwks_cache, CacheWellFormed, ToSet
    <2>4. ASSUME UNCHANGED <<entry, order>> PROVE CacheWellFormed'
      BY <2>4 DEF CacheWellFormed
    <2>5. ASSUME NEW c \in Callers,
                 \/ Lookup(c) \/ AcquireFetch(c) \/ Resolve(c) \/ Decode(c) \/ AcquireRefresh(c)
                 \/ \E r \in Answers(job[c].uri) : Answer(c, r)
                 \/ AccountKidMiss(c) \/ AccountSignature(c) \/ Return(c)
                 \/ \E u \in Uris, t \in Tokens : Begin(c, u, t)
          PROVE  UNCHANGED <<entry, order>>
      BY <2>5 DEF Lookup, AcquireFetch, Resolve, Decode, AcquireRefresh, Answer, AccountKidMiss,
         AccountSignature, Return, Begin
    <2>6. ASSUME Tick \/ UNCHANGED vars \/ \E u \in Uris, S \in KeySets : Rotate(u, S)
          PROVE  UNCHANGED <<entry, order>>
      BY <2>6 DEF Tick, vars, Rotate
    <2> QED BY <2>1, <2>2, <2>3, <2>4, <2>5, <2>6 DEF Next, Step
  <1> QED BY <1>1, <1>2, TypeCorrect, PTL DEF Spec

-----------------------------------------------------------------------------
(* No late overwrite.  With one event loop the requests for a URI exclude  *)
(* each other, so nobody can have cached anything since a request began.   *)

\* Entries were cached in the past, and before any request in progress for their URI.
OverwriteInv ==
    /\ \A u \in Uris : entry[u] # NoEntry => entry[u].cached_at <= now
    /\ NoLateOverwrite

\* With one loop, callers of one URI share its lock.
LEMMA OneLoopLock ==
    ASSUME TypeOK, \A l, m \in Loops : l = m, NEW c \in Callers, NEW d \in Callers,
           job[c].uri = job[d].uri
    PROVE  MyLock(c) = MyLock(d)
  BY LocksAssumption DEF MyLock, FetchLock

\* A step of caller c that at most drops entries: what has to be shown of c alone.
LEMMA OverwriteFrame ==
    ASSUME TypeOK, OverwriteInv, NEW c \in Callers, now' = now,
           \A d \in Callers \ {c} : pc'[d] = pc[d] /\ job'[d] = job[d],
           \A u \in Uris : entry'[u] = entry[u] \/ entry'[u] = NoEntry,
           pc'[c] \in InFlight =>
                /\ job'[c].uri = job[c].uri
                /\ \/ job'[c].since = now
                   \/ pc[c] \in InFlight /\ job'[c].since = job[c].since
    PROVE  OverwriteInv'
  <1>1. \A u \in Uris : entry'[u] # NoEntry => entry'[u].cached_at <= now'
    BY DEF OverwriteInv
  <1>2. ASSUME NEW d \in Callers, pc'[d] \in InFlight, entry'[job'[d].uri] # NoEntry
        PROVE  entry'[job'[d].uri].cached_at <= job'[d].since
    <2>1. job'[d].uri = job[d].uri /\ job[d].uri \in Uris
      BY <1>2, Numbers
    <2>2. entry'[job'[d].uri] = entry[job[d].uri] /\ entry[job[d].uri] # NoEntry
      BY <1>2, <2>1
    <2>3. entry[job[d].uri].cached_at <= now
      BY <2>1, <2>2 DEF OverwriteInv
    <2>4. pc[d] \in InFlight => entry[job[d].uri].cached_at <= job[d].since
      BY <2>2 DEF OverwriteInv, NoLateOverwrite
    <2> QED BY <1>2, <2>1, <2>2, <2>3, <2>4
  <1> QED BY <1>1, <1>2 DEF OverwriteInv, NoLateOverwrite

\* With one loop every step keeps the order of requests and entries.
LEMMA OverwriteStep ==
    ASSUME \A l, m \in Loops : l = m
    PROVE  TypeOK /\ LockInv /\ OverwriteInv /\ [Next]_vars => OverwriteInv'
  <1> SUFFICES ASSUME TypeOK, LockInv, OverwriteInv, [Next]_vars PROVE OverwriteInv'
    OBVIOUS
  <1>p. ASSUME NEW c \in Callers, NEW l, GoTo(c, l)
        PROVE  pc'[c] = l /\ \A d \in Callers \ {c} : pc'[d] = pc[d]
    BY <1>p DEF GoTo, TypeOK
  \* Steps that end outside a request and leave the entries alone.
  <1>q. ASSUME NEW c \in Callers, NEW l, GoTo(c, l), l \notin InFlight,
               UNCHANGED <<now, entry>>, \A d \in Callers \ {c} : job'[d] = job[d]
        PROVE  OverwriteInv'
    BY <1>p, <1>q, OverwriteFrame
  <1>1. ASSUME NEW c \in Callers,
               Lookup(c) \/ Touch(c) \/ TouchLocked(c) \/ Resolve(c) \/ Decode(c)
        PROVE  OverwriteInv'
    <2>1. PICK l \in {"touch", "fetch_wait", "resolve", "decode", "refresh_wait"} \cup Verdicts : GoTo(c, l)
      BY <1>1 DEF Lookup, Touch, TouchLocked, Resolve, Decode, Verdicts
    <2>2. l \notin InFlight
      BY <2>1 DEF InFlight, Verdicts
    <2>3. UNCHANGED <<now, entry>>
      BY <1>1 DEF Lookup, Touch, TouchLocked, Resolve, Decode
    <2>4. \A d \in Callers \ {c} : job'[d] = job[d]
      <3>1. job' = job \/ (\E r, f : job' = Learned(c, r, f)) \/ (\E q : job' = Waiting(c, q))
        BY <1>1 DEF Lookup, Touch, TouchLocked, Resolve, Decode
      <3> QED BY <3>1, JobFields
    <2> QED BY <1>q, <2>1, <2>2, <2>3, <2>4
  <1>2. ASSUME NEW c \in Callers, AccountKidMiss(c) \/ AccountSignature(c) \/ Return(c)
               \/ \E u \in Uris, t \in Tokens : Begin(c, u, t)
        PROVE  OverwriteInv'
    <2>1. PICK l \in {"idle", "lookup", "decode"} \cup Verdicts : GoTo(c, l)
      BY <1>2 DEF AccountKidMiss, AccountSignature, Return, Begin, Verdicts
    <2>2. l \notin InFlight
      BY <2>1 DEF InFlight, Verdicts
    <2>3. UNCHANGED <<now, entry>> /\ \A d \in Callers \ {c} : job'[d] = job[d]
      BY <1>2 DEF AccountKidMiss, AccountSignature, Return, Begin, TypeOK
    <2> QED BY <1>q, <2>1, <2>2, <2>3
  <1>3. ASSUME NEW c \in Callers, AcquireFetch(c) \/ AcquireRefresh(c) PROVE OverwriteInv'
    <2>1. UNCHANGED <<now, entry>>
      BY <1>3 DEF AcquireFetch, AcquireRefresh
    <2>2. CASE /\ \E l \in {"fetching", "refreshing"} : GoTo(c, l)
               /\ job' = Waiting(c, job[c].path)
      BY <1>p, <2>1, <2>2, JobFields, OverwriteFrame
    <2>3. CASE /\ \E l \in {"touch_locked", "account"} : GoTo(c, l)
               /\ \E r, f : job' = Learned(c, r, f)
      <3>1. "touch_locked" \notin InFlight /\ "account" \notin InFlight
        BY DEF InFlight
      <3> QED BY <1>q, <2>1, <2>3, <3>1, JobFields
    <2> QED BY <1>3, <2>2, <2>3 DEF AcquireFetch, AcquireRefresh
  <1>4. ASSUME NEW c \in Callers, NEW r, Answer(c, r) PROVE OverwriteInv'
    <2>1. UNCHANGED <<now, entry>> /\ pc[c] \in InFlight
      BY <1>4 DEF Answer, InFlight
    <2>2. /\ job'[c].uri = job[c].uri /\ job'[c].since = job[c].since
          /\ \A d \in Callers \ {c} : job'[d] = job[d]
      BY <1>4 DEF Answer, TypeOK, Jobs
    <2>3. \E l : GoTo(c, l)
      BY <1>4 DEF Answer
    <2> QED BY <1>p, <2>1, <2>2, <2>3, OverwriteFrame
  <1>5. ASSUME NEW c \in Callers, ApplyFetch(c) \/ ApplyRefresh(c) PROVE OverwriteInv'
    <2> DEFINE u == job[c].uri
    <2>1. /\ apply_jwks_cache_outcome(u, job[c].resp) /\ now' = now
          /\ pc[c] \in {"fetched", "refreshed"} /\ \E l \in {"resolve", "account"} : GoTo(c, l)
      BY <1>5 DEF ApplyFetch, ApplyRefresh
    <2>2. u \in Uris /\ job[c].resp \in Responses
      BY DEF TypeOK, Jobs
    <2>3. \A d \in Callers \ {c} : pc'[d] = pc[d] /\ job'[d] = job[d]
      BY <1>5, <1>p, <2>1, JobFields DEF ApplyFetch, ApplyRefresh
    <2>4. pc'[c] \notin InFlight
      BY <1>p, <2>1 DEF InFlight
    <2>5. \A v \in Uris : entry'[v] = entry[v] \/ entry'[v] = NoEntry
                          \/ (v = u /\ entry'[v].cached_at = now)
      BY <2>1, <2>2, ApplyEntries
    <2>6. \A d \in Callers \ {c} : pc[d] \in InFlight => job[d].uri # u
      <3>1. pc[c] \in Holding /\ \A d \in Callers : pc[d] \in InFlight => pc[d] \in Holding
        BY <2>1 DEF InFlight, Holding
      <3> QED BY <3>1, OneLoopLock DEF LockInv
    <2>7. \A v \in Uris : entry'[v] # NoEntry => entry'[v].cached_at <= now'
      BY <2>1, <2>5, Numbers DEF OverwriteInv
    <2>8. ASSUME NEW d \in Callers, pc'[d] \in InFlight, entry'[job'[d].uri] # NoEntry
          PROVE  entry'[job'[d].uri].cached_at <= job'[d].since
      <3>1. d # c /\ job'[d] = job[d] /\ pc[d] \in InFlight /\ job[d].uri # u /\ job[d].uri \in Uris
        BY <2>3, <2>4, <2>6, <2>8, Numbers
      <3>2. entry'[job[d].uri] = entry[job[d].uri]
        BY <2>5, <2>8, <3>1
      <3> QED BY <2>8, <3>1, <3>2 DEF OverwriteInv, NoLateOverwrite
    <2> QED BY <2>7, <2>8 DEF OverwriteInv, NoLateOverwrite
  <1>6. ASSUME clear_jwks_cache PROVE OverwriteInv'
    <2>1. UNCHANGED <<now, pc, job>> /\ \A u \in Uris : entry'[u] = NoEntry
      BY <1>6 DEF clear_jwks_cache
    <2> QED BY <2>1, Numbers DEF OverwriteInv, NoLateOverwrite
  <1>7. ASSUME Tick \/ UNCHANGED vars \/ \E u \in Uris, S \in KeySets : Rotate(u, S)
        PROVE  OverwriteInv'
    <2>1. UNCHANGED <<entry, pc, job>> /\ now' \in Nat /\ now <= now'
      BY <1>7, Numbers DEF Tick, vars, Rotate
    <2> QED BY <2>1, Numbers DEF OverwriteInv, NoLateOverwrite
  <1> QED BY <1>1, <1>2, <1>3, <1>4, <1>5, <1>6, <1>7 DEF Next, Step

\* In the sync implementation, and with a single event loop, an answer never replaces
\* an entry that is newer than its request.
THEOREM NoLateOverwriteHolds ==
    ASSUME \A l, m \in Loops : l = m
    PROVE  Spec => []NoLateOverwrite
  <1>1. Init => TypeOK /\ LockInv
    BY NoJobType, BoundsAssumption DEF Init, TypeOK, Time, LockInv, Holding
  <1>2. Init => OverwriteInv
    BY DEF Init, OverwriteInv, NoLateOverwrite, InFlight
  <1>3. TypeOK /\ LockInv /\ OverwriteInv /\ [Next]_vars => OverwriteInv'
    BY OverwriteStep
  <1>4. OverwriteInv => NoLateOverwrite
    BY DEF OverwriteInv
  <1> QED BY <1>1, <1>2, <1>3, <1>4, TypeStep, LockInvStep, PTL DEF Spec

-----------------------------------------------------------------------------
(* Rotation is absorbed.  A token whose key stays published is among the   *)
(* keys of every answer that is not older than the call, so after a real   *)
(* fetch or refresh its kid is found and its signature verifies.           *)

\* The token of c's call is one of the keys it has in hand.
InKeys(c) == job[c].token \in job[c].resp.keys

\* What c knows when its token's key is published during the whole call.
AbsorbInv(c) ==
    (/\ steady[c]
     /\ pc[c] # "idle"
     /\ job[c].token.kid # NoKid)
    =>
    /\ job[c].token \in published[job[c].uri]
    /\ pc[c] \in {"touch", "touch_locked"} => job[c].from = "hit"
    /\ pc[c] \in {"fetched", "refreshed"} /\ Validates(job[c].resp) => InKeys(c)
    /\ pc[c] \in {"resolve", "account", "decode"} /\ Validates(job[c].resp)
            => job[c].from \in {"hit", "retained", "coalesced"} \/ InKeys(c)
    /\ pc[c] = "account" => job[c].from \notin {"hit", "fetch"}
    /\ pc[c] = "decode" => Validates(job[c].resp)
    /\ pc[c] = "decode" /\ job[c].from = "hit" => ~KidMissing(c)
    /\ pc[c] \in {"no_match", "bad_signature"} => job[c].from \in {"retained", "coalesced"}
    /\ pc[c] = "suppressed" => job[c].from \in {"hit", "retained", "coalesced"}

\* A token that is itself among the keys is found by its kid and verifies.
LEMMA InKeysVerifies ==
    ASSUME NEW t, NEW K, t.kid # NoKid, t \in K
    PROVE  find_key_by_kid(t.kid, K) # {} /\ Verifies(t, K)
  BY DEF find_key_by_kid, Verifies

\* A step of caller c that rotates nothing: what has to be shown of c alone.
LEMMA AbsorbFrame ==
    ASSUME \A d \in Callers : AbsorbInv(d), NEW c \in Callers, published' = published,
           \A d \in Callers \ {c} : pc'[d] = pc[d] /\ job'[d] = job[d] /\ steady'[d] = steady[d],
           AbsorbInv(c)'
    PROVE  \A d \in Callers : AbsorbInv(d)'
  <1> SUFFICES ASSUME NEW d \in Callers, d # c PROVE AbsorbInv(d)'
    OBVIOUS
  <1>1. AbsorbInv(d) /\ pc'[d] = pc[d] /\ job'[d] = job[d] /\ steady'[d] = steady[d]
    OBVIOUS
  <1> QED BY <1>1 DEF AbsorbInv, InKeys, Validates, KidMissing

\* Every step keeps what a caller of a steady key knows.
LEMMA AbsorbStep ==
    TypeOK /\ (\A c \in Callers : AbsorbInv(c)) /\ [Next]_vars
        => (\A c \in Callers : AbsorbInv(c))'
  <1> SUFFICES ASSUME TypeOK, \A c \in Callers : AbsorbInv(c), [Next]_vars
               PROVE  \A c \in Callers : AbsorbInv(c)'
    OBVIOUS
  <1>p. ASSUME NEW c \in Callers, NEW l, GoTo(c, l)
        PROVE  pc'[c] = l /\ \A d \in Callers \ {c} : pc'[d] = pc[d]
    BY <1>p DEF GoTo, TypeOK
  \* The fields of c's record after it learns something or starts to wait.
  <1>f. ASSUME NEW c \in Callers
        PROVE  /\ \A r, f : Learned(c, r, f)[c].from = f
               /\ \A q : Waiting(c, q)[c].from = job[c].from
    BY DEF TypeOK, Learned, Waiting, Jobs
  \* Steps to a place where only the publication of the key is claimed.
  <1>q. ASSUME NEW c \in Callers, NEW l, GoTo(c, l), pc[c] # "idle",
               l \notin {"idle", "touch", "touch_locked", "fetched", "refreshed", "resolve", "account", "decode",
                         "no_match", "bad_signature", "suppressed"},
               UNCHANGED <<published, steady>>,
               job'[c].token = job[c].token, job'[c].uri = job[c].uri,
               \A d \in Callers \ {c} : job'[d] = job[d]
        PROVE  \A d \in Callers : AbsorbInv(d)'
    <2>1. AbsorbInv(c)'
      <3>1. AbsorbInv(c)
        OBVIOUS
      <3> QED BY <1>p, <1>q, <3>1 DEF AbsorbInv
    <2> QED BY <1>p, <1>q, <2>1, AbsorbFrame
  <1>1. ASSUME NEW c \in Callers, Lookup(c) \/ AcquireFetch(c)
        PROVE  \A d \in Callers : AbsorbInv(d)'
    <2>1. UNCHANGED <<published, steady>> /\ pc[c] # "idle"
      BY <1>1 DEF Lookup, AcquireFetch
    <2>2. CASE /\ \E l \in {"touch", "touch_locked"} : GoTo(c, l)
               /\ \E r : job' = Learned(c, r, "hit")
      <3>1. /\ job'[c].from = "hit" /\ job'[c].token = job[c].token /\ job'[c].uri = job[c].uri
            /\ \A d \in Callers \ {c} : job'[d] = job[d]
        BY <1>f, <2>2, JobFields
      <3>2. AbsorbInv(c)'
        <4>1. AbsorbInv(c)
          OBVIOUS
        <4> QED BY <1>p, <2>1, <2>2, <3>1, <4>1 DEF AbsorbInv
      <3> QED BY <1>p, <2>1, <2>2, <3>1, <3>2, AbsorbFrame
    <2>3. CASE /\ \E l \in {"fetch_wait", "fetching"} : GoTo(c, l)
               /\ job' = job \/ \E q : job' = Waiting(c, q)
      BY <1>q, <2>1, <2>3, JobFields
    <2> QED BY <1>1, <2>2, <2>3 DEF Lookup, AcquireFetch
  <1>2. ASSUME NEW c \in Callers, Touch(c) \/ TouchLocked(c)
        PROVE  \A d \in Callers : AbsorbInv(d)'
    <2>1. /\ UNCHANGED <<published, steady, job>> /\ GoTo(c, "resolve")
          /\ pc[c] \in {"touch", "touch_locked"}
      BY <1>2 DEF Touch, TouchLocked
    <2>2. AbsorbInv(c)'
      <3>1. AbsorbInv(c)
        OBVIOUS
      <3> QED BY <1>p, <2>1, <3>1 DEF AbsorbInv
    <2> QED BY <1>p, <2>1, <2>2, AbsorbFrame
  <1>3. ASSUME NEW c \in Callers, NEW r \in Answers(job[c].uri), Answer(c, r)
        PROVE  \A d \in Callers : AbsorbInv(d)'
    <2>1. /\ UNCHANGED <<published, steady>> /\ pc[c] # "idle"
          /\ \E l \in {"fetched", "refreshed"} : GoTo(c, l)
      BY <1>3 DEF Answer
    <2>2. /\ job'[c].resp = r /\ job'[c].token = job[c].token /\ job'[c].uri = job[c].uri
          /\ \A d \in Callers \ {c} : job'[d] = job[d]
      BY <1>3 DEF Answer, TypeOK, Jobs
    <2>3. Validates(r) => r.keys = published[job[c].uri]
      <3>1. CASE r = Failure
        <4>1. ~r.ok
          BY <3>1 DEF Failure
        <4> QED BY <4>1 DEF Validates
      <3>2. CASE r \in [ok : {TRUE}, keys : {published[job[c].uri], {}}, maxAge : MaxAges]
        <4>1. r.keys \in {published[job[c].uri], {}}
          BY <3>2
        <4> QED BY <4>1 DEF Validates
      <3> QED BY <3>1, <3>2 DEF Answers
    <2>4. AbsorbInv(c)'
      <3>1. AbsorbInv(c)
        OBVIOUS
      <3> QED BY <1>p, <2>1, <2>2, <2>3, <3>1 DEF AbsorbInv, InKeys, Validates
    <2> QED BY <1>p, <2>1, <2>2, <2>4, AbsorbFrame
  <1>4. ASSUME NEW c \in Callers, ApplyFetch(c) PROVE \A d \in Callers : AbsorbInv(d)'
    <2>1. /\ UNCHANGED <<published, steady>> /\ pc[c] = "fetched" /\ GoTo(c, "resolve")
          /\ job' = Learned(c, job[c].resp, "fetch")
      BY <1>4 DEF ApplyFetch
    <2>2. /\ job'[c].resp = job[c].resp /\ job'[c].token = job[c].token
          /\ job'[c].uri = job[c].uri /\ \A d \in Callers \ {c} : job'[d] = job[d]
      BY <2>1, JobFields
    <2>3. AbsorbInv(c)'
      <3>1. AbsorbInv(c)
        OBVIOUS
      <3> QED BY <1>p, <2>1, <2>2, <3>1 DEF AbsorbInv, InKeys, Validates
    <2> QED BY <1>p, <2>1, <2>2, <2>3, AbsorbFrame
  <1>5. ASSUME NEW c \in Callers, Resolve(c) PROVE \A d \in Callers : AbsorbInv(d)'
    <2>1. UNCHANGED <<published, steady>> /\ pc[c] = "resolve"
      BY <1>5 DEF Resolve
    <2>2. CASE GoTo(c, "decode") /\ UNCHANGED job /\ Validates(job[c].resp) /\ ~KidMissing(c)
      <3>1. AbsorbInv(c)'
        <4>1. AbsorbInv(c)
          OBVIOUS
        <4> QED BY <1>p, <2>1, <2>2, <4>1 DEF AbsorbInv, InKeys, Validates, KidMissing
      <3> QED BY <1>p, <2>1, <2>2, <3>1, AbsorbFrame
    <2>3. CASE /\ \E l \in {"unavailable", "refresh_wait"} : GoTo(c, l)
               /\ job' = job \/ \E q : job' = Waiting(c, q)
      BY <1>q, <2>1, <2>3, JobFields
    <2>4. CASE GoTo(c, "suppressed") /\ UNCHANGED job /\ Validates(job[c].resp) /\ KidMissing(c)
      <3>1. AbsorbInv(c)'
        <4>1. AbsorbInv(c)
          OBVIOUS
        <4>2. job[c].token.kid # NoKid => ~InKeys(c)
          BY <2>4, InKeysVerifies DEF KidMissing, InKeys
        <4> QED BY <1>p, <2>1, <2>4, <4>1, <4>2 DEF AbsorbInv
      <3> QED BY <1>p, <2>1, <2>4, <3>1, AbsorbFrame
    <2> QED BY <1>5, <2>2, <2>3, <2>4 DEF Resolve
  <1>6. ASSUME NEW c \in Callers, Decode(c) PROVE \A d \in Callers : AbsorbInv(d)'
    <2>1. UNCHANGED <<published, steady>> /\ pc[c] = "decode"
      BY <1>6 DEF Decode
    <2>2. CASE /\ GoTo(c, "no_match") /\ UNCHANGED job
               /\ find_key_by_kid(job[c].token.kid, job[c].resp.keys) = {}
      <3>1. AbsorbInv(c)'
        <4>1. AbsorbInv(c)
          OBVIOUS
        <4>2. job[c].token.kid # NoKid => KidMissing(c) /\ ~InKeys(c)
          BY <2>2, InKeysVerifies DEF KidMissing, InKeys
        <4> QED BY <1>p, <2>1, <2>2, <4>1, <4>2 DEF AbsorbInv
      <3> QED BY <1>p, <2>1, <2>2, <3>1, AbsorbFrame
    <2>3. CASE /\ \E l \in {"accepted", "refresh_wait"} : GoTo(c, l)
               /\ job' = job \/ \E q : job' = Waiting(c, q)
      BY <1>q, <2>1, <2>3, JobFields
    <2>4. CASE /\ GoTo(c, "suppressed") /\ UNCHANGED job
               /\ ~Verifies(job[c].token, job[c].resp.keys)
      <3>1. AbsorbInv(c)'
        <4>1. AbsorbInv(c)
          OBVIOUS
        <4>2. job[c].token.kid # NoKid => ~InKeys(c)
          BY <2>4, InKeysVerifies DEF InKeys
        <4> QED BY <1>p, <2>1, <2>4, <4>1, <4>2 DEF AbsorbInv
      <3> QED BY <1>p, <2>1, <2>4, <3>1, AbsorbFrame
    <2> QED BY <1>6, <2>2, <2>3, <2>4 DEF Decode
  <1>7. ASSUME NEW c \in Callers, AcquireRefresh(c) \/ ApplyRefresh(c)
        PROVE  \A d \in Callers : AbsorbInv(d)'
    <2>1. UNCHANGED <<published, steady>> /\ pc[c] \in {"refresh_wait", "refreshed"}
      BY <1>7 DEF AcquireRefresh, ApplyRefresh
    <2>2. CASE GoTo(c, "refreshing") /\ job' = Waiting(c, job[c].path)
      BY <1>q, <2>1, <2>2, JobFields
    <2>3. ASSUME NEW r, NEW f \in {"coalesced", "retained", "refresh"},
                 GoTo(c, "account"), job' = Learned(c, r, f),
                 f = "refresh" => r = job[c].resp /\ pc[c] = "refreshed"
          PROVE  \A d \in Callers : AbsorbInv(d)'
      <3>1. /\ job'[c].resp = r /\ job'[c].from = f /\ job'[c].token = job[c].token
            /\ job'[c].uri = job[c].uri /\ \A d \in Callers \ {c} : job'[d] = job[d]
        BY <1>f, <2>3, JobFields
      <3>2. AbsorbInv(c)'
        <4>1. AbsorbInv(c)
          OBVIOUS
        <4> QED BY <1>p, <2>1, <2>3, <3>1, <4>1 DEF AbsorbInv, InKeys, Validates
      <3> QED BY <1>p, <2>1, <2>3, <3>1, <3>2, AbsorbFrame
    <2> QED BY <1>7, <2>2, <2>3 DEF AcquireRefresh, ApplyRefresh
  <1>8. ASSUME NEW c \in Callers, AccountKidMiss(c) PROVE \A d \in Callers : AbsorbInv(d)'
    <2>1. UNCHANGED <<published, steady, job>> /\ pc[c] = "account"
      BY <1>8 DEF AccountKidMiss
    <2>2. CASE GoTo(c, "unavailable")
      BY <1>q, <2>1, <2>2
    <2>3. CASE GoTo(c, "decode") /\ Validates(job[c].resp)
      <3>1. AbsorbInv(c)'
        <4>1. AbsorbInv(c)
          OBVIOUS
        <4> QED BY <1>p, <2>1, <2>3, <4>1 DEF AbsorbInv, InKeys, Validates
      <3> QED BY <1>p, <2>1, <2>3, <3>1, AbsorbFrame
    <2> QED BY <1>8, <2>2, <2>3 DEF AccountKidMiss
  <1>9. ASSUME NEW c \in Callers, AccountSignature(c) PROVE \A d \in Callers : AbsorbInv(d)'
    <2>1. UNCHANGED <<published, steady, job>> /\ pc[c] = "account"
      BY <1>9 DEF AccountSignature
    <2>2. CASE \E l \in {"unavailable", "accepted"} : GoTo(c, l)
      BY <1>q, <2>1, <2>2
    <2>3. CASE /\ \E l \in {"no_match", "bad_signature"} : GoTo(c, l)
               /\ Validates(job[c].resp) /\ ~Verifies(job[c].token, job[c].resp.keys)
      <3>1. AbsorbInv(c)'
        <4>1. AbsorbInv(c)
          OBVIOUS
        <4>2. job[c].token.kid # NoKid => ~InKeys(c)
          BY <2>3, InKeysVerifies DEF InKeys
        <4> QED BY <1>p, <2>1, <2>3, <4>1, <4>2 DEF AbsorbInv
      <3> QED BY <1>p, <2>1, <2>3, <3>1, AbsorbFrame
    <2> QED BY <1>9, <2>2, <2>3 DEF AccountSignature
  <1>10. ASSUME NEW c \in Callers, Return(c) PROVE \A d \in Callers : AbsorbInv(d)'
    <2>1. /\ published' = published /\ pc'[c] = "idle"
          /\ \A d \in Callers \ {c} : pc'[d] = pc[d] /\ job'[d] = job[d] /\ steady'[d] = steady[d]
      BY <1>10 DEF Return, GoTo, TypeOK
    <2>2. AbsorbInv(c)'
      BY <2>1 DEF AbsorbInv
    <2> QED BY <2>1, <2>2, AbsorbFrame
  <1>11. ASSUME NEW c \in Callers, NEW u \in Uris, NEW t \in Tokens, Begin(c, u, t)
         PROVE  \A d \in Callers : AbsorbInv(d)'
    <2>1. /\ published' = published /\ pc'[c] = "lookup"
          /\ \A d \in Callers \ {c} : pc'[d] = pc[d] /\ job'[d] = job[d] /\ steady'[d] = steady[d]
      BY <1>11 DEF Begin, GoTo, TypeOK
    <2>2. job'[c].uri = u /\ job'[c].token = t
      <3>1. /\ [NoJob EXCEPT !.uri = u, !.token = t, !.began = now].uri = u
            /\ [NoJob EXCEPT !.uri = u, !.token = t, !.began = now].token = t
        BY DEF NoJob
      <3> QED BY <1>11, <3>1 DEF Begin, TypeOK
    <2>3. steady'[c] => t \in published[u]
      BY <1>11 DEF Begin, TypeOK
    <2>4. AbsorbInv(c)'
      BY <2>1, <2>2, <2>3 DEF AbsorbInv
    <2> QED BY <2>1, <2>4, AbsorbFrame
  <1>12. ASSUME NEW u \in Uris, NEW S \in KeySets, Rotate(u, S)
         PROVE  \A d \in Callers : AbsorbInv(d)'
    <2> SUFFICES ASSUME NEW d \in Callers PROVE AbsorbInv(d)'
      OBVIOUS
    <2>1. /\ UNCHANGED <<pc, job>> /\ job[d].uri \in Uris
          /\ steady'[d] => steady[d] /\ (job[d].uri = u => job[d].token \in S)
          /\ published' = [published EXCEPT ![u] = S]
      BY <1>12, Numbers DEF Rotate
    <2>2. steady'[d] /\ job[d].token \in published[job[d].uri]
            => job[d].token \in published'[job[d].uri]
      BY <2>1 DEF TypeOK
    <2>3. AbsorbInv(d)
      OBVIOUS
    <2> QED BY <2>1, <2>2, <2>3 DEF AbsorbInv, InKeys, Validates, KidMissing
  <1>13. ASSUME clear_jwks_cache \/ Tick \/ UNCHANGED vars
         PROVE  \A d \in Callers : AbsorbInv(d)'
    <2>1. UNCHANGED <<published, steady, pc, job>>
      BY <1>13 DEF clear_jwks_cache, Tick, vars
    <2> QED BY <2>1 DEF AbsorbInv, InKeys, Validates, KidMissing
  <1> QED
    BY <1>1, <1>2, <1>3, <1>4, <1>5, <1>6, <1>7, <1>8, <1>9, <1>10, <1>11, <1>12, <1>13
    DEF Next, Step

\* A token whose key is published during the whole call is refused as unknown or badly
\* signed only when the refresh surfaced an older answer, or when the keys came from the
\* cache and the cooldown forbade the refresh.
THEOREM RotationAbsorbedHolds == Spec => []RotationAbsorbed
  <1>1. Init => \A c \in Callers : AbsorbInv(c)
    BY DEF Init, AbsorbInv
  <1>2. (\A c \in Callers : AbsorbInv(c)) => RotationAbsorbed
    BY DEF AbsorbInv, RotationAbsorbed
  <1> QED BY <1>1, <1>2, AbsorbStep, TypeCorrect, PTL DEF Spec

-----------------------------------------------------------------------------
(* The cooldown.  OncePerCaller is about the moment in which a refresh is  *)
(* found not to have helped, long after the cooldown was checked.  It      *)
(* follows from BudgetInv: what a caller that has passed the check spent   *)
(* before is a cooldown old, whatever others have stamped meanwhile.       *)

Refreshing == {"refresh_wait", "refreshing", "refreshed", "account"}

\* The stamp is the latest of what was spent, and not in the future.
SpentInv ==
    /\ spent = [u \in Uris |-> spent[u]]
    /\ \A u \in Uris : stamp[u] <= now
    /\ \A u \in Uris : \A s \in spent[u] : s[2] \in Int /\ stamp[u] # NoStamp /\ s[2] <= stamp[u]

Thrifty(c) == \A s \in spent[job[c].uri] : s[1] = c => now - s[2] >= Cooldown

BudgetInv == SpentInv /\ \A c \in Callers : pc[c] \in Refreshing => Thrifty(c)

\* The cooldown of u lets a refresh pass.
Passes(u) == stamp[u] = NoStamp \/ now - stamp[u] >= Cooldown

\* How caller d comes to be, or stays, among those that refresh.
Enters(d) ==
    pc'[d] \in Refreshing =>
        /\ job'[d].uri = job[d].uri
        /\ \/ pc[d] \in Refreshing /\ (pc[d] = "account" => pc'[d] = "account")
           \/ pc[d] # "account" /\ Passes(job[d].uri)

\* A step of caller c to l: it refreshes already, or the cooldown lets it pass.
LEMMA EnterFrame ==
    ASSUME TypeOK, NEW c \in Callers, NEW l, GoTo(c, l),
           \/ l \notin Refreshing
           \/ pc[c] \in Refreshing \ {"account"}
           \/ pc[c] # "account" /\ Passes(job[c].uri),
           \A d \in Callers : l \in Refreshing \/ d # c => job'[d].uri = job[d].uri,
           NEW d \in Callers
    PROVE  Enters(d)
  <1>1. pc'[c] = l /\ \A o \in Callers \ {c} : pc'[o] = pc[o]
    BY DEF GoTo, TypeOK
  <1>2. CASE d = c
    BY <1>1, <1>2 DEF Enters
  <1>3. CASE d # c
    BY <1>1, <1>3 DEF Enters
  <1> QED BY <1>2, <1>3

\* Nobody comes to refresh but past the cooldown, nor comes back from accounting.
LEMMA EnterStep ==
    ASSUME TypeOK, [Next]_vars, NEW d \in Callers
    PROVE  Enters(d)
  <1>1. ASSUME NEW c \in Callers, Lookup(c) \/ Touch(c) \/ AcquireFetch(c) \/ TouchLocked(c) \/ ApplyFetch(c)
        PROVE  Enters(d)
    <2>1. PICK l : GoTo(c, l) /\ l \in {"touch", "fetch_wait", "resolve", "touch_locked", "fetching"}
      BY <1>1 DEF Lookup, Touch, AcquireFetch, TouchLocked, ApplyFetch
    <2>2. \A o \in Callers : job'[o].uri = job[o].uri
      BY <1>1, SameUri DEF Lookup, Touch, AcquireFetch, TouchLocked, ApplyFetch
    <2>3. l \notin Refreshing
      BY <2>1 DEF Refreshing
    <2> QED BY <2>1, <2>2, <2>3, EnterFrame
  <1>2. ASSUME NEW c \in Callers, NEW r, Answer(c, r) PROVE Enters(d)
    <2>1. PICK l : GoTo(c, l) /\ (l = "fetched" \/ (l = "refreshed" /\ pc[c] = "refreshing"))
      BY <1>2 DEF Answer
    <2>2. \A o \in Callers : job'[o].uri = job[o].uri
      BY <1>2, SameUri DEF Answer
    <2>3. l \notin Refreshing \/ pc[c] \in Refreshing \ {"account"}
      BY <2>1 DEF Refreshing
    <2> QED BY <2>1, <2>2, <2>3, EnterFrame
  <1>3. ASSUME NEW c \in Callers, Resolve(c) PROVE Enters(d)
    <2>1. PICK l : GoTo(c, l) /\ (l \in {"unavailable", "decode", "suppressed"} \/ Passes(job[c].uri))
      BY <1>3 DEF Resolve, should_attempt_kid_miss_refresh, Passes, Validates
    <2>2. \A o \in Callers : job'[o].uri = job[o].uri
      BY <1>3, SameUri DEF Resolve
    <2>3. (l \notin Refreshing \/ Passes(job[c].uri)) /\ pc[c] # "account"
      BY <1>3, <2>1 DEF Refreshing, Resolve
    <2> QED BY <2>1, <2>2, <2>3, EnterFrame
  <1>4. ASSUME NEW c \in Callers, Decode(c) PROVE Enters(d)
    <2>1. PICK l : GoTo(c, l) /\ (l \in {"no_match", "accepted", "suppressed"} \/ Passes(job[c].uri))
      BY <1>4 DEF Decode, should_attempt_kid_miss_refresh, Passes
    <2>2. \A o \in Callers : job'[o].uri = job[o].uri
      BY <1>4, SameUri DEF Decode
    <2>3. (l \notin Refreshing \/ Passes(job[c].uri)) /\ pc[c] # "account"
      BY <1>4, <2>1 DEF Refreshing, Decode
    <2> QED BY <2>1, <2>2, <2>3, EnterFrame
  <1>5. ASSUME NEW c \in Callers, AcquireRefresh(c) \/ ApplyRefresh(c) PROVE Enters(d)
    <2>1. PICK l : GoTo(c, l)
      BY <1>5 DEF AcquireRefresh, ApplyRefresh
    <2>2. \A o \in Callers : job'[o].uri = job[o].uri
      BY <1>5, SameUri DEF AcquireRefresh, ApplyRefresh
    <2>3. pc[c] \in Refreshing \ {"account"}
      BY <1>5 DEF Refreshing, AcquireRefresh, ApplyRefresh
    <2> QED BY <2>1, <2>2, <2>3, EnterFrame
  <1>6. ASSUME NEW c \in Callers, AccountKidMiss(c) \/ AccountSignature(c) \/ Return(c) PROVE Enters(d)
    <2>1. PICK l : GoTo(c, l) /\ l \in {"decode", "idle"} \cup Verdicts
      BY <1>6 DEF AccountKidMiss, AccountSignature, Return, Verdicts
    <2>2. \A o \in Callers : o # c => job'[o].uri = job[o].uri
      BY <1>6 DEF AccountKidMiss, AccountSignature, Return, TypeOK
    <2>3. l \notin Refreshing
      BY <2>1 DEF Refreshing, Verdicts
    <2> QED BY <2>1, <2>2, <2>3, EnterFrame
  <1>7. ASSUME NEW c \in Callers, NEW u \in Uris, NEW t \in Tokens, Begin(c, u, t) PROVE Enters(d)
    <2>1. PICK l : GoTo(c, l) /\ l = "lookup"
      BY <1>7 DEF Begin
    <2>2. \A o \in Callers : o # c => job'[o].uri = job[o].uri
      BY <1>7 DEF Begin, TypeOK
    <2>3. l \notin Refreshing
      BY <2>1 DEF Refreshing
    <2> QED BY <2>1, <2>2, <2>3, EnterFrame
  <1>8. ASSUME pc' = pc, job' = job PROVE Enters(d)
    BY <1>8 DEF Enters
  <1> QED
    BY <1>1, <1>2, <1>3, <1>4, <1>5, <1>6, <1>7, <1>8
       DEF Next, Step, clear_jwks_cache, Rotate, Tick, vars

\* Stamps stay, are dropped, or are set to the present; the clock does not go back.
LEMMA StampStep ==
    ASSUME TypeOK, [Next]_vars
    PROVE  /\ now' = now \/ now' = now + 1
           /\ \A u \in Uris : stamp'[u] = stamp[u] \/ stamp'[u] = NoStamp \/ stamp'[u] = now
  <1> USE DEF TypeOK
  <1>1. ASSUME NEW u \in Uris, NEW r, apply_jwks_cache_outcome(u, r)
        PROVE  \A v \in Uris : stamp'[v] = stamp[v] \/ stamp'[v] = NoStamp
    BY <1>1 DEF apply_jwks_cache_outcome
  <1>2. ASSUME NEW c \in Callers, ApplyFetch(c) \/ ApplyRefresh(c)
        PROVE  now' = now /\ \A v \in Uris : stamp'[v] = stamp[v] \/ stamp'[v] = NoStamp
    <2>1. job[c].uri \in Uris
      BY DEF Jobs
    <2> QED BY <1>1, <1>2, <2>1 DEF ApplyFetch, ApplyRefresh
  <1>3. ASSUME NEW c \in Callers, AccountKidMiss(c) \/ AccountSignature(c)
        PROVE  /\ now' = now
               /\ \A v \in Uris : stamp'[v] = stamp[v] \/ stamp'[v] = NoStamp \/ stamp'[v] = now
    <2>1. now' = now
      BY <1>3 DEF AccountKidMiss, AccountSignature
    <2>2. stamp' = stamp \/ \E helped : stamp' = Stamped(c, helped)
      BY <1>3 DEF AccountKidMiss, AccountSignature
    <2> QED BY <2>1, <2>2 DEF Stamped
  <1>4. ASSUME NEW c \in Callers,
               \/ Lookup(c) \/ Touch(c) \/ AcquireFetch(c) \/ TouchLocked(c) \/ Resolve(c) \/ Decode(c)
               \/ AcquireRefresh(c) \/ Return(c) \/ (\E r : Answer(c, r)) \/ \E u, t : Begin(c, u, t)
        PROVE  now' = now /\ stamp' = stamp
    BY <1>4 DEF Lookup, Touch, AcquireFetch, TouchLocked, Resolve, Decode, AcquireRefresh, Return, Answer,
       Begin
  <1>5. CASE clear_jwks_cache
    BY <1>5 DEF clear_jwks_cache
  <1>6. CASE (\E u \in Uris, S \in KeySets : Rotate(u, S)) \/ Tick \/ UNCHANGED vars
    BY <1>6 DEF Rotate, Tick, vars
  <1> QED BY <1>2, <1>3, <1>4, <1>5, <1>6 DEF Next, Step

\* Every step keeps the budget: a stamp is set only by a caller that stops refreshing.
LEMMA BudgetStep ==
    ASSUME TypeOK, BudgetInv, [BudgetNext]_<<vars, spent>>
    PROVE  BudgetInv'
  <1>1. [Next]_vars
    BY DEF BudgetNext
  <1>2. /\ now' = now \/ now' = now + 1
        /\ \A u \in Uris : stamp'[u] = stamp[u] \/ stamp'[u] = NoStamp \/ stamp'[u] = now
    BY <1>1, StampStep
  <1>3. now \in Int /\ \A u \in Uris : stamp[u] \in Int
    BY BoundsAssumption DEF TypeOK, Time, NoStamp
  <1>4. CASE UNCHANGED <<vars, spent>>
    BY <1>4 DEF BudgetInv, SpentInv, Thrifty, vars
  <1>5. CASE BudgetNext
    <2> DEFINE New(u) == {<<c, now>> : c \in {d \in Callers : Stamps(d) /\ job[d].uri = u}}
    <2>1. spent' = [u \in Uris |-> IF stamp'[u] = NoStamp THEN {} ELSE spent[u] \cup New(u)]
      BY <1>5 DEF BudgetNext
    <2>2. ASSUME NEW u \in Uris, NEW s \in spent'[u]
          PROVE  /\ stamp'[u] # NoStamp
                 /\ s \in spent[u] \/ \E c \in Callers : Stamps(c) /\ job[c].uri = u /\ s = <<c, now>>
      BY <2>1, <2>2
    <2>3. ASSUME NEW u \in Uris, NEW s \in spent'[u]
          PROVE  s[2] \in Int /\ stamp'[u] # NoStamp /\ s[2] <= stamp'[u]
      <3>1. CASE s \in spent[u]
        <4>1. s[2] \in Int /\ s[2] <= stamp[u] /\ stamp[u] <= now
          BY <3>1 DEF BudgetInv, SpentInv
        <4>2. stamp'[u] = stamp[u] \/ stamp'[u] = now
          BY <1>2, <2>2, <2>3
        <4> QED BY <1>3, <2>2, <2>3, <4>1, <4>2
      <3>2. CASE \E c \in Callers : Stamps(c) /\ job[c].uri = u /\ s = <<c, now>>
        BY <1>3, <2>2, <2>3, <3>2 DEF Stamps
      <3> QED BY <2>2, <2>3, <3>1, <3>2
    <2>4. \A u \in Uris : stamp'[u] <= now'
      <3> SUFFICES ASSUME NEW u \in Uris PROVE stamp'[u] <= now'
        OBVIOUS
      <3>1. stamp[u] <= now /\ NoStamp <= now
        BY BoundsAssumption DEF BudgetInv, SpentInv, TypeOK, Time, NoStamp
      <3> HIDE DEF NoStamp
      <3> QED BY <1>2, <1>3, <3>1 DEF NoStamp
    <2>5. SpentInv'
      BY <2>1, <2>3, <2>4 DEF SpentInv
    <2>6. ASSUME NEW c \in Callers, pc'[c] \in Refreshing, NEW s \in spent'[job'[c].uri], s[1] = c
          PROVE  now' - s[2] >= Cooldown
      <3> DEFINE u == job[c].uri
      <3>1. Enters(c)
        BY <1>1, EnterStep
      <3>2. /\ job'[c].uri = u
            /\ \/ pc[c] \in Refreshing /\ (pc[c] = "account" => pc'[c] = "account")
               \/ pc[c] # "account" /\ Passes(u)
        BY <2>6, <3>1 DEF Enters
      <3>3. u \in Uris
        BY DEF TypeOK, Jobs
      <3>4. ~Stamps(c)
        BY <3>2 DEF Stamps
      <3>5. s \in spent[u]
        BY <2>2, <2>6, <3>2, <3>3, <3>4
      <3>6. s[2] \in Int /\ stamp[u] # NoStamp /\ s[2] <= stamp[u]
        BY <3>3, <3>5 DEF BudgetInv, SpentInv
      <3>7. now - s[2] >= Cooldown
        <4>1. CASE pc[c] \in Refreshing
          BY <2>6, <3>5, <4>1 DEF BudgetInv, Thrifty
        <4>2. CASE Passes(u)
          BY <1>3, <3>3, <3>6, <4>2, BoundsAssumption DEF Passes
        <4> QED BY <3>2, <4>1, <4>2
      <3> QED BY <1>2, <1>3, <3>6, <3>7, BoundsAssumption
    <2> QED BY <2>5, <2>6 DEF BudgetInv, Thrifty
  <1> QED BY <1>4, <1>5

\* However many callers, threads and loops compete for the same key set, and although the
\* cooldown is checked before the request and stamped after it: while the stamp stands,
\* a caller spends one unhelpful refresh per cooldown on a URI, on both paths together
\* (should_attempt_kid_miss_refresh, _discover_and_resolve_key, _retry_with_refreshed_jwks).
THEOREM OncePerCallerHolds == BudgetSpec => OncePerCaller
  <1>1. BudgetInit => TypeOK /\ BudgetInv
    <2> SUFFICES ASSUME BudgetInit PROVE TypeOK /\ BudgetInv
      OBVIOUS
    <2>1. TypeOK
      BY NoJobType, BoundsAssumption DEF BudgetInit, Init, TypeOK, Time
    <2>2. SpentInv
      BY BoundsAssumption DEF BudgetInit, Init, SpentInv, NoStamp
    <2>3. \A c \in Callers : pc[c] \notin Refreshing
      BY DEF BudgetInit, Init, Refreshing
    <2> QED BY <2>1, <2>2, <2>3 DEF BudgetInv
  <1>2. TypeOK /\ BudgetInv /\ [BudgetNext]_<<vars, spent>> => TypeOK' /\ BudgetInv'
    <2> SUFFICES ASSUME TypeOK, BudgetInv, [BudgetNext]_<<vars, spent>> PROVE TypeOK' /\ BudgetInv'
      OBVIOUS
    <2>1. [Next]_vars
      BY DEF BudgetNext
    <2> QED BY <2>1, TypeStep, BudgetStep
  <1>3. TypeOK /\ BudgetInv =>
          \A c \in Callers : Stamps(c) => \A s \in spent[job[c].uri] : s[1] = c => now - s[2] >= Cooldown
    BY DEF BudgetInv, Thrifty, Stamps, Refreshing
  <1> QED BY <1>1, <1>2, <1>3, PTL DEF BudgetSpec, OncePerCaller
=============================================================================
