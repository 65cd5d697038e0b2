# TLA+ verification of identity-model

This directory holds TLA+ models of the identity-model libraries: the JWKS caches
of the Python, Go and Rust ports; the Python library's discovery cache, token
validation, endpoint clients and HTTP clients; the token manager, the login, the
middleware, the WebSocket authenticator and the dependencies of the FastAPI
package; and the two relying parties of the conformance harness. TLC checks the
models on small instances; TLAPS proves their safety properties for every instance
(section 5).
`PROJECT.json` maps every definition to the lines it models and lists the runs,
mutants, findings, hazards and theorems.

## 1. The system

The repository implements OpenID Connect and OAuth 2.0 clients and token
validators three times (Python `py/`, Go `go/`, Rust `rust/`, with a Node
placeholder), against one capability list and shared test vectors in `spec/`. A
FastAPI integration (`py/packages/fastapi-identity-model`) sits on the Python
library. Most of the code is a request, an answer and a decision; state that
outlives a call is kept in few places, and those are where the order of events
matters.

| Part | State it keeps | Operations | Who touches it |
|---|---|---|---|
| Python JWKS cache (`core/jwks_cache.py`, `sync/` and `aio/token_validation.py`) | `_jwks_cache` (OrderedDict, LRU), `_kid_miss_last_attempt` (cooldown sidecar), striped fetch locks (per process, or per event loop), a write lock | cached lookup with touch, single-flight fetch, forced refresh on an unknown kid or a bad signature, eviction, clear | every `validate_token` in every thread, task and loop |
| Python discovery cache (same files) | `_disco_cache` with its own locks, keyed by address and policy | lookup, fetch, clear | the same callers, before the JWKS cache |
| Python HTTP layer (`aio/`, `sync/http_client.py`, `core/http_utils.py`) | one shared client per process or thread | get, close, retry with backoff and Retry-After | every request |
| Python endpoint functions (`core/*_logic.py`, `sync/`, `aio/`): token, introspection, revocation, userinfo, device, registration, exchange, PAR | none of their own; an HTTP client, a DPoP proof and the answer during a call | prepare, choose a client, send under the retry loop, one DPoP nonce round, classify the answer, clean up | applications |
| FastAPI `TokenManager` | access and refresh token, expiry, an asyncio lock | `set_tokens`, `get_access_token` | application coroutines |
| FastAPI `rp.py` | the session cookie: flow (state, nonce, verifier) and identity | `/login`, `/callback`, `/logout` | browsers, in any order |
| FastAPI middleware, WebSocket, dependencies | none of their own; the library's caches | decide whether a request is authenticated, and with which status it is refused | requests |
| Conformance relying parties (`conformance/app.py`, `app_fastapi.py`) | module globals: sessions, the context of the last flow and logout, the registered client, request objects, results; one HTTP client per flow | `/discover`, `/register`, `/authorize`, `/callback`, logout endpoints, `/clear-cache` | the runner's requests, in threads or coroutines |
| Go JWKS (`go/pkg/jwks`) | entries with LRU ticks, cooldown records, a singleflight group, key handles | `FetchKeySet`, `ResolveKey`, `ResolveKeyWithRefresh`, `ForceRefresh`, `ClearCache` | goroutines that may be cancelled |
| Rust JWKS (`rust/src/jwks`) | entries with LRU ticks, cooldown records, a map of single-flight gates | `fetch`, `force_refresh`, `resolve_key` | futures that may be dropped at any await |
| Go and Rust discovery | a TTL cache each | fetch, clear | callers |
| Go DPoP transport | the latest nonce per host | `RoundTrip` with one nonce retry | concurrent requests |
| JWT, ID token and claims validation (all languages) | none | decide on a token | everything above |
| Other Go and Rust endpoints, JAR, JARM | none | one request, one answer | applications |

How they interact: `validate_token` discovers the provider, obtains the key set
from the JWKS cache, picks the key and decodes; an unknown kid or a bad signature
sends it back to the cache for one forced refresh. `rp.py` uses discovery, the
code exchange, the ID token validation (hence the caches) and userinfo.
`TokenManager` uses discovery and the refresh grant, which runs under the retry
loop of the HTTP layer.

What is hard here: requests in flight while somebody else writes, refreshes,
evicts or clears; a check (cooldown, request time, expiry) that is separated from
its effect by a network call; locks that are per loop over a cache that is per
process; futures and coroutines that disappear in the middle; key rotation at any
moment; lost answers to grants that were processed; a session that is a copy; a
client that one task closes while another is handed it; globals that overlapping
flows share; exceptions that nobody catches after something was spent; decisions with
many inputs.

What makes each part correct:

* JWKS caches: a withdrawn key stops being accepted within a known time; a key the
  provider publishes is found although the cache held the old set; concurrent
  misses share one request; the maps stay bounded; nobody waits for ever; the
  cooldown bounds what unknown kids can cost the provider.
* TokenManager: concurrent callers do not use a rotating refresh token twice; no
  grant is sent while a good token is at hand; the pair belongs together; every
  call returns.
* Login: the identity in a browser's session is that of the user who
  authenticated in a login which that browser began; a flow is used once; logout
  ends what was under way; a genuine callback is accepted.
* Discovery cache: a caller gets a document that its own policy admits and that is
  not older than its lifetime, whoever fetched it; failures are not cached; the
  counters count what happened.
* Endpoint calls: what the provider granted is not asked for again unless the answer
  was lost; the caller is told the truth; every HTTP client is closed by somebody and
  none is handed out after it was closed; every call returns.
* Resource server: only genuine tokens are let in, genuine ones are, an outage is not
  blamed on a token, and ID, logout and access tokens do not replace each other.
* Conformance relying parties: a code goes out once; a login is that of its own flow;
  a genuine one succeeds although flows overlap; the runner gets a result.

## 2. Modules

| Module | Models | Composes |
|---|---|---|
| `PyJwks` | Python JWKS cache and `validate_token` around it | |
| `Recency` | the recency order of a bounded cache, as operators | used by `PyJwks`, `GoJwks`, `RustJwks`, `PyDisco` |
| `PyJwksBudget` | `PyJwks` with a history of unhelpful refreshes | extends `PyJwks` |
| `GoJwks` | Go JWKS cache, flights, handles | |
| `RustJwks` | Rust JWKS cache, gates, client | |
| `TokenManager` | FastAPI token manager, refresh grant, retry loop, rotating provider | |
| `RpLogin` | FastAPI login router, browsers, provider | |
| `JwtLogic` | the decision about a signed token, as operators | |
| `DiscoLogic` | discovery policy, documents, key sets, lifetimes, as operators | extends `JwtLogic` |
| `EndpointLogic` | preparation and classification of endpoint requests, as operators | |
| `AuthzLogic` | authorization request, callback, JARM, logout, as operators | extends `JwtLogic`, instantiates `EndpointLogic` |
| `PyClient` | endpoint calls over own, shared and managed HTTP clients | extends `EndpointLogic` |
| `DiscoStore` | what the discovery cache promises (abstract) | |
| `PyDisco` | Python discovery cache, threads and event loops | extends `DiscoLogic`, implements `DiscoStore` |
| `ResourceServer` | middleware, WebSocket authenticator, dependencies and library calls over the shared cache | extends `PyDisco` |
| `Conformance` | both conformance relying parties, the runner, the provider | extends `AuthzLogic` |
| `..._proofs` | theorems about the module they are named after, and what they rest on | extend it; the three JWKS ones also `Recency_proofs` |
| `Validation_proofs` | theorems about `ResourceServer` and `Conformance` | extends both, which share the lemmas about `JwtLogic` |
| `MC...` | keys, tokens, operations, plans and symmetry for the configurations | |

### PyJwks

A caller is a thread or task inside `validate_token`; `pc` says where it is and
`job` holds its locals. `entry` and `order` are `_jwks_cache`, `stamp` is
`_kid_miss_last_attempt`, `lock` the fetch locks. A fetch lock is a pair of loop
and stripe: the sync implementation is the instance with one loop, the async one
has a lock table per loop over the same cache. Sections under the write lock
contain no blocking call and are single steps. The request is not: `AcquireFetch`
and `AcquireRefresh` send it, `Answer` is the provider's reply, `ApplyFetch` and
`ApplyRefresh` write it (`apply_jwks_cache_outcome` with its eviction included) and
release the lock. `Lookup` and `Touch` are separate because a reader takes no
lock between them. `Resolve`, `Decode`, `AccountKidMiss` and `AccountSignature`
are the decisions of `_discover_and_resolve_key` and `_retry_with_refreshed_jwks`.
A key is a kid and a material, a token names a kid and the material that signed
it; signature verification is equality of materials. `Candidates` is what
`_no_kid_candidates` leaves of a set for a token without a kid; how it narrows by use,
algorithm and type is in `JwtLogic`.

`published` and `gone` are the provider: what it serves, and when each key was
last withdrawn. `Tick` is the clock; it does not pass the HTTP timeout of a
request in flight.

### GoJwks

Every method of the cache holds `c.mu` for its whole body and is one step. A
flight is the goroutine singleflight runs for a URI, with its stages recheck,
request, store and deliver; it goes on when the caller that started it is
cancelled, since its context is detached. `order` are the LRU ticks, `handle` the
`Keys` of a `*JSONWebKeySet`. Every key set carries a history `at`: when the
provider served it.

### RustJwks

The same questions over different machinery. A gate is the `Arc<Mutex<()>>` of a
URI: `in_flight` names at most one for each URI, tasks that hold a clone keep it
alive after it has left the map. `Drop` ends a future at any await and runs its
RAII guard (`release_flight`, which compares identities); `PutDropped` is the
await inside `put`, between the eviction and the pruning of the cooldown records.

### TokenManager

`access`, `refresh`, `expires` and `lock` are the fields of the object; `used`,
`issued` and `revoked` the provider, which rotates refresh tokens (each works once,
the second use revokes the family). `Post`, `Retry` and `Process` are the grant
under the retry loop; an answer may be lost after the grant was processed.
`Cancel` is a task cancelled at an await. `orphaned` is a history of the families
whose rotated refresh token was issued and never stored. `Login` is the application's
`set_tokens`, with or without a refresh token, possibly during a refresh.

### RpLogin

The session is Starlette's cookie session: a request works on the copy it was sent
with, its response (`Arrive`) replaces the cookie by that copy, or is lost
(`Lose`). `Hasty` is the set of browsers that send a request before the last one
is answered, or lose responses; the others wait for each response. A flow is the state, nonce and verifier of one `_login`. The handler of
`/callback` is split at its awaits: `Check` (pop of the flow, parse, state and
error checks), `Discover`, `_exchange_code`, `_validate_id_token` (with the nonce
comparison) and `_fetch_userinfo`. Any browser may open any callback URL it has
come to know, repeatedly; the provider may fail or answer with tokens of another
flow in the flows of `Faulty`. `Fail` is a failure that becomes an `HTTPException`, whose
response carries the session with the flow popped. `Raise` is one that does not (a token
response or a userinfo that is not an object, a malformed ID token): the 500 comes from
outside `SessionMiddleware` and sets no cookie. `died` is a history of the flows that
met one.

### JwtLogic, DiscoLogic, EndpointLogic, AuthzLogic

These hold no state. A Python function that raises is an operator whose value is
"ok" or the name of the exception class; one that returns a result record is an
operator with that record. A token is a record of what its checks look at, a
signature the name of the key material that made it. An answer is its status and the
shape of its body. URLs are scheme, host and whether they carry a query or fragment.
The order of the checks is kept (`FirstErr` yields the first that fails), since the
class that is raised decides between 401, 403 and 503 further up. `validate_token` is
given the three key sets that a call can come to use, which are the cached or fetched
one, that of the refresh for an unknown kid and that of the retry after a bad signature,
and what the cooldown says of either refresh; a call with an injected HTTP client is the
case without the first refresh and with the second. `PyJwks` has the cooldown itself.

### PyClient

A caller is a thread or coroutine that makes one call after the other; `call` holds
its locals. Each endpoint function is an action for its sync and one for its async
twin (`Wrapper`); it prepares the request, then `resolve_http_client` or
`resolve_async_http_client` chooses the client, `Send`, `Deliver`, `Lose`, `Backoff`
and `Wake` are the retry loop, `RenewProof` the DPoP nonce round, `ProcessAnswer` the
classification and `Finally` the clean-up of mTLS clients. `clients` lists every
httpx client with its state; `shared` is the async client of the process, which is
tested and read in two steps without the lock (`get_async_http_client`,
`GotShared`) and made under it (`CreateShared`);
`local` are the threads' clients. `CloseShared` and `ClearShared` are the two halves
of `close_async_http_client` around its await, and `CutClose` is that await cancelled or
failed; `CloseManaged` and `SetClosed` are the two halves of a managed client's `close`,
which has a `finally`. `grants` and `lost` record the provider's side of a call: a grant
may be lost with its answer or hidden by a 5xx.

### PyDisco and DiscoStore

`PyDisco` is `_get_disco_response` in both drivers. `cache` has one cache per side
(sync and aio), a sequence in the order of the OrderedDict; `home` places a caller in
the thread side or on an event loop, and fetch locks are per home and stripe. `Lookup`,
`Touch`, `Acquire`, `Fetched` and `Apply` are the steps between which other callers
run; `Cancel` ends a coroutine at an await; `stats` are the counters.

`DiscoStore` states what a caller may rely on, without caches, locks or eviction: it
gets what its own request brought, or an answer to the same address and policy that
may be shared and is at most its lifetime and one request old; a failure reaches only
the caller whose request failed. The mapping is `Store == INSTANCE DiscoStore WITH
phase, want, got`, read off `task`; `log` is a history variable of `PyDisco` with the
answers that the store could still share. A lookup, a touch, waiting for a lock,
an eviction and a clear are stuttering steps of the store.

### ResourceServer

`conn` is, per caller, a request and what became of it: an HTTP request through
`dispatch` and a route's dependencies, a handshake through `authenticate_websocket`,
or a library call. The discovery part runs through the steps of `PyDisco`, so that two
callers share the cache; the decision about the token is `JwtLogic` over the document
and the key sets they were given. `PyJwks` has the cache of the keys: here a call finds
some answer wherever it looks (`JwksAnswers`: the first, those of the two refreshes, and
the cooldown), in any combination. `_authenticate` and `authenticate_websocket` are the
two `except` chains.

### Conformance

`plan` says which harness runs, what the runner asks for in each flow, and the one
point, if any, where the provider misbehaves. `sessions` and `session` are the dict of
flows, `lastFlow`, `lastLogout`, `expected`, `registered`, `request_objects` and
`test_results` the other globals. A request being served is a slot of `req`; handlers
are cut wherever another thread (`app.py`) or coroutine (`app_fastapi.py`) can run
between two accesses to the globals. An exception that a handler does not catch ends it
where it is raised (`Drop`, `Done`; `Uncaught` lists the five of a callback). `/register`
answers with a refusal or replaces the registered client. Requests overlap because the runner gives a
request up after 30 seconds and goes on with the next test while the handler still
works (`conformance/run_tests.py:381`, `407`, `495`, `588`).

## 3. Runs

Passing runs show a property on the instance; violation runs show that a sentence
of the repository does not hold of the code (section 4).

| Run | Shows |
|---|---|
| `py_jwks_rotation` | two callers of one URI while the provider adds a kid and replaces the key of another: `SingleFlight`, `RevokedKeyBound`, `RotationAbsorbed`, `NoLateOverwrite` |
| `py_jwks_evict` | two event loops, two URIs, room for one: `CacheWellFormed` under reads, touches, writes, evictions and clears; `TypeOK` |
| `py_jwks_budget` | unknown kids and bad signatures: a caller spends one unhelpful refresh per cooldown (`OncePerCaller`), and every call returns (`EveryCallReturns`) |
| `py_jwks_coalesce` | violation of `RefreshCoalesced` |
| `go_jwks` | `FetchedFresh` (one TTL and two flights), `QuietRefresh`, `NotPoisoned`, `Bounded` under cancellation, clears, rotation, eviction and a failing provider |
| `rust_jwks` | `Bounded`, `GatesReclaimed` (a gate in the map has a user, a locked gate an owner that will unlock it), `QuietRefresh` with futures dropped at every await |
| `rust_jwks_gate` | violation of `SingleFlight` |
| `token_manager` | `FamilyIntact`, `PairConsistent`, `NoNeedlessGrant`, `EveryCallReturns` with lost answers, retries, cancellation and a login, with or without a refresh token, during a refresh |
| `rp_login` | `OwnLogin` for every browser; `FlowSpent`, `LogoutFinal`, `GenuineAccepted` for the one that waits |
| `py_client` | `AtMostOnce`, `Honest`, `NoOrphan`, `SharedOpen`, `EveryCallReturns` for every endpoint function with retries, challenges, redirects, lost answers, hidden grants, cancellations and closes, complete or cut short |
| `resource_server` | `PolicyObeyed`, `CountersExact` and the refinement `ImplementsStore` of the shared discovery cache; `SoundAccept`, `Complete`, `NotInterchangeable` of what is let in, `OutageTold` of what is not |
| `conformance` | `FlowOnce`, `OwnLogin`, `Reported`, `GenuineAccepted`, `ClientsAccounted` with overlapping flows, repeated callbacks and a provider at fault in one point |

`TypeOK` of `GoJwks`, `RustJwks`, `TokenManager` and `RpLogin` are checked by no run and
proved instead. That of `PyClient` documents the state; its proofs use `CallInv` and
`RefsOK`, which say more where it matters.

The bound of `FetchedFresh` in Go is the exact one of the design: a flight may
store its answer late, and a second flight may find that entry just before it
expires and be joined just after, so two flights add up. In Python the bound of
`RevokedKeyBound` counts from the call, the age of an entry from the moment it
was written. `GenuineAccepted` of `Conformance` and of `RpLogin`, and `Complete` of
`ResourceServer`, are the other half of the soundness properties: without them a
model that refuses everything would pass. `OutageTold` compares the verdict on a token
with the one on the same token had the key that signed it been in every answer that got
lost in the network (`Healed`): if they differ, the client must have been told to come
back. A check that the failing fetch has the right exception class would say less, since
the same class can also be raised after a fetch that worked.

### Bounds

Two callers (three in `rust_jwks_gate`) are what the races need: one that holds
something, one that overtakes it, one that is dropped. One URI where the
question is about one provider, two with room for one entry where it is about
eviction. Clocks run to 1..3 units with a TTL and timeout of 1 or 2: long enough
for an entry to be written late, expire, be kept and be used; runs about bounds and
liveness need less. The kid of a token is known, unknown or absent and its material
right or wrong, which are all the cases that `find_key_by_kid` and the decoding tell
apart. Two logins and two browsers, one hasty and one that waits, are the least in
which a login can be confused with another one; the provider is faulty in one of the
two flows, so that a genuine flow meets tokens of a faulty one. Callers, tasks, gates,
requests and subjects are interchangeable and used as symmetry sets in safety runs;
liveness runs use no symmetry. No configuration replaces a definition of a module.

`go_jwks` and `rust_jwks` ask several questions of one instance, and their state
constraint `MCScope` keeps the questions apart. In Go, forced refreshes of one URI are
followed over rotations at one instant and over expiry without rotation (the age of a
key set does not depend on what is in it), and misses, evictions and failures of two
URIs at one instant. In Rust, forced refreshes are followed over rotations and expiry
for one URI, misses over rotations and over expiry for one, and misses, evictions and
failures of two URIs by several tasks at one instant and by one task after it. A forced
refresh of one URI while the other is in use is beyond these runs; the URIs share only
the size limit.

`py_client` has one caller that may make any call, sync or async, with requests that
deviate from the plain one in a point, and two that share the async client while a
third task closes it; one retry is enough for a retry to follow a lost answer, an
error or a challenge. `resource_server` has pairs of callers on one loop, on two loops
or in two threads (`Duo`) that share a cache of one entry up to time 3, which covers
storing, expiry, eviction and a clear during a request; and single callers (`Solo`)
with every kind of request, whose token, keys, document, policy or settings differ
from a genuine one in a point or two, and whose key fetches fail or are forbidden one at
a time. `conformance` has two flows at a time, each
callback opened at most twice, and a fault in one of about forty points of the
first flow.

Deadlock is checked where an idle caller can always begin again. `py_client`,
`resource_server` and `conformance` give each caller a number of calls or flows, after
which the system rests, and switch the check off.

### Fairness

`FairSpec` assumes weak fairness of every step of a caller inside a call (threads,
tasks and goroutines are scheduled; requests end, since the clients set a timeout,
and the clock does not run past it) and strong fairness of acquiring a lock or gate:
`asyncio.Lock` and tokio's `Mutex` are FIFO; `threading.Lock` is not, but the
operating system does not starve a waiter for ever. Nothing is assumed of
beginning a call, of rotation, of cancellation or of logins. `PyClient` assumes weak
fairness of each caller's steps within a call and of finishing a close that was
begun; nobody has to call or close. For the Rust gates progress is covered by safety:
no gate stays locked without an owner on its way to unlock it (`GatesReclaimed`), and
no state is a deadlock.

## 4. Findings

Each comes with a run whose counterexample is the trace.

1. `RefreshCoalesced` (`sync/token_validation.py:229`): `request_time` is read
   after the lock has been acquired, so the guard never recognises a refresh that
   ended while the caller waited. Waiters refresh one after the other.
2. `SingleFlight` of Rust (`cache.rs:319`): a waiter that is dropped removes the
   gate that the fetching task still holds; the next caller fetches in parallel.

The models also show where a promise is weaker than a reader may think; the
properties state what does hold:

* The cooldowns of all three caches are checked before the request and stamped after
  it. Callers that pass together each send one (`OncePerCaller` is per caller).
* While the cooldown of an unhelpful refresh runs, a token signed by a key that the
  provider has published since the cached answer is refused
  (`aio/token_validation.py:520-527`, `559-571`; `RotationAbsorbed` names the case).
* `ForceRefresh` and `force_refresh` may return a set served before the call, through
  a request that was in progress (`QuietRefresh`, `FetchedFresh`).
* A request in flight during `clear_jwks_cache` writes into the cleared cache.
* With a provider that does not rotate refresh tokens, a login during a refresh may
  leave the new login's refresh token with the old login's access token
  (`PairConsistent` is stated for rotation). A login without a refresh token during a
  refresh makes the grant go out with an empty one.
* The comment of `_callback` (`rp.py:322-323`) says that a failed or replayed callback
  cannot reuse the flow. The pop acts on the request's copy of the session, so it can:
  in a callback repeated before the first response arrives, and after an exception that
  is no `HTTPException`, whose response sets no cookie. `rp.py:264` catches
  `PyIdentityModelException` only, and a malformed ID token raises PyJWT's `DecodeError`
  (`parsers.py:127`). `FlowSpent` is stated for browsers that wait and flows without such
  an exception. The provider takes a code once, so no second identity comes of it
  (`OwnLogin`).
* A browser that does not wait can be logged in again by the response to a callback that
  arrives after that of a logout, and loses both logins when it begins two in one session
  (`LogoutFinal` and `GenuineAccepted` are stated for browsers that wait).
* A cooldown stamp of the Python cache can be set for an entry that was evicted
  meanwhile; only `clear_jwks_cache` removes it.
* The discovery cache is keyed by address and policy, the JWKS cache by URI alone: a
  hit there relies on the check that the discovery document passed
  (`aio/token_validation.py:298`). A request in flight during
  `clear_discovery_cache` writes into the cleared cache.
* A discovery request that is cancelled is counted neither as hit nor as miss
  (`CountersExact`), although `cache_metrics.py:40-41` counts every request that reached
  the network.
* A provider that answers discovery or JWKS requests with a 5xx, or with garbage, makes
  the middleware answer 401 and the socket 1008; only errors of the network make them
  answer 503 and 1013, since `_is_upstream_fetch_failure` compares two message prefixes.
  The comment above it (`middleware.py:65-71`) speaks of discovery and JWKS fetch
  failures, and `CHANGELOG.md:98` of the FastAPI package of "a discovery/JWKS/network
  fault". `OutageTold` is stated for the network.
* `require_scope` and the library's `_granted_scopes` read an empty scope claim that is
  not a string differently.
* A close of the shared client that is cancelled or fails at `aclose()`
  (`aio/http_client.py:268-269`, no `finally`) leaves a closed client for every caller up
  to the next close (`SharedOpen` names the case).
* A 5xx answer is retried although the provider may have granted the request
  (`AtMostOnce` and `Honest` are stated up to it).
* Without a Retry-After header `resolve_retry_delay` does not apply the cap.
* `app.py` reads a JARM response in the context of the flow that was started last, so
  a genuine response is refused when another issuer or client came in between; the same
  holds of a logout token (`GenuineAccepted` is stated for equal contexts).
* Five exceptions end a callback of the harness after its session was popped, and leave
  the runner without a result (`Reported` names them): a discovery document that is not
  an object, a malformed ID token, a token answer that is not an object
  (`app.py:1530`, `rp.py:361`), such a UserInfo answer in the router, and, with DPoP, an
  access token that is not ASCII.
* A post-logout callback without a state is always turned away, also when `/logout` sent
  none, although `conformance/app.py:1807-1809` says that the check then expects none
  (the third part of `GenuineAccepted` says that this is the only state refused so). A
  `/login` that raises leaves the HTTP client of its flow open in `app_fastapi.py`
  (`ClientsAccounted`).

## 5. Proofs

Every safety property that a passing run checks, and every action property, is a theorem
for every value of the constants. A proof goes the same way each time: an
inductive invariant, one step per action that keeps it, and the property as a
consequence. The constants obey named assumptions, which TLC evaluates in every run.
The bounds of the runs (`MaxTime`, numbers of calls, flows or tasks) are constants
too, so the theorems hold for runs of every length.

### Recency_proofs

What touching, dropping and truncating the recency order do: its members, that they
stay distinct, its length. Everything about eviction in the JWKS caches rests on it.

### PyJwks_proofs

For any number of callers, loops, stripes, URIs, keys and cache entries, any TTL range,
cooldown and timeout, from `LocksAssumption`, `KeysAssumption`, `BoundsAssumption` and
`NoEntryAssumption`:

* `TypeCorrect`. The work is in `EnforceSizeLimit`, `ApplyType` and `TouchType`, and in
  `ResolveTtlType`, that every TTL is within its clamp.
* `SingleFlightHolds`. `SingleFlight` speaks of callers in flight; it becomes inductive
  as `LockInv`: whoever is between acquire and release owns the fetch lock of its URI.
* `RevocationBound` (`RevokedKeyBound`). The inductive invariant is `FreshInv`.
  `EntryInv` says that an entry's keys were served at most one timeout before it was
  written. `CallerInv` adds, for a caller: when its request was sent, that an answer
  holds keys served since then, that keys in hand were served within one TTL and one
  timeout of the call, and (`Relies`) that the entry of its URI cannot expire before the
  call began as long as the caller may still fall back on it. The last part is what the
  fallback to a retained entry after an empty answer needs: it hands out an entry that
  may have expired since, but not one that had expired when the call began.
  `PublishedMonotone` carries all of this over a rotation. The proof uses no lock, and so
  covers several event loops, where late answers do overwrite newer ones.
* `CacheWellFormedHolds`, for every number of loops: `apply_jwks_cache_outcome`, the touch
  and the clear keep the OrderedDict consistent by themselves.
* `NoLateOverwriteHolds`, for the sync implementation and for one event loop (its
  hypothesis says that there is one loop). With two loops it is false, as the locks are
  per loop. It needs `LockInv`: while a request for a URI is in progress nobody else can
  write its entry.
* `RotationAbsorbedHolds`. `AbsorbInv` follows a token whose key stays published: it is
  in every answer that is not older than the call, so it can be missed only in an entry
  that a refresh fell back on, or in a cached one when the cooldown forbade the refresh.
* `OncePerCallerHolds`, an action property of `PyJwksBudget`. The cooldown is checked
  long before the stamp is set, and others may set it meanwhile. `BudgetInv`: whatever a
  caller that has passed the check spent before is a cooldown old (`Thrifty`), and the
  stamp is the latest of what was spent (`SpentInv`), so that passing the check
  establishes it.

### GoJwks_proofs and RustJwks_proofs

From `GoConstantsAssumption` and `GoNoEntryAssumption`, `RustConstantsAssumption` and
`RustNoEntryAssumption`, for any number of goroutines or tasks, URIs, entries and gates:

* `BoundedHolds`, with `SizeInv`: the recency order lists exactly the entries, and a
  cooldown record is kept only with its entry or within the limit.
* `FetchedFreshHolds` and `QuietRefreshHolds` of Go follow from `AgeInv`, which dates
  keys through the cache (`EntryInv`), a flight (`FlightInv`) and a caller
  (`CallerInv`). `FreshSince` is what a caller that found no request in progress may
  rely on until it has its answer: nothing older than its call is in the cache or on its
  way into it. `NotPoisonedHolds`: only an outage makes a flight fail, since a cancelled
  caller leaves it alone.
* `GatesReclaimedHolds` and `QuietRefreshHolds` of Rust: `HoldInv` says that a task
  holds a clone of a gate exactly while it is inside the flight, so the guard that runs
  when its future is dropped finds what it has to release, wherever that happens.
* `TypeCorrect` of both.

### TokenManager_proofs

From `ManagerAssumption`, for any number of tasks, logins and retries:

* `TypeCorrect`, with `SentInv` (an answered task has sent a real token).
* `NoNeedlessGrantHolds`, an action property, from `LockInv`.
* `FamilyIntactHolds` and `PairConsistentHolds`. `ChainInv` follows the chain of
  rotated refresh tokens: the manager's token is spent only while some task carries its
  successor, a task never sends a spent token, and what it carries is a fresh pair of the
  family it sent. `RotationInv` adds that a provider without rotation revokes nothing.

### RpLogin_proofs

From `RpAssumption`, for any number of browsers, requests, logins and users:

* `OwnLoginHolds`, for every browser, hasty or not. `OwnInv` follows an identity from the
  authentication over the code, the request and its copy of the session to the cookie:
  past the checks a request completes a flow that its own browser began, and the nonce
  ties the ID token to it.
* `FlowSpentHolds`, `LogoutFinalHolds` and `GenuineAcceptedHolds`, for browsers that
  wait. `WaitInv`: the request is the browser's only one, so the cookie is still the one
  it was sent with; nobody has passed the checks with the flow in it, unless a callback
  of that flow died, and both its flow and its identity are younger than the last logout.
* `TypeCorrect`.

### PyClient_proofs

From `PyClientAssumption` (numbers are naturals, and the expected subject of UserInfo is
one of its three cases), for any number of callers, closers, retries and workloads:

* `AtMostOnceHolds` and `HonestHolds` from `CallInv`: as long as a call is unanswered
  every grant it was given was lost or hidden, and an answer that grants is the only one
  that was not. Each of the fourteen operations has its lemma on how it classifies an answer.
* `NoOrphanHolds` and `SharedOpenHolds` from `SharedInv`: nobody but the process refers
  to the shared client, one closer at a time works on it, and a closed one is in a
  closer's hands or was left there by a close that was cut short.

### Validation_proofs

About `ResourceServer` with `PyDisco` below it, from `PyDiscoAssumption`,
`WantsAssumption`, `ServerAssumption` and `RequestsAssumption`, which say what form the
settings, policies, documents, key sets and requests have (a `max-age` is an integer, a
key has a type, a protected route has one of the three dependencies), not what is in
them. For any number of callers on threads and event loops:

* `PolicyObeyedHolds` and `ImplementsStoreHolds` (the refinement `Spec => Store!Spec`)
  from `DiscoInv`: as long as an entry is not expired the history holds the answer it was
  written from, and that answer was asked for under the same key (`EntryInv`); a caller's
  document is one that its own want can bring (`TaskInv`). Every step of `PyDisco` is a
  step of `DiscoStore` or a stutter under the mapping.
* `CountersExactHolds` from `CountInv`; the lemmas `NumberStep` and its like count the
  callers at a place before and after a step.
* `SoundAcceptHolds`, `CompleteHolds`, `OutageToldHolds`, `NotInterchangeableHolds`.
  `ConnInv` says that a request that has been judged has the outcome that `Twin`, the sync
  or async validation, gives for what it was handed, and the status that follows
  (`Verdict`), and that one that was not judged is let in nowhere (`Unjudged`). The rest
  are lemmas about the operators of `JwtLogic`: what an accepted token must have passed,
  that a genuine one passes every check of the chain, also when only a refresh brings its
  key, and that both twins decide alike. For `OutageTold`: a failed fetch that the call
  uses surfaces as an outage (`ResolveOutage`, `DiscoverOutage`, `RetryOutage`), so a
  verdict that is none depends on no failed fetch and stays the same when the failed ones
  are replaced (`HealedSame`), and an outage has its source in a fetch that was made
  (`OutageSource`).

About `Conformance`, from `PlansAssumption` (a flow is asked for with an issuer and a
client id, of `/authorize` or `/discover`; `app_fastapi.py` has no FAPI profile; states
are not empty and those of `/logout` are nobody else's), for any number of flows, slots and repeated callbacks, and any plan:
either harness, every mode, any point at which a provider misbehaves. The five properties
speak of flows that have ended or of codes that went out, and say nothing of a handler
between two accesses to the globals; `HarnessInv` (`HarnessInvariant`) says it:

* `Alone`: at most one request works for a flow. `sessions.pop` makes it so, and without
  it no fact about a session would survive the step of another request.
* `ReqOK`: what a request has behind it. A request that starts a flow (`StartingOK`) works
  on one that the provider does not know yet; a callback that has taken a session out
  (`HoldingOK`) has sent no code up to the exchange, past a check it has passed it, and
  before its client is closed it has left a result.
* `FlowOK`: a flow that the provider knows is waiting for its callback, thrown away by
  `/clear-cache`, being served, or has its verdict; an open client has an owner; a result
  stands under the test it belongs to.
* `RedeemedOK` and `TurnedOK`: a redeemed code came out of the session its answer names,
  which is what makes the exchange of a genuine code succeed; nothing genuine was turned
  away but a post-logout callback without a state.

`FlowOnceHolds`, `OwnLoginHolds`, `ReportedHolds`, `GenuineAcceptedHolds` and
`ClientsAccountedHolds` follow. The other half of the argument is about `AuthzLogic` and
`JwtLogic`: the answer and the ID token of a provider that behaves pass the parser, JARM,
the issuer check, the validation with each mode's options and the FAPI audience check;
and a token that passes them, whatever the fault, was signed by the flow's issuer for its
client and carries its nonce. Each action has a lemma of its own that keeps `HarnessInv`.

### Only model-checked

* `EveryCallReturns` of `PyJwks`, `TokenManager` and `PyClient`: liveness under fairness
  is out of the prover's reach.
* The two violations of section 4, which are counterexamples.

## 6. Not modelled, and the plan

Not modelled, and why (`PROJECT.json` has every component):

* Go and Rust discovery: the caches of `GoJwks` and `RustJwks` without refresh and
  cooldown.
* Go and Rust JWT validation, token client, introspection, revocation, userinfo and
  DPoP proofs: one request, one answer or one decision without shared state. Their
  Python twins are modelled.
* The nonce cache of the Go DPoP transport, which concurrent requests share.
* `core/fapi.py`, `build_jar_authorization_url`, the counters of the JWKS cache,
  `/clear-cache` of `app.py`.
* Cryptography, certificate and TLS handling, logging, constants, plain records; the
  runner, infrastructure, mutation and release tools, examples; the Node placeholder.

Order of work:

1. Done: `PyJwks`, its runs and its proofs; `GoJwks`, `RustJwks`, `TokenManager`,
   `RpLogin`; `JwtLogic`, `DiscoLogic`, `EndpointLogic`, `AuthzLogic`; `PyClient`;
   `DiscoStore` and `PyDisco`; `ResourceServer`; `Conformance`.
2. Done: theorems for the safety properties of `PyJwks`, `GoJwks`, `RustJwks`,
   `TokenManager`, `RpLogin`, `PyClient`, `ResourceServer` and `Conformance`, and the
   refinement of `DiscoStore` by `PyDisco`.
3. Left: an abstract key cache that `PyJwks`, `GoJwks` and `RustJwks` implement; the
   Go DPoP transport's nonce under concurrent requests.
