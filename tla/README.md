# Verification of the URL shortener

TLA+ models of the URL shortener's services, TLC runs on small instances and
TLAPS proofs for all instances. Source paths below are relative to the
repository root; `PROJECT.json` maps every definition to the lines it models.

## 1. The system

Three Node/Express services share a set of libraries under `shared/`.

| Component | Source | State | Operations |
| --- | --- | --- | --- |
| Creation of short URLs | `persistence/src/core/shortner-url.service.ts` | PostgreSQL table `ShortnedUrl`, unique `key` | `generateShortUrl`: draw a key, INSERT, `populateCache`, DELETE if that fails; `getOriginalUrl` |
| Redirect lookup and cache | `redirect/src/controllers/redirect.controller.ts`, `core/redirect-cache.service.ts` | Redis keys `shortlink:*`, 24 h | `GET /:shortCode`: cache, else ask persistence, fill, 302/404; `POST /cache` |
| Concurrency gate | `redirect/src/core/mutex.service.ts`, `middlewares/withConcurrentLimiting.ts`, error handler in `app.ts` | count of slots, queue of promises, time of the last acquisition | `acquireLock`, `release`, `drop` |
| Idempotent creation | `persistence/src/middlewares/withIdempotentResult.ts`, `core/optimistic-concurrent.service.ts`, `core/idempotent.service.ts` | Redis keys `<k>:lock` (counter with time to live) and `<k>:result`, watches of the connection | WATCH/GET/MULTI/EXEC, retry, lookup, replay, release and store on `finish` |
| HTTP clients, error mapping | `shared/http/src/clients`, `withErrorHandling.ts` | none | a non-2xx answer throws; an error becomes a 500 |
| Contracts, validation | `shared/contracts`, `withZodValidation.ts` | none | a request that does not parse is answered with 400 |
| Redis access | `shared/redis` | one connection per process | every command rejects with one error |
| Rate limiting | `shared/services/src/core/rate-limiting.service.ts`, `withMovingWindowRateLimiting.ts` | sorted set of times per IP | clean up, count, add |
| Service tokens, client | `shared/services/src/core/issuer-token.service.ts` | cached token and expiry, one request in flight | `getToken`, `clearToken`, `withRetryOnUnauthorized` |
| Service authentication | `shared/http/src/middlewares/withServiceAuthentication.ts` | LRU cache of public keys, 5 min | verify, refresh on mismatch, 401/403 |
| Token issuer | `issuer/src` | key pair of the process | sign, publish the public key |
| Lifecycle | `*/src/server.ts`, `*/src/composition.ts` | connections, listening socket | initialise, SIGTERM, close, clean up, exit |
| Observability, configuration, health check, pessimistic limit, Prisma | see `PROJECT.json` | none that decides anything | the pessimistic limit is used by no route |

How they interact. A creation runs in the persistence service: service
authentication, validation, `withIdempotentResults`, `generateShortUrl`. The
latter calls `POST /cache` of the redirect service with a token of the issuer.
A redirect runs in the redirect service: the gate, the cache, and on a miss
`GET /short-url/:key` of the persistence service, again with a token, and there
behind the rate limiter. State is shared through PostgreSQL and Redis; inside a
process, through the gate, the token cache, the key cache and the only Redis
connection. The three services call each other in chains that are up to three
handlers deep (a redirect asks for a URL, and the persistence service asks the
issuer for its public key), no call has a timeout, and each service starts, stops
and dies on its own.

What is hard about it:

* every `await` is a point at which other requests run, in the same process and
  in others; INSERT, populate, DELETE and a reader's fetch and fill interleave;
* a call can fail for the caller and be carried out by the callee;
* a process can die between any two steps, and the `finish` event of a response
  need not come when the client has gone;
* WATCH, UNWATCH and EXEC belong to the connection, which requests share;
* a timeout that is only looked at when somebody releases;
* retries, times to live and the answers that race with them;
* the sorted set of a client is read, cleaned and added to by requests of several
  processes, in commands that carry times read earlier;
* a service that is told to stop still waits for others, and others for it, and
  connections it had can bring it further requests;
* a request in the gate waits for other requests, and perhaps for ever.

What makes each component correct:

* creation and redirect: a key that was handed out leads to its URL from then
  on, whatever fails; the cache shows nothing the table does not hold; a failed
  creation leaves nothing;
* gate: no more than the allowed number of handlers run, nobody waits in front of
  a free slot, every waiter is let in or turned away, in order;
* idempotent creation: one request per key at a time, a repeated request is
  replayed and not carried out again, no lock stays taken;
* rate limiting: no more requests per window than `limit` and the ones that arrive
  together, no request judged by entries of long ago, no key kept for ever;
* tokens: a caller with a valid identity is let in also while keys rotate, one
  request for a token at a time;
* lifecycle: new connections are taken only between boot and stop, an orderly exit
  drops nobody who waits, and what was answered is stored before the exit;
* error mapping: every request that is past the gate ends, and a client is refused
  only for reasons of its own.

The hazards of the code, each at its line, are in `PROJECT.json`; the
one without a property says why.

## 2. Modules

| Module | What it is |
| --- | --- |
| `UrlStore` | the abstract specification: keys, once published, are bound to a URL; a reader that asks for a published key is answered with that URL or with a failure |
| `WriteThrough` | creation and redirect: table, cache, creations and readers |
| `WriteThroughProofs` | theorems about it |
| `RedirectGate` | mutex, middleware and error handler of the redirect service |
| `RedirectGateProofs` | theorems about it |
| `ReplayLock` | the abstract specification of idempotent creation: a request enters at once and only when there is room for its key, and makes at most one result |
| `IdempotentCreate` | lock, replay and storing of results around a creation |
| `IdempotentCreateProofs` | theorems about it |
| `ServiceTokens` | token cache of a calling service, key cache of a called one, and the issuer |
| `ServiceTokensProofs` | theorems about it |
| `RateLimiter` | the moving-window rate limit and the sorted set of one client |
| `RateLimiterProofs` | theorems about it |
| `Lifecycle` | the abstract specification of the server processes: when they take connections and requests, and when they may exit |
| `RequestFlow` | all routes of the three services: their middlewares, the calls between them, the mapping of errors, and boot, stop and death of the processes |
| `RequestFlowProofs` | theorems about it, with the proof that it implements `Lifecycle` |
| `RequestFlowEnds` | why its requests end: a natural number that every step of a request lowers, and what waiting in the gate can hold up |
| `MC...` | small instances for TLC; they extend the proof modules, so TLC evaluates the same assumptions the proofs use |

The modules do not share state variables. `RequestFlow` composes the services: its
stages are the middlewares and handlers whose insides the other modules model,
and it leaves open what a stage decides (whether the gate, the limiter, the token
check or the table says yes), so that its properties hold whatever they say. Three
abstract specifications are implemented: `UrlStore` by `WriteThrough`, `ReplayLock` by
`IdempotentCreate`, `Lifecycle` by `RequestFlow`.

Each module that models code has a constant `Env`, the set of faults that may
happen. An action that models a fault is enabled only when its name is in `Env`; a
run or a theorem says by its `Env` what a property depends on. Operators marked "A
slip" are plausible mistakes in the definition below them. No action uses them; with
one of them in place of that definition, TLC finds the property violated that
`PROJECT.json` lists under "mutants".

### WriteThrough

One step is what the code does between two awaits. A creation `c` goes through
`pc[c]`: `start` (key drawn and row inserted by `Create`), `populate` (payload
validated, token fetched, POST sent), `awaiting` (the POST `post[c]` is on its way
or answered), `rollback` (the catch block), and ends `answered`, `failed` or
`crashed`. The INSERT is outside the try block, so `CreateFails` and
`CreateUnacknowledged` do not roll back. The POST is handled by the redirect
service at any time after it was sent (`Store`, `Refuse`), whether or not the
creation still waits: that is how a late populate arrives after the rollback. A
reader `r` goes through `lookup`, `fetch` and `fill` and can be suspended at each.
`db` and `cache` map keys to URLs; `published`, `due` and `answer` are what
clients have seen. A drawn key shorter than 9 characters (`ShortKeys`) is
rejected by the validation of the payload; 62^8 of 2^64 draws, one in about
84,000, are.

### RedirectGate

Node runs one callback at a time and a settled promise resumes before the next
callback, so a release and the request it lets in are one step. `Release(pcs)` is
the body of `release()` with the `pc` the calling step leaves: `Drop` if the last
acquisition is longer ago than the timeout (`stale`), else `HandOff` to the first
waiter, else `Decrement`. It is called by `Finish` (the `finish` listener), by
`Throw` (the error handler, for a handler that rejects: the `finish` of its
response releases again) and by `StrayError` (the error handler, for a request
that never held a slot). A client that hangs up (`HangUp`) ends in `Close`, which
releases nothing.

### IdempotentCreate

Every Redis command is a step of its own. `watched` and `dirty` belong to the
process `InstOf[r]`, as in Redis, where WATCH, UNWATCH and EXEC act on the
connection. A request is in `Waiting` until its EXEC succeeds, in `Holding` until its
DECR, and then stores its result. A time to live ends a lock in `Expire`: without
`"ttl"` in `Env` only when nobody holds it (a holder is done within the ten
seconds), with it at any time. `leaked` counts the increments of requests that
died or whose `finish` never came.

`ReplayLock` says what all this amounts to: `Enter` takes the lock in one step where
the code watches, reads, queues INCR and executes, `Make` creates, `Leave` and
`Store` are the two halves of the `finish` listener, and `lost` is the room that
requests have taken along. The mapping is `Phase`: everybody in `Waiting` waits, the
holders are inside, and `leaked` is `lost`; the counter in Redis, the watches and the
attempts have no counterpart.

### ServiceTokens

A call `c` of `ClientOf[c]` to `ServerOf[c]` goes through three parts. In the
caller, `getToken` up to its first await is one step (`GetToken`): use the cached
token, join the request under way (`joined`), or make one (`asking`). When that
request ends, everybody who shares it resumes in the same step, because the
promise's callbacks run before any other (`TokenArrives`, `TokenFails`). The issuer
answers a request in `Sign` and `Publish` with the key pair it has at that moment;
the answers arrive in any order and after any delay. In the called service,
`calling` is the arrival of the request, `resolving` and `refreshing` wait for a
public key, `verifying` and `rechecking` are the two calls of `jwtVerify`. A key
pair is a number and a token is a key pair and an expiry: `iss`, `aud` and `sub` are
constants of the composition. Key ids are configured apart from the keys
(`ISSUER_KEY_ID`, by default always `v1`), so `KidOf` may give two key pairs the
same id. `DropKey` is the LRU cache, which may forget a key at any time. `Restart`
and `Rotate` are restarts of a service and of the issuer with another key pair.
`"retry"` in `Env` puts calls behind `withRetryOnUnauthorized`; today's routes call
`getToken` only, and every property holds either way.

A request without a bearer token, with a token nobody issued, or with an
`X-Service-Id` other than its own changes no state and is left out. All services
read the same clock. Because `AUTH_ALLOWED_CALLERS` names the other service, no
call of `ST_keys` is answered with 403.

### RateLimiter

A request `p` sends one Redis command after the other: `pc[p]` is the command under
way. `cleanupOldEntries` reads the time (`Arrive`) and removes what is older than a
window of that time when the command is carried out (`Cleanup`), perhaps much later;
then zCard (`Count`) decides between the 429 (`Reject`, after the first entry was
read for Retry-After) and `upsertRequestTimestamp`, which reads the time anew
(`Stamp`), cleans up again and sends zAdd (`Add`) and expire (`Expire`). The member
of the sorted set is `request:<time>` and its score the same time, so the set is a
set of times, `zset`, and two requests of one millisecond share an entry. An empty
set is no key and has no time to live. `Tick` lets a millisecond pass and ends a key
whose time has come. Under `"redis"` a command is rejected, which ends the request
with a 500 wherever it is; a command whose reply got lost is its ordinary step
followed by `Fail`. Three histories: `admitted` holds the times of requests that
were let through; `lost` those of them whose key ended between their zAdd and their
expire; `stranded` says that a failure struck between these two and no expire has
come since. One client address is modelled: keys do not influence each other. In
front of the redirect service there is no limiter, so that all its lookups count as
one client of the persistence service.

### RequestFlow and Lifecycle

`Stages` lists every middleware and handler with what it may do: answer by itself
(`answers`), throw (`throws`; the error handler makes it a 500), call a route of
another service (`calls`), and whether that call may be `spared` because its answer
is cached. The `Routes` of the three services are the sequences of stages their
`app.ts` puts together. For a request `q`, `stack[q]` holds the handlers at work,
each called by the one before it; the last one goes on (`Pass`), answers itself
(`Refuse`), throws (`Throw`), calls (`Call`), or resumes with the answer of its call
(`Return`), and at the end of its route answers with `Success`. A call to a service
that does not listen is refused, and a handler whose process has gone leaves a
broken connection (`Break`); both reach the caller as `Lost`. `FailedCall` is the
mapping of errors: `withServiceAuthentication` turns every failure to get the key
into a 401 (`Outage` records that nobody was judged), the redirect controller passes
on a 404, all else becomes a 500.

The gate is the one stage that waits for other requests. In the code
`mutex.acquireLock` returns a promise that only somebody's `release` settles, and when
every slot has been lost to a hang-up nobody releases (`RG_hangup`). Here the stage may
let a request pass at any time and need never do so: `Queues(q)` says that `q` is in
the gate, and no fairness is assumed of its steps there.

`gone[q]` says that the client has hung up, which no handler notices; `finishing[q]`
that the `finish` listener of an answered creation is at work.

A process is `booting` until it has opened its `Resources` in order (PostgreSQL,
Redis, telemetry) and listens; it fails when its configuration, PostgreSQL or its
port does. `Stop` is SIGTERM or SIGINT: the server takes no more new connections and
closes the idle ones (`draining`). A connection that was busy at that moment stays
open when its request has been answered, unless the other end has gone (`Keeps`):
`kept[s]` counts these. Until it ends (`CloseKept`: it is idle for longer than
`keepAliveTimeout`, or the client closes it) it may bring another request (`Takes`),
of a client or, out of the pool of `fetch`, of another service; a caller may as well
open a new connection, and is refused (`Call` leaves both open). Who holds which of
these connections is left out. `Exit` needs that nobody waits for any handler of the
service and that no connection is kept (`Drained`); it is the one step in which
`close` is emitted, the cleanup starts and the callback exits the process, for nothing
runs between these in Node. What then is still at work is lost, and `cut` remembers
it. A process that exited or died stays so.

`Lifecycle` says what this promises without routes, stages or answers: `work[c]` of
a request `c` that is served is free, busy, abandoned by its client, or finishing
after the response, for one service. `RequestFlow` maps `work` to one of them for each
handler a request of a client may need (`WorkOf`), the other four variables to
themselves. A step of a nested call is thus an `Accept`, a crash in the middle
of a chain a `Fail` that frees its own work and makes the work it had called for
abandoned.

## 3. Runs

| Run | Instance | Shows |
| --- | --- | --- |
| `WT_faults` | 2 creations with different URLs, 3 keys (1 too short), 2 readers; every fault but collisions; fair | `TypeOK`, that the system implements `UrlStore` (`ImplementsStore`), `EventuallyNoOrphans` |
| `WT_orphans` | the same, with colliding keys and with faults after which nothing is carried out | `PublishedIsStored`, `NoOrphanCache`, `FailedLeavesNothing` |
| `RG_served` | 4 requests, 2 slots; errors, stray releases, clients that hang up, timeouts; fair | `TypeOK`, `QueueImpliesFull`, `QueueIsWaiters`, `LimitUpToSurplus`, `NoPhantomSlots`, `WaitersAreBacked`, `ServedInOrder`, `ServedUnlessAllLeak` |
| `RG_throw` | the same with errors only; violated | a failed redirect releases twice, and too many handlers run (`ConcurrencyLimit`) |
| `RG_hangup` | 3 requests, 2 slots, hang-ups and timeouts, fair; violated | all slots leak, and a waiter waits for ever (`WaitersAreServed`) |
| `IC_locked` | 3 repetitions of one request on 3 connections; every fault but a slow holder; fair | `TypeOK`, `OneAtATime`, `LockAccounted`, `RepeatAfterStoreIsReplayed`, `TakenLocksExpire`, that the Redis commands implement `ReplayLock` (`ImplementsLock`), `LockIsFreedAgain` |
| `IC_shared` | 3 repetitions on one connection, no fault; violated | both of two requests get the lock (`OneAtATime`) |
| `IC_answered` | 3 repetitions on 3 connections, no fault; violated | a repetition creates a second URL after the first was answered (`RepeatAfterAnswerIsReplayed`) |
| `ST_keys` | 2 concurrent calls of one service, 3 key pairs of which 2 have the same id, tokens that live one second; every fault; fair | `TypeOK`, `RequestIsShared`, `CurrentKeyIsAccepted`, `ExpiredOnlyIfSlow`, `OldKeysDieOut`, `StepsRunOut`, `CallsEnd` |
| `RL_window` | 2 requests of a client in flight, a limit of 1, a window of 3 ticks; failing commands and crashes; fair | `TypeOK`, `WindowBound`, `JudgedByRecent`, `KeyEnds`, `KeyForgotten` |
| `RF_flow` | redirects, creations and health checks, one at a time, through all services; crashes and clients that hang up; fair | `TypeOK`, `ExitDropsNobody`, `AnswersAreOwn`, that the system implements `Lifecycle` (`ImplementsLifecycle`), `StepsRunOut`, `EveryRequestEnds`, `DrainEnds`, the last two with the exceptions of the gate and of kept connections |
| `LC_exit` | 2 creations, no fault; violated | an orderly exit cuts off a `finish` listener (`GracefulExit`) |

The bounds. Two creations and two readers are what it takes for a rollback of one to
meet the row of the other and for a stale fill to meet both; three keys leave one to
collide on, one too short and one nobody drew. Four requests for two slots make two
wait, so order and hand-off matter. Three requests let one holder, one waiter and
one that disturbs a watch exist at once. The bounds in the modules: `MaxAttempts`
ends the polling of a lock (the code polls for five seconds; a request may time out
after any failed attempt, so a larger bound adds attempts but no new kind of step),
`leaked` of `RedirectGate` stops at `maxConcurrent`, and a behaviour of
`IdempotentCreate` is shorter than the 24 hours a stored result lives. Readers of
`WriteThrough`, requests of `RedirectGate` and calls of `ServiceTokens` are slots
that are used again, so their number bounds concurrency and not length. Two calls
are enough to share a request, to delete each other's fresh key and to fill the
cache out of order; three key pairs make a rotation without and one with a change of
the id. `MaxTime` ends the clock and `MaxKey` the rotations: one second is all a
token of `ST_keys` lives, and with longer times (3, tokens of 2 and a skew of 1) the
safety properties were checked, too, on 3.9 million states; the liveness check is
what keeps the recorded run small. The theorems cover all values.

`RL_window`: two requests are what it takes to pass zCard together and to clean up
with each other's stale time; a window of three ticks separates an entry of this
window, one at its bound and one of the window before; `Ttl` is three windows as in
the code; `MaxClock` 5 ends the arrivals, not the time, so that every key still
comes to its end. In 1.4 million states the limit is reached, overrun, and left
again. `RF_flow`: one request at a time is enough here, because its properties speak
of one request or of one process, and requests meet only in what their stages
decide and in how long they stay in the gate, which is left open, and in the
connections a draining service keeps, which are counted whoever opened them; the
request is a slot that is used again, while services stop one after the other, and
`kept` needs no bound, for no more connections are kept than requests have been under
way. There are 429,462 states. Several requests at once are in `LC_exit` and in the
theorems, which hold for any `Requests`. `MaxDepth` 3 and `MaxLength` 11 bound
nothing: they are facts of the routes, and proved (`TypeCorrect`).

Deadlock is checked except in `RF_flow` and `LC_exit`, where the system really stops
once every service has exited or failed; nothing in the repository starts them again.

Fairness. `WT_faults`: a reader's handler that has started goes on (the event loop
runs every callback; the commands it awaits end or fail) and Redis expires an entry
with a time to live. Creations need no fairness. `RG_served`: a handler settles, and
a response is flushed or closed. This assumes that the calls of a handler end; they
have no timeout of their own. Time need not pass: the order of the queue alone
serves every waiter, unless every slot has leaked (`ServedUnlessAllLeak`).
`RG_hangup` assumes besides that the timeout does elapse (`TimedSpec`), and shows
that it does not help. `IC_locked`: requests go on or fail, and Redis expires a lock
nobody renews. `ST_keys`: a call that was started goes on, which assumes that
requests to the issuer end or fail (they have no timeout of their own); the clock
need not advance. `RL_window`: Redis answers or fails, and time passes. `RF_flow`:
every stage but the gate settles, a connection to a process that has gone is noticed
as broken, a kept connection that brings no request ends, and a server without
connections emits `close`. That a stage settles is an assumption about PostgreSQL and
Redis: a command sent while Redis is not there waits in the client's offline queue,
without bound. It is not an assumption about calls between services: that these end
is what `EveryRequestEnds` shows. Nor is it one about the gate, which waits for other
requests and may do so for ever. Kept connections end because Node closes them after
`keepAliveTimeout` (five seconds, if nobody sets another) and the pool of `fetch` does
so, too; nothing in the code ends them earlier, and one that keeps bringing requests
is not idle. No fairness is assumed of faults, of arrivals, of signals or of the
client that waits.

What the gate and the kept connections leave of the two liveness properties of
`RF_flow`: `EveryRequestEnds` says that each request ends or stays in the gate. So a
handler that has a slot ends, whatever it calls, which is what the fairness of
`RedirectGate` takes for granted. Conversely, whether a request in the gate ever gets
past it is the question of `ServedUnlessAllLeak` and `RG_hangup`, not of `RF_flow`.
`DrainEnds` says that a service told to stop exits or dies, unless requests come again
and again on connections it had before, or, in the redirect service alone, a client
waits again and again in the gate. Without either exception TLC finds a
counterexample, so the code has both behaviours: a stop may take for ever.

## 4. Findings

* `RG_throw`: the error handler and the `finish` listener both release, so each
  failed redirect frees a slot of somebody else.
* `RG_hangup`: a slot whose client has gone before the response was flushed is never
  released; `timeoutMs` does not release it either, because it is looked at in
  `release()` only.
* `IC_shared`: the optimistic lock does not exclude requests of one process, which
  share a connection and so each other's watches.
* `IC_answered`: the lock is released before the result is stored.
* `LC_exit`: `process.exit(0)` in the callback of `server.close` comes before the
  `finish` listener of the last creation, and the cleanup, have ended. The lock then
  stays until its time to live ends it, and the result is not stored: a repetition
  creates a second URL.

Not listed as a finding: a populate that fails for the persistence service but
is carried out leaves an entry whose row was deleted. ADR 005 accepts that ("the
rollback is not garantee to work 100% time"); `NoOrphanCache` and
`FailedLeavesNothing` are stated without this fault, and `EventuallyNoOrphans` says
that the time to live repairs it.

Divergences from the documents that no run is dedicated to:

* A short code of fewer than nine characters passes the redirect route, but
  `persistence.http.service.ts:14` throws for it: a 500 where ADR 001 promises a
  404.
* ADR 010 lets the caller retry once after a 401. `withRetryOnUnauthorized` does
  that, and nothing calls it: after a rotation, each service fails its calls until
  its cached token expires.
* ADR 010 keeps the previous public key until all old tokens expire. The issuer
  publishes one key. An old token is accepted only as long as the key cache holds
  the old key under another id; `OldKeysDieOut` bounds this from above, nothing
  bounds it from below.
* ADR 010 calls `X-Service-Id` diagnostic only; `withServiceAuthentication.ts:166`
  answers 403 if it differs from `sub`.
* ADR 006 wants a 503 when Redis is down; the limiter's error becomes a 500
  (`Throw`).
* Retry-After: `toUTCString` cuts off the milliseconds, so the time named is up to a
  second too early; it is a full window from now when the set has been emptied
  between zCard and zRange, and too early after an overrun, when more than one entry
  has to leave.
* Overlapping requests overrun the limit by up to all but one of those in flight
  (`WindowBound`; the bound is attained), and requests of one millisecond count
  once.
* A crash between zAdd and expire leaves a key without a time to live; an old time
  to live can end the key between them, and with it the new entry. `KeyForgotten`
  and `WindowBound` name both cases.
* All lookups of the redirect service share one key of the limiter, and a 429 it
  gets is a 500 for the reader: `AnswersAreOwn` shows that no inner refusal is
  passed on as such.
* An issuer that cannot be reached makes a valid call a 401 (`FailedCall`), which tells
  the caller of a right it lacks although nobody was judged. `AnswersAreOwn` names this
  case (`outage`) and excludes it from no other status. A body that is no JSON is a
  500.
* `server.close` waits for the connections that were busy, without bound: a client
  that keeps using its connection, or one that waits in a gate whose slots have all
  leaked, keeps the process from exiting (`DrainEnds` names both). No document promises
  that a stop ends.
* ADR 010 wants a request id on calls between services; requests for a token and
  populates carry none.
* The processes never end because of Redis: the client retries for ever (`Retried`),
  and boot waits.

## 5. Proofs

All theorems hold for every value of the constants that satisfies the named
assumptions of the modules: `Requests` finite, at least one slot, the maps from
requests to keys, processes and URLs of the right type.

`WriteThroughProofs`

* `TypeCorrect`: `Spec => []TypeOK`.
* `PublishedStaysStored`: `PublishedIsStored` for every `Env`, collisions included.
  The property is not inductive: a rollback may delete any row unless the row
  has exactly one owner. `StoreInv` adds that a creation past its INSERT and not
  yet failed owns the row of its key (`RowsOwned`), that no two own the same
  (`OneOwner`), and that a published key belongs to a creation that has answered.
* `CacheIsBacked`: `NoOrphanCache`, assuming neither `"lost"` nor `"guess"` in `Env`.
  `CacheInv` adds that a cached value belongs to a creation that will not be rolled
  back any more (`CacheBacked`), that a POST on its way has a creation that waits
  for it or died, and that a reader carries only published URLs.
* `Implementation`: `WriteThrough` implements `UrlStore` under the identity mapping
  of the clients' variables, in either of two cases. If no `"collision"` is in `Env`,
  `RefineInv` adds that drawn keys are distinct and that the creation that drew a key
  is the only source of what is stored, cached or carried under it. If keys may
  collide but neither `"lost"` nor `"guess"` is in `Env` (`Trusted`), `CacheInv` says
  that only published URLs are cached or carried. In both, whatever a reader of a
  published key is about to be told is due to it, and `StepSimulation` maps each
  action to a `Publish`, an `Ask`, a `Reply` or a stutter. With a
  collision and one of the other two the claim is false, as TLC shows: the late
  populate of a rolled-back creation, or the fill of a reader that guessed its key,
  answers the next reader of a key drawn again.
* `FailureLeavesNothing`: `FailedLeavesNothing`, assuming that nothing is carried out
  in spite of its failure and that keys are not guessed; they may be drawn twice.
  From `CacheInv` and `RowsHeld`: every row belongs to a creation that may still roll
  it back, died, or has published it.
* `OrphansStayAway`, an action property: once all creations that drew a key are over,
  no POST of theirs is on its way and no reader is about to fill in anything but its
  row (`Settled`), an orphan of that key that has expired never comes back, assuming
  no `"collision"`. No run checks this one by itself: with the expiry of cached
  entries, which is fair, it is what makes `EventuallyNoOrphans` true.

`RedirectGateProofs`

* `TypeCorrect`, `NoIdleSlot` (`QueueImpliesFull`) and `NoLostWaiter`
  (`QueueIsWaiters`) for every `Env`, from their conjunction `GateInv`. A release
  depends on its caller only through the `pc` it leaves, so the lemmas are about
  `Release` and not about its three callers.
* `SlotsAreHeld` (`NoPhantomSlots`) for every `Env`, and with it `WaitersHaveHolders`
  (`WaitersAreBacked`): whoever waits does so behind as many holders as there are
  slots that have not leaked, so that unless all have, somebody will release.
* `NobodyOvertakes` (`ServedInOrder`, an action property) for every `Env`, from
  `GateInv`: a hand-off moves everybody up by one, a newcomer joins at the end, and
  every other step leaves the queue alone or empties it.
* `LimitHolds` (`LimitUpToSurplus`) for every `Env`: more than `maxConcurrent`
  handlers run only by as many slots as were taken from their holders, by a release
  on top of their own or by a drop. `surplus` counts these, and `HoldersCounted`
  says that the holders exceed the count by no more than it.

`IdempotentCreateProofs`

* `TypeCorrect`; `LockCountsHolders` (`LockAccounted`) on connections shared in any
  way, assuming no `"ttl"`.
* `LockExcludes` (`OneAtATime`), assuming that no two requests share a connection
  and no `"ttl"`: `WatchInv` says that what a request has read holds until its
  connection is dirty. `IC_shared` shows that the first assumption is needed.
* `RepeatsAreReplayed` (`RepeatAfterStoreIsReplayed`) for every `Env`.
* `LocksExpire` (`TakenLocksExpire`) for every `Env`, on connections shared in any
  way: INCR and EXPIRE are in one transaction, and a DECR after the key has ended
  leaves no positive count. So no death of a holder can keep a lock for ever.
* `LockImplementation` (`ImplementsLock`): `IdempotentCreate` implements `ReplayLock`
  under the mapping of section 2, with the assumptions of `LockExcludes`. The EXEC
  that succeeds is the `Enter`; `WatchInv` supplies its guard, that there is room.

`ServiceTokensProofs`, for every `Env`, any number of calls and key pairs, any
assignment of key ids:

* `TypeCorrect`. `TypeOK` says besides the types that a call that is verified
  carries a token, and that a call about to be checked has a key.
* `OneRequest` (`RequestIsShared`). The property alone is not inductive: `SharedInv`
  adds that a service's request belongs to a call of that service which still waits
  for it.
* `OldKeysExpire` (`OldKeysDieOut`, an action property), from `TokensInv`: every
  token, cached or carried, is signed with the issuer's key or expires within the
  life of a token after that key was put in place. `Admit` checks the expiry, so
  nothing else is needed about key caches.
* `CurrentKeyWorks` (`CurrentKeyIsAccepted`), from `JudgedInv`: a key fetched anew
  is no newer than the issuer's and no older than the token it was fetched for, so a
  second mismatch or another id means that the token's key has been replaced.
* `ExpiryNeedsTime` (`ExpiredOnlyIfSlow`), from `TimelyInv`: a token that is on its
  way expires later than the skew, or a full lifetime, after its caller looked for
  it.
* `StepsDoRunOut` (`StepsRunOut`, an action property): `StepsLeft` of a call is at most
  20, every step of the call lowers it, and no step of another call, of the issuer or
  of a cache raises it. The ten steps a retry adds can be had once.

`RateLimiterProofs`, for every `Env`, limit, window, number of requests in flight
and time to live of at least three windows:

* `TypeCorrect`.
* `OverrunIsBounded` (`WindowBound`). The invariant says that an entry of the
  present window stays in the set unless it was lost (`AddedKept`, `AdmittedKept`:
  its key outlives it, and no cleanup, however old its time, removes it), and that
  each window has room for the requests past zCard besides those let through
  (`RoomLeft`).
* `CountIsRecent` (`JudgedByRecent`), from `FewOutdated`: an outdated entry that `p`
  counts was added after `p` cleaned up by a request that read its time before
  (`Late`), and each other request in flight adds at most one.
* `EveryKeyEnds` (`KeyEnds`), from `EndComes`: a key without a time to live has its
  expire still to come, or a failure came between the two; a time to live is never
  longer than `Ttl` from now.

`RequestFlowProofs`, for any `Requests`, `Entries` and `Env`:

* `InvHolds`: the inductive invariant `Inv`. It gives each route a level, which a
  call lowers, and so bounds the depth of every stack (`Handlers`); no handler is in
  a process that boots, and a handler in a process that has exited is unwanted.
  `Rest` says what goes with them: a `finish` listener is at work only for a
  finished request and in a living process, a 404 on its way was given by `find`,
  and every other refusal a client gets comes from depth one, that of a service that
  could not get the issuer's key only as a 401.
* `KeptHolds`: connections are kept only by a service that drains (`Kept`).
* `TypeCorrect`, `ExitsDropNobody` (`ExitDropsNobody`) and `AnswersAreTheirOwn`
  (`AnswersAreOwn`) follow from these.
* `KeepsToLifecycle` (`ImplementsLifecycle`): `RequestFlow` implements `Lifecycle`
  under the mapping of section 2. A call is an `Accept`, on a new connection or a kept
  one, an answer a `Respond` or a `Settle`, a client that hangs up an `Abandon`, the
  `finish` listener a `Settle`, the end of a kept connection a `Close`; the end of a
  process is a `Fail` or an `Exit` whose set `L` is what it had called for; the rest are steps of one process or stutters.

`RequestFlowEnds`, for any `Requests`, `Entries` and `Env`:

* `StepsDoRunOut` (`StepsRunOut`, an action property): every step of a request lowers
  the natural number `StepsLeft`, and nothing else raises it. What is left of one
  handler, `Left`, is between 1 and 22, because `MaxLength` is 11; a handler weighs 23
  times the one it called, because its one step on the way down pays for all that the
  call may do. `Inv` bounds the stack by three handlers. A process that ends only
  shortens what is left. Since a call always leads to a route of a lower level, there are no circles of
  waiting handlers, although calls have no timeout.
* `GateHoldsNoService`: a request in the gate is a client's own, at depth one, and the
  only service whose exit it can keep waiting is the redirect service. So a gate that
  has lost all its slots holds up neither a call between services nor another service,
  and `DrainEnds` needs its exception for that service alone. It holds because no
  route that is called by a service has a gate; if one had, those that have a slot
  could wait for those that wait for one.

Both say nothing of the gate letting anybody pass: that a request past it, or on
another route, is never without a step of its own is left to the run, which checks
`EveryRequestEnds` and `DrainEnds` under fairness.

Only model-checked are the violated properties and the liveness properties. The
latter rest on fairness, and fairness on ENABLED, which is out of the prover's reach.
What they need of safety is proved for every value of the constants:

| Liveness property | What is proved of it |
| --- | --- |
| `EventuallyNoOrphans` | `OrphansStayAway`: an orphan that has expired stays away |
| `ServedUnlessAllLeak` | `WaitersHaveHolders`, `NobodyOvertakes`: somebody in front will release, and nobody gets in between |
| `LockIsFreedAgain` | `LocksExpire`: every lock that is taken has a time to live |
| `CallsEnd` | `StepsDoRunOut` of `ServiceTokensProofs`; `OneRequest`: who shares a request has somebody who makes it |
| `KeyForgotten` | `EveryKeyEnds`: every key has a time at which it ends |
| `EveryRequestEnds`, `DrainEnds` | `StepsDoRunOut` of `RequestFlowEnds`: no request goes on for ever; `GateHoldsNoService`: whom the gate can hold up |

## 6. Plan

Done, in this order: `UrlStore`, `WriteThrough`, `RedirectGate`, `IdempotentCreate`,
`ServiceTokens`, `RateLimiter`, `Lifecycle`, `RequestFlow`, `ReplayLock`, each with its
proofs, and `RequestFlowEnds`. To come:

1. `ShortenerSystem`: `IdempotentCreate` around `WriteThrough`, so that a repetition,
   a rollback and a crash meet; abstractly, at most one published key per
   idempotency key as long as results are stored.
2. Key generation: the base-62 digits as a function, length and injectivity over
   bounded inputs against a reference definition.

## 7. Not modelled

Logging, metrics, spans and their export decide nothing the properties mention; of
observability there is only that it starts before the server listens, that its
middleware is the first of every route, and that `withSpan` hands errors on. Of the
configuration there is which settings each service cannot start without; their
values are constants of the modules. A `RATE_LIMIT_WINDOW_MS` of 0, which the schema
accepts, is not modelled. Request validation changes no state: it is a stage that may
answer 400, and the length bound that turns a 404 into a 500 is in `WriteThrough`. The
shapes of URLs and headers are left out. `executeTask` of the mutex and the pessimistic
concurrency limit are called by nobody. The generated Prisma client, the largest part
of the source, is represented by what the table promises: a unique key and atomic
INSERT and DELETE. Redis is represented by its commands, which are atomic, and its
times to live; a lost connection to it is a command that fails. Connections between
requests are modelled only while a service drains, when they matter to `close`, and
only by their number; a service that serves takes every request. Versions of Node
older than 19, whose `close` leaves idle connections open too, are not modelled. What
the plan lists is not modelled yet.
