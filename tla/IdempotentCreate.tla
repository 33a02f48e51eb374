--------------------------- MODULE IdempotentCreate ---------------------------
(***************************************************************************)
(* POST /short-url under withIdempotentResults: the optimistic lock in     *)
(* Redis (WATCH, GET, MULTI/EXEC, DECR), the lookup of a stored result,    *)
(* the creation, and the 'finish' handler that releases the lock and then  *)
(* stores the result.  Every Redis command is a step.  The requests of one *)
(* process share its only Redis connection, and WATCH, UNWATCH and EXEC    *)
(* are matters of the connection, not of the request.                      *)
(*                                                                         *)
(* Env names what may happen around the code:                              *)
(*   create      the creation fails (a 500 is sent)                        *)
(*   hangup      the client goes away, so 'finish' is never emitted        *)
(*   redis       a Redis command fails, carried out or not                 *)
(*   crash       a process dies and is started again                       *)
(*   watchError  a failed EXEC rejects (as node-redis does) instead of     *)
(*               yielding null (as the code expects)                       *)
(*   ttl         a holder is slower than the lock's time to live           *)
(* No action uses an operator marked "A slip": it is a plausible mistake   *)
(* in the definition that follows it, kept to show what would notice it.   *)
(***************************************************************************)
EXTENDS Integers, FiniteSets

CONSTANTS
  Requests,
  IdemKeys,               \* idempotency key :: original URL, in base64
  KeyOf,                  \* KeyOf[r]: the key of request r
  Instances,              \* processes, each with one Redis connection
  InstOf,                 \* InstOf[r]: the process that serves r
  maxConcurrentRequests,
  MaxAttempts,            \* bound: attempts to get the lock before giving up
  Env

ASSUME RequestsAssumption == IsFiniteSet(Requests)
ASSUME KeyOfAssumption == KeyOf \in [Requests -> IdemKeys]
ASSUME InstOfAssumption == InstOf \in [Requests -> Instances]
ASSUME BoundAssumption ==
  maxConcurrentRequests \in Nat \ {0} /\ MaxAttempts \in Nat \ {0}
ASSUME EnvAssumption ==
  Env \subseteq {"create", "hangup", "redis", "crash", "watchError", "ttl"}

May(f) == f \in Env

VARIABLES
  count,     \* count[k]: the value of Redis key <k>:lock, 0 when absent
  ttl,       \* ttl[k]: the lock key has a time to live
  watched,   \* watched[i]: the lock keys process i's connection watches
  dirty,     \* dirty[i]: one of them has changed since
  stored,    \* stored[k]: Redis key <k>:result is set; a behaviour ends
             \* before its time to live, 24 hours, does
  pc,        \* pc[r]: the next step of r
  attempts,  \* attempts[r]: how often r has tried to get the lock
  ok,        \* ok[r]: r's creation succeeded
  leaked,    \* history: leaked[k]: increments nobody will take back
  found      \* history: found[r]: what held of KeyOf[r] when r arrived:
             \* nothing, a creation was "answered", its result was "stored"

redisVars == <<count, ttl, watched, dirty>>
vars == <<redisVars, stored, pc, attempts, ok, leaked, found>>

Waiting == {"watch", "get", "unwatch", "exec", "backoff"}
Holding == {"lookup", "replay", "create", "finish"}
Ended == {"done", "failed"}

\* The types of the variables; the counter of a lock may fall below zero, when
\* a DECR finds the key expired.
TypeOK ==
  /\ count \in [IdemKeys -> Int]
  /\ ttl \in [IdemKeys -> BOOLEAN]
  /\ watched \in [Instances -> SUBSET IdemKeys]
  /\ dirty \in [Instances -> BOOLEAN]
  /\ stored \in [IdemKeys -> BOOLEAN]
  /\ pc \in [Requests -> {"idle", "store"} \cup Waiting \cup Holding \cup Ended]
  /\ attempts \in [Requests -> 0..MaxAttempts]
  /\ ok \in [Requests -> BOOLEAN]
  /\ leaked \in [IdemKeys -> Nat]
  /\ found \in [Requests -> {"nothing", "answered", "stored"}]

Init ==
  /\ count = [k \in IdemKeys |-> 0]
  /\ ttl = [k \in IdemKeys |-> FALSE]
  /\ watched = [i \in Instances |-> {}]
  /\ dirty = [i \in Instances |-> FALSE]
  /\ stored = [k \in IdemKeys |-> FALSE]
  /\ pc = [r \in Requests |-> "idle"]
  /\ attempts = [r \in Requests |-> 0]
  /\ ok = [r \in Requests |-> FALSE]
  /\ leaked = [k \in IdemKeys |-> 0]
  /\ found = [r \in Requests |-> "nothing"]

Holders(k) == {r \in Requests : KeyOf[r] = k /\ pc[r] \in Holding}

Go(r, step) == pc' = [pc EXCEPT ![r] = step]

-------------------------------------------------------------------------------
(* Redis.                                                                  *)

\* A change of lock key k is noticed by every connection that watches it.
Touch(k) == dirty' = [i \in Instances |-> dirty[i] \/ k \in watched[i]]

\* EXEC and UNWATCH end all watches of connection i.
EndWatch(i) == watched' = [watched EXCEPT ![i] = {}]

\* A slip: the EXPIRE is missing.
RenewedNever(k) == ttl

\* MULTI INCR EXPIRE GET EXEC on an untouched connection: no other command
\* comes between, and the lock key gets a time to live.
Renewed(k) == [ttl EXCEPT ![k] = TRUE]

Increment(r) ==
  LET k == KeyOf[r] IN
  /\ count' = [count EXCEPT ![k] = @ + 1]
  /\ ttl' = Renewed(k)
  /\ EndWatch(InstOf[r])
  /\ dirty' = [i \in Instances |->
                 i # InstOf[r] /\ (dirty[i] \/ k \in watched[i])]

\* A slip: the lock is not released.
DecrementedNever(k) == count

\* DECR keeps the time to live; an absent key becomes -1 without one.
Decremented(k) == [count EXCEPT ![k] = @ - 1]

Decrement(r) ==
  /\ count' = Decremented(KeyOf[r])
  /\ Touch(KeyOf[r])
  /\ UNCHANGED <<ttl, watched>>

\* The lock outlives its holders, unless one of them is slow.
Expire(k) ==
  /\ ttl[k]
  /\ May("ttl") \/ Holders(k) = {}
  /\ count' = [count EXCEPT ![k] = 0]
  /\ ttl' = [ttl EXCEPT ![k] = FALSE]
  /\ leaked' = [leaked EXCEPT ![k] = 0]
  /\ Touch(k)
  /\ UNCHANGED <<watched, stored, pc, attempts, ok, found>>

-------------------------------------------------------------------------------
(* waitUntilLockAquiredOrTimeout.                                          *)

Arrive(r) ==
  /\ pc[r] = "idle"
  /\ Go(r, "watch")
  /\ attempts' = [attempts EXCEPT ![r] = 1]
  /\ found' = [found EXCEPT ![r] =
       IF stored[KeyOf[r]] THEN "stored"
       ELSE IF \E s \in Requests : KeyOf[s] = KeyOf[r] /\ ok[s] THEN "answered"
       ELSE "nothing"]
  /\ UNCHANGED <<redisVars, stored, ok, leaked>>

Watch(r) ==
  /\ pc[r] = "watch"
  /\ watched' = [watched EXCEPT ![InstOf[r]] = @ \cup {KeyOf[r]}]
  /\ Go(r, "get")
  /\ UNCHANGED <<count, ttl, dirty, stored, attempts, ok, leaked, found>>

\* A slip: a lock that has reached its limit still counts as free.
FreeAtLimit(k) == count[k] <= maxConcurrentRequests

\* getConcurrencyKey: an absent key reads as 0.
Free(k) == count[k] < maxConcurrentRequests

Get(r) ==
  /\ pc[r] = "get"
  /\ Go(r, IF Free(KeyOf[r]) THEN "exec" ELSE "unwatch")
  /\ UNCHANGED <<redisVars, stored, attempts, ok, leaked, found>>

Unwatch(r) ==
  /\ pc[r] = "unwatch"
  /\ EndWatch(InstOf[r])
  /\ dirty' = [dirty EXCEPT ![InstOf[r]] = FALSE]
  /\ Go(r, "backoff")
  /\ UNCHANGED <<count, ttl, stored, attempts, ok, leaked, found>>

\* A slip: the lock key is not watched.
UnchangedAssumed(i) == TRUE

Unchanged(i) == ~dirty[i]

Exec(r) ==
  /\ pc[r] = "exec"
  /\ Unchanged(InstOf[r])
  /\ Increment(r)
  /\ Go(r, "lookup")
  /\ UNCHANGED <<stored, attempts, ok, leaked, found>>

ExecConflict(r) ==
  /\ pc[r] = "exec"
  /\ ~Unchanged(InstOf[r])
  /\ EndWatch(InstOf[r])
  /\ dirty' = [dirty EXCEPT ![InstOf[r]] = FALSE]
  /\ \/ Go(r, "backoff")
     \/ May("watchError") /\ Go(r, "failed")
  /\ UNCHANGED <<count, ttl, stored, attempts, ok, leaked, found>>

\* A slip: one attempt too many.
InTimeOnceMore(r) == attempts[r] <= MaxAttempts

InTime(r) == attempts[r] < MaxAttempts

Retry(r) ==
  /\ pc[r] = "backoff"
  /\ InTime(r)
  /\ attempts' = [attempts EXCEPT ![r] = @ + 1]
  /\ Go(r, "watch")
  /\ UNCHANGED <<redisVars, stored, ok, leaked, found>>

\* More than expirationTimeInSeconds have passed: the request fails.
TimeOut(r) ==
  /\ pc[r] = "backoff"
  /\ Go(r, "failed")
  /\ UNCHANGED <<redisVars, stored, attempts, ok, leaked, found>>

-------------------------------------------------------------------------------
(* withIdempotentResults and the route.                                    *)

\* A slip: a stored result does not parse.
CachedNever(k) == FALSE

\* getIdempotencyResult
Cached(k) == stored[k]

Lookup(r) ==
  /\ pc[r] = "lookup"
  /\ Go(r, IF Cached(KeyOf[r]) THEN "replay" ELSE "create")
  /\ UNCHANGED <<redisVars, stored, attempts, ok, leaked, found>>

\* The lock is released, then the stored result is sent.
Replay(r) ==
  /\ pc[r] = "replay"
  /\ Decrement(r)
  /\ Go(r, "done")
  /\ UNCHANGED <<stored, attempts, ok, leaked, found>>

\* createShortUrl sends a 201, or fails and the error handler sends a 500.
Create(r) ==
  /\ pc[r] = "create"
  /\ \/ ok' = [ok EXCEPT ![r] = TRUE]
     \/ May("create") /\ UNCHANGED ok
  /\ Go(r, "finish")
  /\ UNCHANGED <<redisVars, stored, attempts, leaked, found>>

\* 'finish' is emitted: the lock goes first.
Finish(r) ==
  /\ pc[r] = "finish"
  /\ Decrement(r)
  /\ Go(r, IF ok[r] THEN "store" ELSE "done")
  /\ UNCHANGED <<stored, attempts, ok, leaked, found>>

Store(r) ==
  /\ pc[r] = "store"
  /\ stored' = [stored EXCEPT ![KeyOf[r]] = TRUE]
  /\ Go(r, "done")
  /\ UNCHANGED <<redisVars, attempts, ok, leaked, found>>

-------------------------------------------------------------------------------
(* Faults.                                                                 *)

\* Nobody will take back the increment of r.
Leak(r) == leaked' = [leaked EXCEPT ![KeyOf[r]] = @ + 1]

HangUp(r) ==
  /\ May("hangup")
  /\ pc[r] = "finish"
  /\ Go(r, "done")
  /\ Leak(r)
  /\ UNCHANGED <<redisVars, stored, attempts, ok, found>>

\* A failing command before the lock is taken ends the request with a 500; the
\* connection keeps its watches.  An EXEC may have been carried out.
AcquireFails(r) ==
  /\ May("redis")
  /\ pc[r] \in {"watch", "get", "unwatch", "exec"}
  /\ Go(r, "failed")
  /\ \/ UNCHANGED <<redisVars, leaked>>
     \/ pc[r] = "exec" /\ Unchanged(InstOf[r]) /\ Increment(r) /\ Leak(r)
  /\ UNCHANGED <<stored, attempts, ok, found>>

\* The 'finish' handler is not installed yet: nobody releases the lock.
HolderFails(r) ==
  /\ May("redis")
  /\ pc[r] \in {"lookup", "replay"}
  /\ Go(r, "failed")
  /\ \/ Leak(r) /\ UNCHANGED redisVars
     \/ pc[r] = "replay" /\ Decrement(r) /\ UNCHANGED leaked
  /\ UNCHANGED <<stored, attempts, ok, found>>

ServedBy(i) == {r \in Requests : InstOf[r] = i}

\* Process i dies with its requests: killed, or because a command of a
\* 'finish' handler fails and nobody handles the rejection.
Crash(i) ==
  /\ \/ May("crash")
     \/ May("redis") /\ \E r \in ServedBy(i) : pc[r] \in {"finish", "store"}
  /\ \E r \in ServedBy(i) : pc[r] \notin {"idle"} \cup Ended
  /\ pc' = [r \in Requests |->
       IF InstOf[r] = i /\ pc[r] # "idle" /\ pc[r] \notin Ended
       THEN "failed" ELSE pc[r]]
  /\ leaked' = [k \in IdemKeys |->
       leaked[k] + Cardinality(Holders(k) \cap ServedBy(i))]
  /\ EndWatch(i)
  /\ dirty' = [dirty EXCEPT ![i] = FALSE]
  /\ UNCHANGED <<count, ttl, stored, attempts, ok, found>>

-------------------------------------------------------------------------------
Waits(r) ==
  \/ Watch(r) \/ Get(r) \/ Unwatch(r) \/ Exec(r) \/ ExecConflict(r)
  \/ Retry(r) \/ TimeOut(r)

Holds(r) == Lookup(r) \/ Replay(r) \/ Create(r) \/ Finish(r) \/ Store(r)

Fails(r) == HangUp(r) \/ AcquireFails(r) \/ HolderFails(r)

\* All requests have been answered and nothing is left to expire.
Quiet ==
  /\ \A r \in Requests : pc[r] \in Ended
  /\ \A k \in IdemKeys : ~ttl[k]
  /\ UNCHANGED vars

Next ==
  \/ \E r \in Requests : Arrive(r) \/ Waits(r) \/ Holds(r) \/ Fails(r)
  \/ \E k \in IdemKeys : Expire(k)
  \/ \E i \in Instances : Crash(i)
  \/ Quiet

Spec == Init /\ [][Next]_vars

\* Every handler goes on, and Redis expires what has a time to live.
Fairness ==
  /\ \A r \in Requests : WF_vars(Waits(r) \/ Holds(r) \/ Fails(r))
  /\ \A k \in IdemKeys : WF_vars(Expire(k))

FairSpec == Spec /\ Fairness

-------------------------------------------------------------------------------
(* Properties.                                                             *)

\* The lock counts exactly the requests between its acquisition and its
\* release and those that died in between, though several requests interleave
\* their commands on one connection; a lock that expires under a holder ends
\* that.
LockAccounted ==
  \A k \in IdemKeys : count[k] = Cardinality(Holders(k)) + leaked[k]

\* "only one request with the same idempotency key is processed at a time"
\* (withIdempotentResult.ts:34).
OneAtATime ==
  \A k \in IdemKeys : Cardinality(Holders(k)) <= maxConcurrentRequests

\* A request that arrives when the result of its key is stored never creates
\* a second short URL.
RepeatAfterStoreIsReplayed ==
  \A r \in Requests : found[r] = "stored" => ~ok[r] /\ pc[r] # "create"

\* A request that arrives when another one with its key has been answered is
\* replayed that answer.
RepeatAfterAnswerIsReplayed ==
  \A r \in Requests : found[r] # "nothing" => ~ok[r]

\* A lock that is taken has a time to live, in every environment: no order of
\* INCR, EXPIRE and DECR, and no expiry between them, leaves a count behind
\* that Redis would keep for ever.
TakenLocksExpire == \A k \in IdemKeys : count[k] > 0 => ttl[k]

\* What a request whose next step is s has got to, as ReplayLock sees it.
Phase(s) ==
  CASE s = "idle" -> "new"
    [] s \in Waiting -> "waiting"
    [] s \in Holding -> "inside"
    [] s = "store" -> "storing"
    [] OTHER -> "gone"

Abstract == INSTANCE ReplayLock WITH
  Keys <- IdemKeys, Room <- maxConcurrentRequests,
  phase <- [r \in Requests |-> Phase(pc[r])], made <- ok,
  due <- [r \in Requests |-> found[r] = "stored"], lost <- leaked

\* WATCH, GET and MULTI/EXEC are one step that takes a lock with room, DECR is
\* one that gives it back, and nothing else changes who is inside; no request
\* creates twice, or after a stored result it could have found.
ImplementsLock == Abstract!Spec

\* No lock stays taken: what crashed processes and clients that hung up leave
\* behind expires.
LockIsFreedAgain ==
  \A k \in IdemKeys : []<>(count[k] < maxConcurrentRequests)
===============================================================================
