----------------------------- MODULE WriteThrough -----------------------------
(***************************************************************************)
(* The write-through store: the persistence service's table of shortened   *)
(* URLs, the redirect service's Redis cache, the requests that create a    *)
(* short URL (insert the row, populate the cache over HTTP, delete the row *)
(* if that fails) and the requests that follow one (cache, then the        *)
(* persistence service, then fill the cache).  Every await of the code is  *)
(* a step boundary, so all of these interleave.                            *)
(*                                                                         *)
(* Env names what may go wrong around the code; an action that models a    *)
(* fault is enabled only when its name is in Env:                          *)
(*   collision  a drawn key may equal one drawn before                     *)
(*   guess      a reader may ask for a key no creator was answered with    *)
(*   db         the INSERT fails and leaves nothing                        *)
(*   dbAck      the INSERT commits but its acknowledgement is lost         *)
(*   refused    populateCache fails and the cache is untouched (no token,  *)
(*              401, redirect or its Redis down)                           *)
(*   lost       populateCache fails although the cache is or will be set   *)
(*   rollback   the DELETE of the row fails                                *)
(*   crash      the persistence process dies in the middle of a creation   *)
(*   redis      a Redis command of a reader fails                          *)
(*   upstream   the persistence service fails a reader's lookup            *)
(* No action uses an operator marked "A slip": it is a plausible mistake   *)
(* in the definition that follows it, kept to show what would notice it.   *)
(***************************************************************************)
CONSTANTS
  Creators,   \* POST /short-url requests
  Readers,    \* slots for GET /:shortCode requests
  Keys, Urls,
  UrlOf,      \* UrlOf[c]: the URL in the body of request c
  ShortKeys,  \* the keys the generator can draw that are shorter than 9
  NoKey, NoUrl, NotFound, Failed,
  Env

Faults == {"collision", "guess", "db", "dbAck", "refused", "lost", "rollback",
           "crash", "redis", "upstream"}

ASSUME UrlOfAssumption == UrlOf \in [Creators -> Urls]
ASSUME NoValueAssumption ==
  /\ NoKey \notin Keys
  /\ NoUrl \notin Urls \cup {NotFound, Failed}
  /\ NotFound \notin Urls \cup {Failed}
  /\ Failed \notin Urls
ASSUME EnvAssumption == Env \subseteq Faults

May(f) == f \in Env

VARIABLES
  db,         \* db[k]: the url column of the row with key k, or NoUrl
  cache,      \* cache[k]: the value of Redis key shortlink:k, or NoUrl
  pc,         \* pc[c]: how far creation c got
  key,        \* key[c]: the key of c's row, or NoKey before the INSERT
  post,       \* post[c]: c's POST /cache, from "none" to its result
  published,  \* published[k]: the URL whose creator was answered with k
  rpc,        \* rpc[r]: how far reader r got
  wants,      \* wants[r]: the short code r asks for, or NoKey
  got,        \* got[r]: the URL r fetched and is about to cache, or NoUrl
  due,        \* due[r]: history: published[wants[r]] when r asked
  answer      \* answer[r]: the last answer to r, or NoUrl

creatorVars == <<pc, key, post, published>>
readerVars == <<rpc, wants, got, due, answer>>
vars == <<db, cache, creatorVars, readerVars>>

\* The types of the variables; who asks for nothing is idle.
TypeOK ==
  /\ db \in [Keys -> Urls \cup {NoUrl}]
  /\ cache \in [Keys -> Urls \cup {NoUrl}]
  /\ pc \in [Creators -> {"start", "populate", "awaiting", "rollback",
                          "answered", "failed", "crashed"}]
  /\ key \in [Creators -> Keys \cup {NoKey}]
  /\ post \in [Creators -> {"none", "sent", "stored", "refused"}]
  /\ published \in [Keys -> Urls \cup {NoUrl}]
  /\ rpc \in [Readers -> {"idle", "lookup", "fetch", "fill"}]
  /\ wants \in [Readers -> Keys \cup {NoKey}]
  /\ \A r \in Readers : rpc[r] = "idle" <=> wants[r] = NoKey
  /\ got \in [Readers -> Urls \cup {NoUrl}]
  /\ due \in [Readers -> Urls \cup {NoUrl}]
  /\ answer \in [Readers -> Urls \cup {NoUrl, NotFound, Failed}]

Init ==
  /\ db = [k \in Keys |-> NoUrl]
  /\ cache = [k \in Keys |-> NoUrl]
  /\ pc = [c \in Creators |-> "start"]
  /\ key = [c \in Creators |-> NoKey]
  /\ post = [c \in Creators |-> "none"]
  /\ published = [k \in Keys |-> NoUrl]
  /\ rpc = [r \in Readers |-> "idle"]
  /\ wants = [r \in Readers |-> NoKey]
  /\ got = [r \in Readers |-> NoUrl]
  /\ due = [r \in Readers |-> NoUrl]
  /\ answer = [r \in Readers |-> NoUrl]

-------------------------------------------------------------------------------
(* The persistence service: POST /short-url.                               *)

\* What randomBytes(8) may yield: in practice a key nobody drew or asked for.
Drawable(k) ==
  /\ May("collision") \/ \A d \in Creators : key[d] # k
  /\ May("guess") \/ \A r \in Readers : wants[r] # k

\* A slip: the key column is not unique.
RowFreeUnchecked(k) == TRUE

\* The unique constraint on the key column.
RowFree(k) == db[k] = NoUrl

Fail(c) ==
  /\ pc' = [pc EXCEPT ![c] = "failed"]
  /\ UNCHANGED published

Answer(c) ==
  /\ pc' = [pc EXCEPT ![c] = "answered"]
  /\ published' = [published EXCEPT ![key[c]] = UrlOf[c]]

\* A slip: the INSERT is not carried out.
InsertedNothing(c, k) == db

Inserted(c, k) == [db EXCEPT ![k] = UrlOf[c]]

\* The INSERT is outside the try block: a failure is not rolled back.
Create(c, k) ==
  /\ pc[c] = "start"
  /\ Drawable(k)
  /\ RowFree(k)
  /\ db' = Inserted(c, k)
  /\ key' = [key EXCEPT ![c] = k]
  /\ pc' = [pc EXCEPT ![c] = "populate"]
  /\ UNCHANGED <<cache, post, published, readerVars>>

CreateFails(c) ==
  /\ pc[c] = "start"
  /\ May("db") \/ \E k \in Keys : Drawable(k) /\ ~RowFree(k)
  /\ Fail(c)
  /\ UNCHANGED <<db, cache, key, post, readerVars>>

CreateUnacknowledged(c, k) ==
  /\ May("dbAck")
  /\ pc[c] = "start"
  /\ Drawable(k)
  /\ RowFree(k)
  /\ db' = Inserted(c, k)
  /\ key' = [key EXCEPT ![c] = k]
  /\ Fail(c)
  /\ UNCHANGED <<cache, post, readerVars>>

\* populateCache validates the payload: a key shorter than 9 is rejected.
Postable(k) == k \notin ShortKeys

SendPopulate(c) ==
  /\ pc[c] = "populate"
  /\ Postable(key[c])
  /\ pc' = [pc EXCEPT ![c] = "awaiting"]
  /\ post' = [post EXCEPT ![c] = "sent"]
  /\ UNCHANGED <<db, cache, key, published, readerVars>>

PopulateRejected(c) ==
  /\ pc[c] = "populate"
  /\ ~Postable(key[c]) \/ May("refused")
  /\ pc' = [pc EXCEPT ![c] = "rollback"]
  /\ UNCHANGED <<db, cache, key, post, published, readerVars>>

\* A slip: key and originalUrl are swapped.
PayloadSwapped(c) == key[c]

\* The value populateCache sends along with key[c].
Payload(c) == UrlOf[c]

\* The redirect service handles POST /cache, whether or not c still waits.
Store(c) ==
  /\ post[c] = "sent"
  /\ cache' = [cache EXCEPT ![key[c]] = Payload(c)]
  /\ \/ post' = [post EXCEPT ![c] = "stored"]
     \/ May("lost") /\ post' = [post EXCEPT ![c] = "refused"]
  /\ UNCHANGED <<db, pc, key, published, readerVars>>

Refuse(c) ==
  /\ May("refused")
  /\ post[c] = "sent"
  /\ post' = [post EXCEPT ![c] = "refused"]
  /\ UNCHANGED <<db, cache, pc, key, published, readerVars>>

\* Every answer but a 2xx makes populateCache throw.
Accepted(c) == post[c] = "stored"

Receive(c) ==
  /\ pc[c] = "awaiting"
  /\ Accepted(c)
  /\ Answer(c)
  /\ UNCHANGED <<db, cache, key, post, readerVars>>

PopulateFails(c) ==
  /\ pc[c] = "awaiting"
  /\ post[c] # "sent" /\ ~Accepted(c)
  /\ pc' = [pc EXCEPT ![c] = "rollback"]
  /\ UNCHANGED <<db, cache, key, post, published, readerVars>>

\* The connection breaks: c gives up, its POST may still arrive.
Disconnect(c) ==
  /\ May("lost")
  /\ pc[c] = "awaiting"
  /\ pc' = [pc EXCEPT ![c] = "rollback"]
  /\ UNCHANGED <<db, cache, key, post, published, readerVars>>

\* A slip: the catch block deletes nothing.
DeletedNothing(k) == db

\* The catch block deletes the row and rethrows.
Deleted(k) == [db EXCEPT ![k] = NoUrl]

\* A slip: the error is not thrown again.
AfterRollbackSwallowed(c) == Answer(c)

AfterRollback(c) == Fail(c)

Rollback(c) ==
  /\ pc[c] = "rollback"
  /\ db' = Deleted(key[c])
  /\ AfterRollback(c)
  /\ UNCHANGED <<cache, key, post, readerVars>>

RollbackFails(c) ==
  /\ May("rollback")
  /\ pc[c] = "rollback"
  /\ Fail(c)
  /\ UNCHANGED <<db, cache, key, post, readerVars>>

Crash(c) ==
  /\ May("crash")
  /\ pc[c] \in {"populate", "awaiting", "rollback"}
  /\ pc' = [pc EXCEPT ![c] = "crashed"]
  /\ UNCHANGED <<db, cache, key, post, published, readerVars>>

-------------------------------------------------------------------------------
(* The redirect service: GET /:shortCode.                                  *)

Ask(r, k) ==
  /\ rpc[r] = "idle"
  /\ May("guess") \/ published[k] # NoUrl \/ \A c \in Creators : key[c] # k
  /\ rpc' = [rpc EXCEPT ![r] = "lookup"]
  /\ wants' = [wants EXCEPT ![r] = k]
  /\ due' = [due EXCEPT ![r] = published[k]]
  /\ answer' = [answer EXCEPT ![r] = NoUrl]
  /\ UNCHANGED <<db, cache, creatorVars, got>>

Reply(r, a) ==
  /\ rpc' = [rpc EXCEPT ![r] = "idle"]
  /\ wants' = [wants EXCEPT ![r] = NoKey]
  /\ got' = [got EXCEPT ![r] = NoUrl]
  /\ answer' = [answer EXCEPT ![r] = a]
  /\ UNCHANGED due

Hit(r) ==
  /\ rpc[r] = "lookup"
  /\ cache[wants[r]] # NoUrl
  /\ Reply(r, cache[wants[r]])
  /\ UNCHANGED <<db, cache, creatorVars>>

Miss(r) ==
  /\ rpc[r] = "lookup"
  /\ cache[wants[r]] = NoUrl
  /\ rpc' = [rpc EXCEPT ![r] = "fetch"]
  /\ UNCHANGED <<db, cache, creatorVars, wants, got, due, answer>>

Fetch(r) ==
  /\ rpc[r] = "fetch"
  /\ Postable(wants[r])
  /\ db[wants[r]] # NoUrl
  /\ got' = [got EXCEPT ![r] = db[wants[r]]]
  /\ rpc' = [rpc EXCEPT ![r] = "fill"]
  /\ UNCHANGED <<db, cache, creatorVars, wants, due, answer>>

FetchNotFound(r) ==
  /\ rpc[r] = "fetch"
  /\ Postable(wants[r])
  /\ db[wants[r]] = NoUrl
  /\ Reply(r, NotFound)
  /\ UNCHANGED <<db, cache, creatorVars>>

Fill(r) ==
  /\ rpc[r] = "fill"
  /\ cache' = [cache EXCEPT ![wants[r]] = got[r]]
  /\ Reply(r, got[r])
  /\ UNCHANGED <<db, creatorVars>>

\* Any error but a 404 is rethrown and becomes a 500; that includes the
\* client-side rejection of a short code shorter than 9.
ReadFails(r) ==
  /\ \/ May("redis") /\ rpc[r] \in {"lookup", "fill"}
     \/ rpc[r] = "fetch" /\ (May("upstream") \/ ~Postable(wants[r]))
  /\ Reply(r, Failed)
  /\ UNCHANGED <<db, cache, creatorVars>>

\* A slip: the entry is set without EX.
ExpirableNever(k) == FALSE

\* Redis drops a cached entry when its time to live is over.
Expirable(k) == cache[k] # NoUrl

Expire(k) ==
  /\ Expirable(k)
  /\ cache' = [cache EXCEPT ![k] = NoUrl]
  /\ UNCHANGED <<db, creatorVars, readerVars>>

-------------------------------------------------------------------------------
Writing(c) ==
  \/ \E k \in Keys : Create(c, k) \/ CreateUnacknowledged(c, k)
  \/ CreateFails(c) \/ SendPopulate(c) \/ PopulateRejected(c)
  \/ Receive(c) \/ PopulateFails(c) \/ Disconnect(c)
  \/ Rollback(c) \/ RollbackFails(c) \/ Crash(c)

Serving(c) == Store(c) \/ Refuse(c)

Reading(r) ==
  Hit(r) \/ Miss(r) \/ Fetch(r) \/ FetchNotFound(r) \/ Fill(r) \/ ReadFails(r)

Next ==
  \/ \E c \in Creators : Writing(c) \/ Serving(c)
  \/ \E r \in Readers : Reading(r) \/ \E k \in Keys : Ask(r, k)
  \/ \E k \in Keys : Expire(k)

Spec == Init /\ [][Next]_vars

\* A handler that was started is run to its end by the event loop, and Redis
\* expires what has a time to live.
Fairness ==
  /\ \A r \in Readers : WF_vars(Reading(r))
  /\ \A k \in Keys : WF_vars(Expire(k))

FairSpec == Spec /\ Fairness

-------------------------------------------------------------------------------
(* Properties.                                                             *)

\* Whatever goes wrong, a key a creator was answered with keeps its row, and
\* the row holds that creator's URL: neither the rollback of another creation
\* (shortner-url.service.ts:34) nor a drawn key that collides takes it away.
PublishedIsStored ==
  \A k \in Keys : published[k] # NoUrl => db[k] = published[k]

\* The cache never serves a URL the table does not hold under that key.  The
\* code owes this to the order INSERT, populate, DELETE; it survives every
\* fault but a populate that both fails and is carried out, and a reader that
\* guesses the key of a creation that is about to be rolled back.
NoOrphanCache ==
  \A k \in Keys : cache[k] # NoUrl => db[k] = cache[k]

\* A creation that failed left neither a row nor a cache entry, in the words
\* of ADR 005 "Done (nothing changed)" after the redirect service failed;
\* unless another creation drew the same key later and put its own there.
FailedLeavesNothing ==
  \A c \in Creators :
    /\ pc[c] = "failed" /\ key[c] # NoKey
    /\ \A d \in Creators \ {c} : key[d] # key[c]
    => db[key[c]] = NoUrl /\ cache[key[c]] = NoUrl

\* Clients see the abstract store: keys handed out stay bound to their URL,
\* and a redirect asked for after that is right or fails.
Abstract == INSTANCE UrlStore
ImplementsStore == Abstract!Spec

\* When a populate is carried out although it failed, its entry outlives the
\* rolled back row; the time to live ends that, for good.
EventuallyNoOrphans == <>[]NoOrphanCache
===============================================================================
