------------------------------ MODULE RateLimiter ------------------------------
(***************************************************************************)
(* The moving-window rate limit in front of every route of the persistence *)
(* service: the withMovingWindowRateLimiting middleware, the service that  *)
(* keeps the times of a client's requests in a sorted set, and the part of *)
(* Redis it uses.  Keys do not influence each other, so one client address *)
(* is modelled.  Each Redis command is a step of its own; a command may be *)
(* carried out long after the process has read the time it carries.        *)
(*                                                                         *)
(* A member of the sorted set is named after its score, so the set is a    *)
(* set of times.  Env names what may fail:                                 *)
(*   redis    a command is rejected, and the request ends with a 500       *)
(*   crash    the process dies with all its requests                       *)
(* No action uses an operator marked "A slip": it is a plausible mistake   *)
(* in the definition that follows it, kept to show what would notice it.   *)
(***************************************************************************)
EXTENDS Integers, FiniteSets

CONSTANTS
  Requests,  \* slots for requests of the client in flight
  limit,
  windowMs,
  Ttl,       \* ceil(windowMs * 3 / 1000) seconds, in milliseconds
  Env,
  MaxClock   \* no request arrives at this time or later

ASSUME RequestsAssumption == IsFiniteSet(Requests) /\ Requests # {}
ASSUME LimitAssumption == limit \in Nat
ASSUME WindowAssumption == windowMs \in Nat \ {0}
ASSUME TtlAssumption == Ttl \in Nat /\ Ttl >= 3 * windowMs
ASSUME ClockAssumption == MaxClock \in Nat

VARIABLES
  clock,     \* Date.now()
  zset,      \* the scores of the sorted set; {} when there is no key
  ttl,       \* when the key expires, or Never
  pc,        \* pc[p]: the command p has sent; stamp: p is about to read the
             \* time its own entry gets
  now,       \* now[p]: the time p has read last
  admitted,  \* history: the scores of the requests that were let through
  lost,      \* history: the scores that went with their key before their own
             \* expire came
  stranded   \* history: since the last expire, a failure struck a request
             \* between its zAdd and its expire

vars == <<clock, zset, ttl, pc, now, admitted, lost, stranded>>

Never == -1
N == Cardinality(Requests)

\* The types of the variables; no time is later than the clock's.
TypeOK ==
  /\ clock \in Nat
  /\ zset \subseteq 0..clock
  /\ ttl \in Nat \cup {Never}
  /\ pc \in [Requests -> {"idle", "clean", "count", "retryAfter", "stamp",
                          "cleanAgain", "add", "expire"}]
  /\ now \in [Requests -> 0..clock]
  /\ admitted \subseteq 0..clock
  /\ lost \subseteq 0..clock
  /\ stranded \in BOOLEAN

Init ==
  /\ clock = 0
  /\ zset = {}
  /\ ttl = Never
  /\ pc = [p \in Requests |-> "idle"]
  /\ now = [p \in Requests |-> 0]
  /\ admitted = {}
  /\ lost = {}
  /\ stranded = FALSE

-------------------------------------------------------------------------------
(* The middleware and its service.                                         *)

Goes(p, from, to) == pc[p] = from /\ pc' = [pc EXCEPT ![p] = to]

\* A request arrives; cleanupOldEntries reads the time.
Arrive(p) ==
  /\ clock < MaxClock
  /\ Goes(p, "idle", "clean")
  /\ now' = [now EXCEPT ![p] = clock]
  /\ UNCHANGED <<clock, zset, ttl, admitted, lost, stranded>>

\* A slip: nothing is removed before the entries are counted.
RemainingUncleaned(p) ==
  IF pc[p] = "clean" THEN zset ELSE {s \in zset : s > now[p] - windowMs}

\* zRemRangeByScore includes its bound.
Remaining(p) == {s \in zset : s > now[p] - windowMs}

Cleanup(p, from, to) ==
  /\ Goes(p, from, to)
  /\ zset' = Remaining(p)
  /\ ttl' = IF zset' = {} THEN Never ELSE ttl   \* an empty key is no key
  /\ UNCHANGED <<clock, now, admitted, lost, stranded>>

\* A slip: the entry that reaches the limit is let through, too.
IsRateLimitedTooLate == Cardinality(zset) > limit

IsRateLimited == Cardinality(zset) >= limit

Count(p) ==
  /\ Goes(p, "count", IF IsRateLimited THEN "retryAfter" ELSE "stamp")
  /\ UNCHANGED <<clock, zset, ttl, now, admitted, lost, stranded>>

\* The first entry is read for Retry-After, and the answer is 429.
Reject(p) ==
  /\ Goes(p, "retryAfter", "idle")
  /\ UNCHANGED <<clock, zset, ttl, now, admitted, lost, stranded>>

\* upsertRequestTimestamp reads the time of the entry.
Stamp(p) ==
  /\ Goes(p, "stamp", "cleanAgain")
  /\ now' = [now EXCEPT ![p] = clock]
  /\ UNCHANGED <<clock, zset, ttl, admitted, lost, stranded>>

\* A slip: the entry is recorded for the end of its window.
ScoreAtEnd(p) == now[p] + windowMs

Score(p) == now[p]

Add(p) ==
  /\ Goes(p, "add", "expire")
  /\ zset' = zset \cup {Score(p)}
  /\ UNCHANGED <<clock, ttl, now, admitted, lost, stranded>>

\* A slip: expire is sent with XX, which only renews.
RenewedIfSet == IF ttl = Never THEN Never ELSE clock + Ttl

Renewed == clock + Ttl

\* expire, which ignores a key that is gone; then the request goes on.
Expire(p) ==
  /\ Goes(p, "expire", "idle")
  /\ ttl' = IF zset = {} THEN Never ELSE Renewed
  /\ admitted' = admitted \cup {now[p]}
  /\ stranded' = FALSE
  /\ UNCHANGED <<clock, zset, now, lost>>

\* A command is rejected, or its reply gets lost after it was carried out.
Fail(p) ==
  /\ "redis" \in Env
  /\ pc[p] # "idle"
  /\ pc' = [pc EXCEPT ![p] = "idle"]
  /\ stranded' = (stranded \/ pc[p] = "expire")
  /\ UNCHANGED <<clock, zset, ttl, now, admitted, lost>>

Crash ==
  /\ "crash" \in Env
  /\ pc' = [p \in Requests |-> "idle"]
  /\ stranded' = (stranded \/ \E p \in Requests : pc[p] = "expire")
  /\ UNCHANGED <<clock, zset, ttl, now, admitted, lost>>

\* The entries whose request has not sent its expire yet.
Unexpired == {now[p] : p \in {q \in Requests : pc[q] = "expire"}}

\* A millisecond passes; a key whose time has come is gone.  Time goes on
\* until no key waits for its end.
Tick ==
  /\ clock < MaxClock \/ ttl # Never
  /\ clock' = clock + 1
  /\ IF ttl = clock'
       THEN /\ zset' = {} /\ ttl' = Never
            /\ lost' = lost \cup Unexpired
       ELSE UNCHANGED <<zset, ttl, lost>>
  /\ UNCHANGED <<pc, now, admitted, stranded>>

Done ==
  /\ clock >= MaxClock /\ ttl = Never
  /\ \A p \in Requests : pc[p] = "idle"
  /\ UNCHANGED vars

\* What p does once it has arrived.
Proceed(p) ==
  \/ Cleanup(p, "clean", "count") \/ Count(p) \/ Reject(p) \/ Stamp(p)
  \/ Cleanup(p, "cleanAgain", "add") \/ Add(p) \/ Expire(p)

Next ==
  \/ \E p \in Requests : Arrive(p) \/ Proceed(p) \/ Fail(p)
  \/ Crash \/ Tick \/ Done

Spec == Init /\ [][Next]_vars

\* Redis answers or fails, and time passes.
FairSpec ==
  /\ Spec
  /\ \A p \in Requests : WF_vars(Proceed(p))
  /\ WF_vars(Tick)

-------------------------------------------------------------------------------
(* Properties.                                                             *)

\* The times of the requests let through in the window that ends at t.
Admitted(t) == {s \in admitted \ lost : t - windowMs < s /\ s <= t}

\* zCard and zAdd are two commands, so requests that arrive together see the
\* same count.  They overrun the limit by no more than all but one of those
\* in flight, in every window, whenever keys are cleaned, expire or are left
\* behind.  Requests of one millisecond share an entry and count as one, and
\* an entry added to a key that ends before its own expire does not count.
WindowBound == \A t \in 0..clock : Cardinality(Admitted(t)) <= limit - 1 + N

\* The entries p counts although they had left its window when it arrived.
Outdated(p) == {s \in zset : s <= now[p] - windowMs}

\* A request is not judged by requests of long ago: every outdated entry it
\* counts was added by another request in flight since before p arrived.
JudgedByRecent ==
  \A p \in Requests : pc[p] = "count" => Cardinality(Outdated(p)) <= N - 1

\* A key is always about to end: within a time to live from now, unless the
\* expire of one of its entries is still to come or a failure has cut it off.
\* No order of cleanings, entries and expires on the key takes its end away.
KeyEnds ==
  zset # {} =>
    \/ ttl \in clock + 1 .. clock + Ttl
    \/ stranded
    \/ \E p \in Requests : pc[p] = "expire"

\* Redis forgets a client that has gone: its key ends, unless a failure came
\* between zAdd and expire and nothing has renewed the time to live since.
KeyForgotten == <>[](zset = {} \/ stranded)
===============================================================================
