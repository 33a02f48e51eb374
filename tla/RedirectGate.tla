----------------------------- MODULE RedirectGate -----------------------------
(***************************************************************************)
(* The gate in front of GET /:shortCode: the redirect service's            *)
(* ConcurrentMutex, the withConcurrentLimiting middleware that acquires a  *)
(* slot per request and releases it when the response has finished, and    *)
(* the error handler, which also releases.  Node runs one callback at a    *)
(* time, so each callback is one step; a promise settled by release() or   *)
(* drop() resumes its request before the next callback.                    *)
(*                                                                         *)
(* Env names what may happen around the gate:                              *)
(*   throw    the redirect handler throws (anything but a 404)             *)
(*   stray    a request that holds no slot ends in the error handler       *)
(*            (POST /cache with Redis down, a malformed JSON body)         *)
(*   hangup   the client goes away, so 'finish' is never emitted           *)
(*   timeout  more than timeoutMs can pass since the last acquisition      *)
(* No action uses an operator marked "A slip": it is a plausible mistake   *)
(* in the definition that follows it, kept to show what would notice it.   *)
(***************************************************************************)
EXTENDS Integers, Sequences, FiniteSets

CONSTANTS
  Requests,        \* slots for requests in flight; a slot is used again
  maxConcurrent,
  Env

ASSUME RequestsAssumption == IsFiniteSet(Requests)
ASSUME MaxAssumption == maxConcurrent \in Nat \ {0}
ASSUME EnvAssumption == Env \subseteq {"throw", "stray", "hangup", "timeout"}

May(f) == f \in Env

VARIABLES
  activeCount,  \* _activeCount
  queue,        \* _queue: the requests whose promise is pending, in order
  stale,        \* Date.now() - _now > timeoutMs; _now is 0 at first
  pc,           \* pc[r]: idle, queued, running (the handler), ending (the
                \* response is sent, 'finish' is not emitted yet)
  gone,         \* gone[r]: the client of r has hung up
  leaked,       \* history: slots lost to a hang-up; no more than
                \* maxConcurrent can be, so the count stops there
  surplus       \* history: slots taken from their holders, by a release on
                \* top of their own or by a drop; no more than all requests
                \* can gain by it, so the count stops there

vars == <<activeCount, queue, stale, pc, gone, leaked, surplus>>

AllRequests == Cardinality(Requests)

\* The types of the variables; _activeCount stays within the limit although
\* a slot may be released more than once.
TypeOK ==
  /\ activeCount \in 0..maxConcurrent
  /\ queue \in Seq(Requests)
  /\ stale \in BOOLEAN
  /\ pc \in [Requests -> {"idle", "queued", "running", "ending"}]
  /\ gone \in [Requests -> BOOLEAN]
  /\ leaked \in 0..maxConcurrent
  /\ surplus \in 0..AllRequests

Init ==
  /\ activeCount = 0
  /\ queue = <<>>
  /\ stale = May("timeout")
  /\ pc = [r \in Requests |-> "idle"]
  /\ gone = [r \in Requests |-> FALSE]
  /\ leaked = 0
  /\ surplus = 0

Waiting == {queue[i] : i \in DOMAIN queue}
HoldersOf(pcs) == {r \in Requests : pcs[r] \in {"running", "ending"}}
Holders == HoldersOf(pc)

\* A slip: the comparison is off by one.
IsLockedTooLate == activeCount > maxConcurrent

IsLocked == activeCount >= maxConcurrent

-------------------------------------------------------------------------------
(* ConcurrentMutex.  The operators take the pc the calling step leaves,     *)
(* and how many slots it releases that are not its own.                     *)

\* History: n more slots have been taken from their holders.
Taken(n) == surplus' = IF surplus + n < AllRequests THEN surplus + n
                                                    ELSE AllRequests

\* A slip: drop does not reset _queue.
DroppedQueueKept == queue

\* drop: every waiter is rejected and answers 429.
DroppedQueue == <<>>

Drop(pcs) ==
  /\ activeCount' = 0
  /\ queue' = DroppedQueue
  /\ pc' = [r \in Requests |-> IF pcs[r] = "queued" THEN "idle" ELSE pcs[r]]
  /\ gone' = [r \in Requests |-> gone[r] /\ pc'[r] # "idle"]
  /\ leaked' = 0
  /\ surplus' = Cardinality(HoldersOf(pcs))
  /\ UNCHANGED stale

\* A slip: a slot handed over is freed, too.
HandedOverAndFreed == activeCount - 1

\* The first waiter takes over the slot: the count stays.
HandedOver == activeCount

HandOff(pcs, extra) ==
  /\ queue # <<>>
  /\ activeCount' = HandedOver
  /\ queue' = Tail(queue)
  /\ stale' = FALSE
  /\ pc' = [pcs EXCEPT ![Head(queue)] = "running"]
  /\ gone' = [r \in Requests |-> gone[r] /\ pc'[r] # "idle"]
  /\ Taken(extra)
  /\ UNCHANGED leaked

\* A slip: release does not test the count.
DecrementedUnguarded == activeCount - 1

\* A slip: release keeps the slot.
DecrementedNever == activeCount

Decremented == IF activeCount > 0 THEN activeCount - 1 ELSE activeCount

Decrement(pcs, extra) ==
  /\ queue = <<>>
  /\ activeCount' = Decremented
  /\ pc' = pcs
  /\ gone' = [r \in Requests |-> gone[r] /\ pc'[r] # "idle"]
  /\ Taken(extra)
  /\ UNCHANGED <<queue, stale, leaked>>

Release(pcs, extra) ==
  \/ stale /\ Drop(pcs)
  \/ ~stale /\ (HandOff(pcs, extra) \/ Decrement(pcs, extra))

-------------------------------------------------------------------------------
(* The middleware, the handler and the error handler.                      *)

Acquire(r) ==
  /\ pc[r] = "idle"
  /\ ~IsLocked
  /\ activeCount' = activeCount + 1
  /\ stale' = FALSE
  /\ pc' = [pc EXCEPT ![r] = "running"]
  /\ UNCHANGED <<queue, gone, leaked, surplus>>

\* A slip: unshift instead of push.
PushedInFront(r) == <<r>> \o queue

Pushed(r) == Append(queue, r)

Enqueue(r) ==
  /\ pc[r] = "idle"
  /\ IsLocked
  /\ queue' = Pushed(r)
  /\ pc' = [pc EXCEPT ![r] = "queued"]
  /\ UNCHANGED <<activeCount, stale, gone, leaked, surplus>>

\* The handler sends its redirect or its 404.
Respond(r) ==
  /\ pc[r] = "running"
  /\ pc' = [pc EXCEPT ![r] = "ending"]
  /\ UNCHANGED <<activeCount, queue, stale, gone, leaked, surplus>>

\* The handler rejects: the error handler releases, then sends the 500.
Throw(r) ==
  /\ May("throw")
  /\ pc[r] = "running"
  /\ Release([pc EXCEPT ![r] = "ending"], 1)

\* The response has been handed over: the 'finish' listener releases.
Finish(r) ==
  /\ pc[r] = "ending"
  /\ ~gone[r]
  /\ Release([pc EXCEPT ![r] = "idle"], 0)

\* The error handler runs for a request that never passed the gate.
StrayError ==
  /\ May("stray")
  /\ Release(pc, 1)

HangUp(r) ==
  /\ May("hangup")
  /\ pc[r] # "idle"
  /\ gone' = [gone EXCEPT ![r] = TRUE]
  /\ UNCHANGED <<activeCount, queue, stale, pc, leaked, surplus>>

\* The response of a client that hung up is closed without 'finish'.
Close(r) ==
  /\ pc[r] = "ending"
  /\ gone[r]
  /\ pc' = [pc EXCEPT ![r] = "idle"]
  /\ gone' = [gone EXCEPT ![r] = FALSE]
  /\ leaked' = IF leaked < maxConcurrent THEN leaked + 1 ELSE leaked
  /\ UNCHANGED <<activeCount, queue, stale, surplus>>

\* timeoutMs pass without an acquisition.
Lapse ==
  /\ May("timeout")
  /\ stale' = TRUE
  /\ UNCHANGED <<activeCount, queue, pc, gone, leaked, surplus>>

Next ==
  \/ \E r \in Requests :
       \/ Acquire(r) \/ Enqueue(r) \/ Respond(r) \/ Throw(r) \/ Finish(r)
       \/ HangUp(r) \/ Close(r)
  \/ StrayError
  \/ Lapse

Spec == Init /\ [][Next]_vars

\* Every handler settles, and every response is flushed or closed.
Fairness ==
  /\ \A r \in Requests : WF_vars(Respond(r) \/ Throw(r))
  /\ \A r \in Requests : WF_vars(Finish(r) \/ Close(r))

FairSpec == Spec /\ Fairness

\* Besides, timeoutMs do pass whenever no acquisition starts them anew.
TimedSpec == FairSpec /\ WF_vars(Lapse)

-------------------------------------------------------------------------------
(* Properties.                                                             *)

\* Nobody waits in front of a free slot: acquireLock queues only when all
\* slots are taken, and no release leaves a slot and a waiter side by side.
QueueImpliesFull == queue # <<>> => activeCount = maxConcurrent

\* The pending promises are exactly those of the requests that wait, each
\* once: no release, drop or hang-up loses or duplicates a waiter.
QueueIsWaiters ==
  /\ Waiting = {r \in Requests : pc[r] = "queued"}
  /\ \A i, j \in DOMAIN queue : queue[i] = queue[j] => i = j

Running == {r \in Requests : pc[r] = "running"}

\* No more than maxConcurrent handlers run at a time.  The code does not keep
\* this when a handler throws, a stray error releases, or a timeout drops.
ConcurrencyLimit == Cardinality(Running) <= maxConcurrent

\* What it keeps, whatever happens: each slot taken from its holder lets at
\* most one handler more run at a time, and nothing else does.  A client that
\* hangs up never adds one, and a drop forgets the surplus before it.
LimitUpToSurplus == Cardinality(Running) <= maxConcurrent + surplus

\* A slot is counted as taken only if a request holds it or its 'finish' got
\* lost; the extra releases of the error handler err on the other side.
NoPhantomSlots == activeCount <= Cardinality(Holders) + leaked

\* Whoever waits waits for somebody: as long as there is a queue, every slot
\* is held by a request that will release it, or its 'finish' got lost.
WaitersAreBacked ==
  queue # <<>> => Cardinality(Holders) + leaked >= maxConcurrent

\* Nobody is overtaken: newcomers wait behind those who wait, who keep their
\* order, and a release lets nobody in past a waiter.
Before(r, s) == \E i, j \in DOMAIN queue : i < j /\ queue[i] = r /\ queue[j] = s

InOrder ==
  \A r, s \in Requests :
    /\ pc[r] = "queued" /\ pc[s] # "queued" => ~Before(s, r)'
    /\ Before(r, s) /\ pc'[r] = "queued" =>
         IF pc'[s] = "queued" THEN Before(r, s)' ELSE pc'[s] # "running"

ServedInOrder == [][InOrder]_vars

\* A waiter is let in or turned away with 429 after a while.
WaitersAreServed == \A r \in Requests : pc[r] = "queued" ~> pc[r] # "queued"

\* So it is as long as some slot has not been lost to a client that hung up.
ServedUnlessAllLeak ==
  \A r \in Requests :
    pc[r] = "queued" ~> pc[r] # "queued" \/ leaked = maxConcurrent
===============================================================================
