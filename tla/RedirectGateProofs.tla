-------------------------- MODULE RedirectGateProofs --------------------------
(***************************************************************************)
(* Theorems about RedirectGate, for any number of requests and of slots.   *)
(* What a release does depends on the calling step only through the pc it  *)
(* leaves, so each invariant has one lemma about Release and one about the *)
(* other steps.                                                            *)
(***************************************************************************)
EXTENDS RedirectGate, FiniteSetTheorems, TLAPS

USE DEF AllRequests

\* The queue invariants are inductive together with the types.
GateInv == TypeOK /\ QueueImpliesFull /\ QueueIsWaiters

\* The values of pc a step may leave before it releases: the waiters wait.
Leaves(pcs) ==
  /\ pcs \in [Requests -> {"idle", "queued", "running", "ending"}]
  /\ \A r \in Requests : pcs[r] = "queued" <=> pc[r] = "queued"

\* Slots in use can be counted.
LEMMA HoldersFinite ==
  ASSUME NEW pcs
  PROVE  /\ IsFiniteSet(HoldersOf(pcs))
         /\ Cardinality(HoldersOf(pcs)) \in Nat
  BY RequestsAssumption, FS_Subset, FS_CardinalityType DEF HoldersOf

\* No more of them than requests.
LEMMA HoldersBounded ==
  ASSUME NEW pcs
  PROVE  Cardinality(HoldersOf(pcs)) <= AllRequests
<1>1. HoldersOf(pcs) \subseteq Requests
  BY DEF HoldersOf
<1> QED
  BY <1>1, RequestsAssumption, FS_Subset DEF AllRequests

\* There are finitely many requests.
LEMMA AllCounted == AllRequests \in Nat
  BY RequestsAssumption, FS_CardinalityType DEF AllRequests

\* The empty gate satisfies the queue invariants.
LEMMA GateInit == Init => GateInv
<1> SUFFICES ASSUME Init PROVE GateInv
  OBVIOUS
<1>1. stale \in BOOLEAN
  <2>1. CASE "timeout" \in Env
    BY <2>1 DEF Init, May
  <2>2. CASE "timeout" \notin Env
    BY <2>2 DEF Init, May
  <2> QED
    BY <2>1, <2>2
<1>2. queue \in Seq(Requests) /\ DOMAIN queue = {}
  BY DEF Init
<1>3. TypeOK
  BY <1>1, <1>2, MaxAssumption, AllCounted DEF Init, TypeOK
<1>4. QueueImpliesFull /\ QueueIsWaiters
  BY <1>2 DEF Init, QueueImpliesFull, QueueIsWaiters, Waiting
<1> QED
  BY <1>3, <1>4 DEF GateInv

-------------------------------------------------------------------------------
(* The queue.                                                              *)

\* The head of a nonempty queue is a waiting request.
LEMMA HeadWaits ==
  ASSUME GateInv, queue # <<>>
  PROVE  /\ Head(queue) \in Requests
         /\ pc[Head(queue)] = "queued"
         /\ Tail(queue) \in Seq(Requests)
         /\ Len(Tail(queue)) = Len(queue) - 1
         /\ \A i \in 1..Len(queue) - 1 : Tail(queue)[i] = queue[i + 1]
<1>1. Head(queue) = queue[1] /\ 1 \in DOMAIN queue
  BY DEF GateInv, TypeOK
<1> QED
  BY <1>1 DEF GateInv, TypeOK, QueueIsWaiters, Waiting

\* A slot the calling step takes from its holder is added to the surplus, up
\* to the number of all requests.
LEMMA TakenCounts ==
  ASSUME GateInv, NEW extra \in 0..1, Taken(extra)
  PROVE  surplus' \in 0..AllRequests
         /\ (surplus' = surplus + extra \/ surplus' = AllRequests)
  BY AllCounted DEF GateInv, TypeOK, Taken

\* A drop keeps the queue invariants: it rejects every waiter.
LEMMA DropKeepsQueue ==
  ASSUME GateInv, NEW pcs, Leaves(pcs), Drop(pcs)
  PROVE  GateInv'
<1>1. surplus' \in 0..AllRequests
  BY HoldersFinite, HoldersBounded, AllCounted DEF Drop
<1> QED
  BY <1>1, MaxAssumption DEF GateInv, TypeOK, QueueImpliesFull,
     QueueIsWaiters, Waiting, Leaves, Drop, DroppedQueue

\* A hand-off keeps them: the waiter that leaves the queue stops waiting.
LEMMA HandOffKeepsQueue ==
  ASSUME GateInv, NEW pcs, NEW extra \in 0..1, Leaves(pcs), HandOff(pcs, extra)
  PROVE  GateInv'
<1> DEFINE h == Head(queue)
<1>1. TypeOK'
  BY HeadWaits, TakenCounts DEF GateInv, TypeOK, Leaves, HandOff, HandedOver
<1>2. QueueImpliesFull'
  BY DEF GateInv, QueueImpliesFull, HandOff, HandedOver
<1>3. /\ \A i \in DOMAIN queue' : i + 1 \in DOMAIN queue /\ i + 1 # 1
      /\ \A i \in DOMAIN queue' : queue'[i] = queue[i + 1]
      /\ \A j \in DOMAIN queue : j # 1 => j - 1 \in DOMAIN queue'
      /\ DOMAIN queue \subseteq Nat /\ DOMAIN queue' \subseteq Nat
      /\ h = queue[1] /\ 1 \in DOMAIN queue
  BY HeadWaits DEF GateInv, TypeOK, HandOff
<1>4. \A i, j \in DOMAIN queue' : queue'[i] = queue'[j] => i = j
  BY <1>3 DEF GateInv, QueueIsWaiters
<1>5. \A r \in Requests : pc'[r] = "queued" <=> pc[r] = "queued" /\ r # h
  BY HeadWaits DEF GateInv, TypeOK, Leaves, HandOff
<1>6. Waiting' = Waiting \ {h}
  <2>1. ASSUME NEW i \in DOMAIN queue'
        PROVE  queue'[i] \in Waiting \ {h}
    <3>1. queue'[i] = queue[i + 1] /\ i + 1 \in DOMAIN queue /\ i + 1 # 1
      BY <1>3
    <3> QED
      BY <3>1, <1>3 DEF GateInv, QueueIsWaiters, Waiting
  <2>2. ASSUME NEW j \in DOMAIN queue, queue[j] # h
        PROVE  queue[j] \in Waiting'
    <3>1. j - 1 \in DOMAIN queue' /\ queue'[j - 1] = queue[j]
      BY <1>3, <2>2
    <3> QED
      BY <3>1 DEF Waiting
  <2> QED
    BY <2>1, <2>2 DEF Waiting
<1> QED
  BY <1>1, <1>2, <1>4, <1>5, <1>6, HeadWaits
  DEF GateInv, QueueIsWaiters, HandOff

\* A slot is freed only when nobody waits.
LEMMA DecrementKeepsQueue ==
  ASSUME GateInv, NEW pcs, NEW extra \in 0..1, Leaves(pcs), Decrement(pcs, extra)
  PROVE  GateInv'
  BY MaxAssumption, TakenCounts DEF GateInv, TypeOK, QueueImpliesFull,
     QueueIsWaiters, Waiting, Leaves, Decrement, Decremented

\* Whichever way a release goes, it keeps the queue invariants.
LEMMA ReleaseKeepsQueue ==
  ASSUME GateInv, NEW pcs, NEW extra \in 0..1, Leaves(pcs), Release(pcs, extra)
  PROVE  GateInv'
  BY DropKeepsQueue, HandOffKeepsQueue, DecrementKeepsQueue DEF Release

\* A request that finds all slots taken joins the queue once.
LEMMA EnqueueKeepsQueue ==
  ASSUME GateInv, NEW r \in Requests, Enqueue(r)
  PROVE  GateInv'
<1>1. TypeOK'
  BY DEF GateInv, TypeOK, Enqueue, Pushed
<1>2. QueueImpliesFull'
  BY MaxAssumption DEF GateInv, TypeOK, QueueImpliesFull, Enqueue, IsLocked
<1> DEFINE n == Len(queue)
<1>3. /\ n \in Nat /\ DOMAIN queue = 1..n /\ DOMAIN queue' = 1..(n + 1)
      /\ \A i \in 1..n : queue'[i] = queue[i]
      /\ queue'[n + 1] = r
  BY DEF GateInv, TypeOK, Enqueue, Pushed
<1>4. r \notin Waiting
  BY DEF GateInv, QueueIsWaiters, Enqueue
<1>5. \A i, j \in DOMAIN queue' : queue'[i] = queue'[j] => i = j
  BY <1>3, <1>4 DEF GateInv, QueueIsWaiters, Waiting
<1>6. Waiting' = Waiting \cup {r}
  BY <1>3 DEF Waiting
<1>7. \A s \in Requests : pc'[s] = "queued" <=> pc[s] = "queued" \/ s = r
  BY DEF GateInv, TypeOK, Enqueue
<1> QED
  BY <1>1, <1>2, <1>5, <1>6, <1>7 DEF GateInv, QueueIsWaiters

\* Every step keeps the queue invariants.
LEMMA GateStep == GateInv /\ [Next]_vars => GateInv'
<1> SUFFICES ASSUME GateInv, [Next]_vars PROVE GateInv'
  OBVIOUS
<1>1. ASSUME NEW r \in Requests, Acquire(r) PROVE GateInv'
  <2>1. activeCount < maxConcurrent /\ activeCount' = activeCount + 1
    BY <1>1, MaxAssumption DEF GateInv, TypeOK, Acquire, IsLocked
  <2>2. TypeOK'
    <3>1. activeCount' \in 0..maxConcurrent
      BY <2>1, MaxAssumption DEF GateInv, TypeOK
    <3>2. pc' \in [Requests -> {"idle", "queued", "running", "ending"}]
      BY <1>1 DEF GateInv, TypeOK, Acquire
    <3>3. stale' \in BOOLEAN
      BY <1>1 DEF Acquire
    <3> QED
      BY <1>1, <3>1, <3>2, <3>3 DEF GateInv, TypeOK, Acquire
  <2>3. QueueImpliesFull'
    BY <1>1, <2>1 DEF GateInv, QueueImpliesFull, TypeOK, Acquire
  <2>4. Waiting' = Waiting
    BY <1>1 DEF Waiting, Acquire
  <2>5. \A s \in Requests : pc'[s] = "queued" <=> pc[s] = "queued"
    BY <1>1 DEF GateInv, TypeOK, Acquire
  <2> QED
    BY <1>1, <2>2, <2>3, <2>4, <2>5 DEF GateInv, QueueIsWaiters, Acquire
<1>2. ASSUME NEW r \in Requests, Enqueue(r) PROVE GateInv'
  BY <1>2, EnqueueKeepsQueue
<1>3. ASSUME NEW r \in Requests, Respond(r) PROVE GateInv'
  BY <1>3 DEF GateInv, TypeOK, QueueImpliesFull, QueueIsWaiters, Waiting,
              Respond
<1>4. ASSUME NEW r \in Requests, Throw(r) PROVE GateInv'
  <2>1. Leaves([pc EXCEPT ![r] = "ending"])
    BY <1>4 DEF GateInv, TypeOK, Leaves, Throw
  <2> QED
    BY <1>4, <2>1, ReleaseKeepsQueue DEF Throw
<1>5. ASSUME NEW r \in Requests, Finish(r) PROVE GateInv'
  <2>1. Leaves([pc EXCEPT ![r] = "idle"])
    BY <1>5 DEF GateInv, TypeOK, Leaves, Finish
  <2> QED
    BY <1>5, <2>1, ReleaseKeepsQueue DEF Finish
<1>6. ASSUME StrayError PROVE GateInv'
  <2>1. Leaves(pc)
    BY DEF GateInv, TypeOK, Leaves
  <2> QED
    BY <1>6, <2>1, ReleaseKeepsQueue DEF StrayError
<1>7. ASSUME NEW r \in Requests, HangUp(r) PROVE GateInv'
  BY <1>7 DEF GateInv, TypeOK, QueueImpliesFull, QueueIsWaiters, Waiting,
              HangUp
<1>8. ASSUME NEW r \in Requests, Close(r) PROVE GateInv'
  BY <1>8, MaxAssumption
  DEF GateInv, TypeOK, QueueImpliesFull, QueueIsWaiters, Waiting, Close
<1>9. CASE Lapse
  BY <1>9 DEF GateInv, TypeOK, QueueImpliesFull, QueueIsWaiters, Waiting,
              Lapse
<1>10. CASE UNCHANGED vars
  BY <1>10 DEF GateInv, TypeOK, QueueImpliesFull, QueueIsWaiters, Waiting,
               vars
<1> QED
  BY <1>1, <1>2, <1>3, <1>4, <1>5, <1>6, <1>7, <1>8, <1>9, <1>10 DEF Next

\* The queue invariants hold in every environment.
LEMMA GateInvariant == Spec => []GateInv
  BY GateInit, GateStep, PTL DEF Spec

\* Every variable keeps its type: the count stays between 0 and the limit
\* whatever is released twice, released by strangers or dropped.
THEOREM TypeCorrect == Spec => []TypeOK
<1>1. GateInv => TypeOK
  BY DEF GateInv
<1> QED
  BY <1>1, GateInvariant, PTL

\* Nobody waits in front of a free slot.
THEOREM NoIdleSlot == Spec => []QueueImpliesFull
<1>1. GateInv => QueueImpliesFull
  BY DEF GateInv
<1> QED
  BY <1>1, GateInvariant, PTL

\* No waiter is lost or duplicated.
THEOREM NoLostWaiter == Spec => []QueueIsWaiters
<1>1. GateInv => QueueIsWaiters
  BY DEF GateInv
<1> QED
  BY <1>1, GateInvariant, PTL

-------------------------------------------------------------------------------
(* Counting the slots.                                                     *)

\* A request that gets a slot is one holder more.
LEMMA OneMore ==
  ASSUME NEW p, NEW q, NEW r \in Requests, r \notin HoldersOf(p),
         HoldersOf(q) = HoldersOf(p) \cup {r}
  PROVE  Cardinality(HoldersOf(q)) = Cardinality(HoldersOf(p)) + 1
  BY HoldersFinite, FS_AddElement

\* A release passes a slot on, or frees one, or frees all.
LEMMA ReleaseCounts ==
  ASSUME GateInv, NEW pcs, NEW extra \in 0..1, Leaves(pcs), Release(pcs, extra)
  PROVE  \/ stale /\ activeCount' = 0 /\ leaked' = 0
         \/ /\ activeCount' = activeCount /\ leaked' = leaked
            /\ Cardinality(HoldersOf(pc')) = Cardinality(HoldersOf(pcs)) + 1
            /\ activeCount = maxConcurrent
         \/ /\ activeCount' = (IF activeCount > 0 THEN activeCount - 1 ELSE 0)
            /\ leaked' = leaked
            /\ HoldersOf(pc') = HoldersOf(pcs)
<1>1. CASE stale /\ Drop(pcs)
  BY <1>1 DEF Drop
<1>2. CASE HandOff(pcs, extra)
  <2> DEFINE h == Head(queue)
  <2>1. h \in Requests /\ pcs[h] = "queued"
    BY <1>2, HeadWaits DEF HandOff, Leaves
  <2>2. HoldersOf(pc') = HoldersOf(pcs) \cup {h}
    BY <1>2, <2>1 DEF HoldersOf, HandOff, Leaves
  <2>3. h \notin HoldersOf(pcs)
    BY <2>1 DEF HoldersOf
  <2>4. Cardinality(HoldersOf(pc')) = Cardinality(HoldersOf(pcs)) + 1
    BY <2>1, <2>2, <2>3, OneMore
  <2> QED
    BY <1>2, <2>4 DEF HandOff, HandedOver, GateInv, QueueImpliesFull
<1>3. CASE Decrement(pcs, extra)
  BY <1>3 DEF Decrement, Decremented, GateInv, TypeOK
<1> QED
  BY <1>1, <1>2, <1>3 DEF Release

\* The steps of r that release, and those of r that do not, in terms of the
\* holders.
LEMMA HoldersAfter ==
  ASSUME TypeOK, NEW r \in Requests
  PROVE  /\ pc[r] = "running" =>
              HoldersOf([pc EXCEPT ![r] = "ending"]) = HoldersOf(pc)
         /\ pc[r] \in {"running", "ending"} =>
              /\ r \notin HoldersOf([pc EXCEPT ![r] = "idle"])
              /\ HoldersOf(pc) = HoldersOf([pc EXCEPT ![r] = "idle"]) \cup {r}
         /\ pc[r] = "idle" =>
              /\ r \notin HoldersOf(pc)
              /\ HoldersOf([pc EXCEPT ![r] = "running"]) =
                   HoldersOf(pc) \cup {r}
              /\ HoldersOf([pc EXCEPT ![r] = "queued"]) = HoldersOf(pc)
  BY DEF TypeOK, HoldersOf

\* Every step keeps NoPhantomSlots.
LEMMA PhantomStep ==
  ASSUME GateInv, NoPhantomSlots, [Next]_vars
  PROVE  NoPhantomSlots'
<1> DEFINE n == Cardinality(HoldersOf(pc))
<1>1. n \in Nat /\ activeCount \in 0..maxConcurrent /\ leaked \in Nat
      /\ maxConcurrent \in Nat
  BY HoldersFinite, MaxAssumption DEF GateInv, TypeOK
<1>2. activeCount <= n + leaked
  BY DEF NoPhantomSlots, Holders, HoldersOf
<1> SUFFICES activeCount' <= Cardinality(HoldersOf(pc')) + leaked'
  BY DEF NoPhantomSlots, Holders, HoldersOf
<1>3. ASSUME NEW pcs, NEW extra \in 0..1, Leaves(pcs),
             Release(pcs, extra), n <= Cardinality(HoldersOf(pcs)) + 1
      PROVE  activeCount' <= Cardinality(HoldersOf(pc')) + leaked'
  BY <1>1, <1>2, <1>3, ReleaseCounts, HoldersFinite
<1>4. ASSUME NEW r \in Requests, Acquire(r)
      PROVE  activeCount' <= Cardinality(HoldersOf(pc')) + leaked'
  <2>1. Cardinality(HoldersOf(pc')) = n + 1
    BY <1>4, HoldersAfter, OneMore DEF GateInv, Acquire
  <2> QED
    BY <1>1, <1>2, <1>4, <2>1 DEF Acquire
<1>5. ASSUME NEW r \in Requests, Enqueue(r)
      PROVE  activeCount' <= Cardinality(HoldersOf(pc')) + leaked'
  BY <1>1, <1>2, <1>5, HoldersAfter DEF GateInv, Enqueue
<1>6. ASSUME NEW r \in Requests, Respond(r)
      PROVE  activeCount' <= Cardinality(HoldersOf(pc')) + leaked'
  BY <1>1, <1>2, <1>6, HoldersAfter DEF GateInv, Respond
<1>7. ASSUME NEW r \in Requests, Throw(r)
      PROVE  activeCount' <= Cardinality(HoldersOf(pc')) + leaked'
  <2>1. Leaves([pc EXCEPT ![r] = "ending"])
    BY <1>7 DEF GateInv, TypeOK, Leaves, Throw
  <2>2. HoldersOf([pc EXCEPT ![r] = "ending"]) = HoldersOf(pc)
    BY <1>7, HoldersAfter DEF GateInv, Throw
  <2>3. Release([pc EXCEPT ![r] = "ending"], 1)
    BY <1>7 DEF Throw
  <2>4. n <= Cardinality(HoldersOf([pc EXCEPT ![r] = "ending"])) + 1
    BY <1>1, <2>2
  <2> QED
    BY <1>3, <2>1, <2>3, <2>4
<1>8. ASSUME NEW r \in Requests, Finish(r)
      PROVE  activeCount' <= Cardinality(HoldersOf(pc')) + leaked'
  <2>1. Leaves([pc EXCEPT ![r] = "idle"])
    BY <1>8 DEF GateInv, TypeOK, Leaves, Finish
  <2>2. n = Cardinality(HoldersOf([pc EXCEPT ![r] = "idle"])) + 1
    BY <1>8, HoldersAfter, OneMore DEF GateInv, Finish
  <2>3. Release([pc EXCEPT ![r] = "idle"], 0)
    BY <1>8 DEF Finish
  <2>4. n <= Cardinality(HoldersOf([pc EXCEPT ![r] = "idle"])) + 1
    BY <1>1, <2>2
  <2> QED
    BY <1>3, <2>1, <2>3, <2>4
<1>9. CASE StrayError
  <2>1. Leaves(pc)
    BY DEF GateInv, TypeOK, Leaves
  <2>2. n <= Cardinality(HoldersOf(pc)) + 1
    BY <1>1
  <2> QED
    BY <1>3, <1>9, <2>1, <2>2 DEF StrayError
<1>10. ASSUME NEW r \in Requests, HangUp(r)
       PROVE  activeCount' <= Cardinality(HoldersOf(pc')) + leaked'
  BY <1>1, <1>2, <1>10 DEF HangUp
<1>11. ASSUME NEW r \in Requests, Close(r)
       PROVE  activeCount' <= Cardinality(HoldersOf(pc')) + leaked'
  <2>1. n = Cardinality(HoldersOf(pc')) + 1
    BY <1>11, HoldersAfter, OneMore DEF GateInv, Close
  <2> QED
    BY <1>1, <1>2, <1>11, <2>1, HoldersFinite DEF Close
<1>12. CASE Lapse \/ UNCHANGED vars
  BY <1>1, <1>2, <1>12 DEF Lapse, vars
<1> QED
  BY <1>4, <1>5, <1>6, <1>7, <1>8, <1>9, <1>10, <1>11, <1>12 DEF Next

\* At first nobody holds a slot.
LEMMA NobodyHolds == Init => HoldersOf(pc) = {}
  BY DEF Init, HoldersOf

\* A counted slot has a holder, or was lost to a client that hung up.
THEOREM SlotsAreHeld == Spec => []NoPhantomSlots
<1>1. Init => NoPhantomSlots
  <2> SUFFICES ASSUME Init PROVE NoPhantomSlots
    OBVIOUS
  <2>1. Cardinality(Holders) = 0
    BY NobodyHolds, FS_EmptySet DEF Holders, HoldersOf
  <2> QED
    BY <2>1 DEF Init, NoPhantomSlots
<1>2. GateInv /\ NoPhantomSlots /\ [Next]_vars => NoPhantomSlots'
  BY PhantomStep
<1> QED
  BY <1>1, <1>2, GateInvariant, PTL DEF Spec

\* Whoever waits is backed by as many holders as there are slots left.
THEOREM WaitersHaveHolders == Spec => []WaitersAreBacked
<1>1. GateInv /\ NoPhantomSlots => WaitersAreBacked
  BY DEF GateInv, QueueImpliesFull, NoPhantomSlots, WaitersAreBacked
<1> QED
  BY <1>1, GateInvariant, SlotsAreHeld, PTL

\* A request that holds a slot is counted, or its slot was taken from it.
HoldersCounted == Cardinality(Holders) <= activeCount + surplus

\* A release keeps the holders counted, if the step that calls it gives up
\* its own slot or takes one from its holder.
LEMMA ReleaseCounted ==
  ASSUME GateInv, HoldersCounted, NEW pcs, NEW extra \in 0..1, Leaves(pcs),
         Release(pcs, extra),
         Cardinality(HoldersOf(pcs)) + 1 <= Cardinality(HoldersOf(pc)) + extra
  PROVE  HoldersCounted'
<1> DEFINE n == Cardinality(HoldersOf(pc))
           m == Cardinality(HoldersOf(pcs))
           k == Cardinality(HoldersOf(pc'))
<1>1. n \in Nat /\ m \in Nat /\ k \in Nat /\ k <= AllRequests
      /\ AllRequests \in Nat
  BY HoldersFinite, HoldersBounded, AllCounted
<1>2. n <= activeCount + surplus /\ m + 1 <= n + extra
  BY DEF HoldersCounted, Holders, HoldersOf
<1>3. activeCount \in Nat /\ activeCount' \in Nat /\ surplus \in Nat
  BY ReleaseKeepsQueue, MaxAssumption DEF GateInv, TypeOK
<1> SUFFICES k <= activeCount' + surplus'
  BY DEF HoldersCounted, Holders, HoldersOf
<1>4. CASE Drop(pcs)
  <2>1. HoldersOf(pc') = HoldersOf(pcs)
    BY <1>4 DEF Drop, HoldersOf, Leaves
  <2>2. activeCount' = 0 /\ surplus' = m
    BY <1>4 DEF Drop
  <2> QED
    BY <1>1, <2>1, <2>2
<1>5. CASE HandOff(pcs, extra)
  <2> DEFINE h == Head(queue)
  <2>1. h \in Requests /\ pcs[h] = "queued"
    BY <1>5, HeadWaits DEF HandOff, Leaves
  <2>2. HoldersOf(pc') = HoldersOf(pcs) \cup {h} /\ h \notin HoldersOf(pcs)
    BY <1>5, <2>1 DEF HoldersOf, HandOff, Leaves
  <2>3. k = m + 1
    BY <2>1, <2>2, OneMore
  <2>4. activeCount' = activeCount
        /\ (surplus' = surplus + extra \/ surplus' = AllRequests)
    BY <1>5, TakenCounts DEF HandOff, HandedOver
  <2> QED
    BY <1>1, <1>2, <1>3, <2>3, <2>4
<1>6. CASE Decrement(pcs, extra)
  <2>1. k = m
    BY <1>6 DEF Decrement
  <2>2. /\ activeCount' = (IF activeCount > 0 THEN activeCount - 1
                                              ELSE activeCount)
        /\ (surplus' = surplus + extra \/ surplus' = AllRequests)
    BY <1>6, TakenCounts DEF Decrement, Decremented
  <2> QED
    BY <1>1, <1>2, <1>3, <2>1, <2>2
<1> QED
  BY <1>4, <1>5, <1>6 DEF Release

\* Every step keeps the holders counted.
LEMMA CountedStep ==
  ASSUME GateInv, HoldersCounted, [Next]_vars
  PROVE  HoldersCounted'
<1> DEFINE n == Cardinality(HoldersOf(pc))
           Goal == Cardinality(HoldersOf(pc')) <= activeCount' + surplus'
<1>1. n \in Nat /\ activeCount \in Nat /\ surplus \in Nat
  BY HoldersFinite, MaxAssumption, AllCounted DEF GateInv, TypeOK
<1>2. n <= activeCount + surplus
  BY DEF HoldersCounted, Holders, HoldersOf
<1>3. Goal => HoldersCounted'
  BY DEF HoldersCounted, Holders, HoldersOf
<1>4. ASSUME NEW r \in Requests, Acquire(r) PROVE HoldersCounted'
  <2>1. Cardinality(HoldersOf(pc')) = n + 1
    BY <1>4, HoldersAfter, OneMore DEF GateInv, Acquire
  <2> QED
    BY <1>1, <1>2, <1>3, <1>4, <2>1 DEF Acquire
<1>5. ASSUME NEW r \in Requests, Enqueue(r) PROVE HoldersCounted'
  BY <1>1, <1>2, <1>3, <1>5, HoldersAfter DEF GateInv, Enqueue
<1>6. ASSUME NEW r \in Requests, Respond(r) PROVE HoldersCounted'
  BY <1>1, <1>2, <1>3, <1>6, HoldersAfter DEF GateInv, Respond
<1>7. ASSUME NEW r \in Requests, Throw(r) PROVE HoldersCounted'
  <2> DEFINE pcs == [pc EXCEPT ![r] = "ending"]
  <2>1. Leaves(pcs) /\ Release(pcs, 1)
    BY <1>7 DEF GateInv, TypeOK, Leaves, Throw
  <2>2. HoldersOf(pcs) = HoldersOf(pc)
    BY <1>7, HoldersAfter DEF GateInv, Throw
  <2>3. Cardinality(HoldersOf(pcs)) + 1 <= n + 1
    BY <1>1, <2>2
  <2> HIDE DEF pcs
  <2> QED
    BY <2>1, <2>3, ReleaseCounted
<1>8. ASSUME NEW r \in Requests, Finish(r) PROVE HoldersCounted'
  <2> DEFINE pcs == [pc EXCEPT ![r] = "idle"]
  <2>1. Leaves(pcs) /\ Release(pcs, 0)
    BY <1>8 DEF GateInv, TypeOK, Leaves, Finish
  <2>2. n = Cardinality(HoldersOf(pcs)) + 1
    BY <1>8, HoldersAfter, OneMore DEF GateInv, Finish
  <2>3. Cardinality(HoldersOf(pcs)) + 1 <= n + 0
    BY <1>1, <2>2
  <2> HIDE DEF pcs
  <2> QED
    BY <2>1, <2>3, ReleaseCounted
<1>9. CASE StrayError
  <2>1. Leaves(pc) /\ Release(pc, 1)
    BY <1>9 DEF GateInv, TypeOK, Leaves, StrayError
  <2>2. n + 1 <= n + 1
    BY <1>1
  <2> QED
    BY <2>1, <2>2, ReleaseCounted
<1>10. ASSUME NEW r \in Requests, HangUp(r) PROVE HoldersCounted'
  BY <1>1, <1>2, <1>3, <1>10 DEF HangUp
<1>11. ASSUME NEW r \in Requests, Close(r) PROVE HoldersCounted'
  <2>1. n = Cardinality(HoldersOf(pc')) + 1
    BY <1>11, HoldersAfter, OneMore DEF GateInv, Close
  <2> QED
    BY <1>1, <1>2, <1>3, <1>11, <2>1, HoldersFinite DEF Close
<1>12. CASE Lapse \/ UNCHANGED vars
  BY <1>1, <1>2, <1>3, <1>12 DEF Lapse, vars
<1> QED
  BY <1>4, <1>5, <1>6, <1>7, <1>8, <1>9, <1>10, <1>11, <1>12 DEF Next

\* Whatever throws, strays, hangs up or times out, a handler too many needs a
\* slot that was taken from its holder.
THEOREM LimitHolds == Spec => []LimitUpToSurplus
<1>1. Init => HoldersCounted
  <2> SUFFICES ASSUME Init PROVE HoldersCounted
    OBVIOUS
  <2>1. Cardinality(Holders) = 0
    BY NobodyHolds, FS_EmptySet DEF Holders, HoldersOf
  <2> QED
    BY <2>1 DEF Init, HoldersCounted
<1>2. GateInv /\ HoldersCounted /\ [Next]_vars => HoldersCounted'
  BY CountedStep
<1>3. GateInv /\ HoldersCounted => LimitUpToSurplus
  <2> SUFFICES ASSUME GateInv, HoldersCounted PROVE LimitUpToSurplus
    OBVIOUS
  <2>1. IsFiniteSet(Holders) /\ Cardinality(Holders) \in Nat
    BY HoldersFinite DEF Holders, HoldersOf
  <2>2. Running \in SUBSET Holders
    BY DEF Holders, HoldersOf, Running
  <2>3. Cardinality(Running) <= Cardinality(Holders)
        /\ Cardinality(Running) \in Nat
    BY <2>1, <2>2, FS_Subset, FS_CardinalityType
  <2>4. activeCount \in Nat /\ activeCount <= maxConcurrent /\ surplus \in Nat
    BY MaxAssumption, AllCounted DEF GateInv, TypeOK
  <2> QED
    BY <2>1, <2>3, <2>4, MaxAssumption DEF LimitUpToSurplus, HoldersCounted
<1> QED
  BY <1>1, <1>2, <1>3, GateInvariant, PTL DEF Spec

-------------------------------------------------------------------------------
(* ServedInOrder.                                                          *)

\* A request in the queue waits.
LEMMA BeforeWaits ==
  ASSUME GateInv, NEW r \in Requests, NEW s \in Requests, Before(r, s)
  PROVE  pc[r] = "queued" /\ pc[s] = "queued"
  BY DEF GateInv, QueueIsWaiters, Waiting, Before

\* A step that leaves the queue and its waiters alone keeps the order.
LEMMA SameQueueInOrder ==
  ASSUME GateInv, queue' = queue,
         \A r \in Requests : pc'[r] = "queued" <=> pc[r] = "queued"
  PROVE  InOrder
<1>1. \A r, s \in Requests : Before(r, s)' = Before(r, s)
  BY DEF Before
<1> QED
  BY <1>1, BeforeWaits DEF InOrder

\* A hand-off takes the head away and moves everybody up by one.
LEMMA HandOffInOrder ==
  ASSUME GateInv, NEW pcs, NEW extra \in 0..1, Leaves(pcs), HandOff(pcs, extra)
  PROVE  InOrder
<1> SUFFICES ASSUME NEW r \in Requests, NEW s \in Requests
             PROVE  /\ pc[r] = "queued" /\ pc[s] # "queued" => ~Before(s, r)'
                    /\ Before(r, s) /\ pc'[r] = "queued" =>
                         IF pc'[s] = "queued" THEN Before(r, s)'
                                              ELSE pc'[s] # "running"
  BY DEF InOrder
<1>1. /\ queue \in Seq(Requests) /\ queue # <<>>
      /\ queue' = Tail(queue)
      /\ pc' = [pcs EXCEPT ![queue[1]] = "running"]
      /\ \A i, j \in DOMAIN queue : queue[i] = queue[j] => i = j
  BY DEF GateInv, TypeOK, QueueIsWaiters, HandOff
<1>2. /\ DOMAIN queue' = 1..(Len(queue) - 1)
      /\ \A i \in DOMAIN queue' : i + 1 \in DOMAIN queue
                                /\ queue'[i] = queue[i + 1]
  BY <1>1
<1>3. pc[s] # "queued" => ~Before(s, r)'
  BY <1>2 DEF Before, GateInv, QueueIsWaiters, Waiting
<1>4. ASSUME Before(r, s), pc'[r] = "queued"
      PROVE  pc'[s] = "queued" /\ Before(r, s)'
  <2>1. PICK i \in DOMAIN queue, j \in DOMAIN queue :
               i < j /\ queue[i] = r /\ queue[j] = s
    BY <1>4 DEF Before
  <2>2. i # 1
    BY <1>1, <1>4, <2>1 DEF Leaves
  <2>3. /\ i - 1 \in DOMAIN queue' /\ j - 1 \in DOMAIN queue'
        /\ i - 1 < j - 1
        /\ queue'[i - 1] = r /\ queue'[j - 1] = s
    BY <1>1, <1>2, <2>1, <2>2
  <2>4. s # queue[1] /\ pc[s] = "queued"
    BY <1>1, <1>4, <2>1, BeforeWaits
  <2> QED
    BY <1>1, <2>3, <2>4 DEF Before, Leaves
<1> QED
  BY <1>3, <1>4

\* A release keeps the order, whichever way it goes.
LEMMA ReleaseInOrder ==
  ASSUME GateInv, NEW pcs, NEW extra \in 0..1, Leaves(pcs), Release(pcs, extra)
  PROVE  InOrder
<1>1. CASE Drop(pcs)
  <2>1. \A r, s \in Requests : ~Before(r, s)' /\ pc'[r] # "queued"
    BY <1>1 DEF Drop, DroppedQueue, Before
  <2> QED
    BY <2>1 DEF InOrder
<1>2. CASE HandOff(pcs, extra)
  BY <1>2, HandOffInOrder
<1>3. CASE Decrement(pcs, extra)
  BY <1>3, SameQueueInOrder DEF Decrement, Leaves
<1> QED
  BY <1>1, <1>2, <1>3 DEF Release

\* A newcomer joins behind everybody.
LEMMA EnqueueInOrder ==
  ASSUME GateInv, NEW e \in Requests, Enqueue(e)
  PROVE  InOrder
<1>1. /\ queue \in Seq(Requests) /\ queue' = Append(queue, e)
      /\ pc' = [pc EXCEPT ![e] = "queued"]
      /\ pc \in [Requests -> {"idle", "queued", "running", "ending"}]
  BY DEF GateInv, TypeOK, Enqueue, Pushed
<1>2. /\ DOMAIN queue' = 1..(Len(queue) + 1)
      /\ DOMAIN queue = 1..Len(queue) /\ Len(queue) \in Nat
      /\ \A i \in DOMAIN queue : queue'[i] = queue[i]
  BY <1>1
<1>3. ASSUME NEW r \in Requests, NEW s \in Requests, Before(s, r)'
      PROVE  pc[s] = "queued"
  <2>1. PICK i \in DOMAIN queue', j \in DOMAIN queue' :
               i < j /\ queue'[i] = s
    BY <1>3 DEF Before
  <2>2. i \in DOMAIN queue /\ queue[i] = s
    BY <1>2, <2>1
  <2> QED
    BY <2>2 DEF GateInv, QueueIsWaiters, Waiting
<1>4. ASSUME NEW r \in Requests, NEW s \in Requests, Before(r, s)
      PROVE  pc'[s] = "queued" /\ Before(r, s)'
  <2>1. pc'[s] = "queued"
    BY <1>1, <1>4, BeforeWaits
  <2>2. Before(r, s)'
    BY <1>2, <1>4 DEF Before
  <2> QED
    BY <2>1, <2>2
<1> QED
  BY <1>3, <1>4 DEF InOrder

\* No step lets anybody overtake.
LEMMA StepInOrder == GateInv /\ [Next]_vars => [InOrder]_vars
<1> SUFFICES ASSUME GateInv, Next PROVE InOrder
  OBVIOUS
<1> USE DEF GateInv, TypeOK
<1>1. ASSUME NEW r \in Requests, Acquire(r) PROVE InOrder
  BY <1>1, SameQueueInOrder DEF Acquire
<1>2. ASSUME NEW r \in Requests, Enqueue(r) PROVE InOrder
  BY <1>2, EnqueueInOrder
<1>3. ASSUME NEW r \in Requests, Respond(r) PROVE InOrder
  BY <1>3, SameQueueInOrder DEF Respond
<1>4. ASSUME NEW r \in Requests, Throw(r) PROVE InOrder
  <2>1. Leaves([pc EXCEPT ![r] = "ending"])
    BY <1>4 DEF Throw, Leaves
  <2> QED
    BY <1>4, <2>1, ReleaseInOrder DEF Throw
<1>5. ASSUME NEW r \in Requests, Finish(r) PROVE InOrder
  <2>1. Leaves([pc EXCEPT ![r] = "idle"])
    BY <1>5 DEF Finish, Leaves
  <2> QED
    BY <1>5, <2>1, ReleaseInOrder DEF Finish
<1>6. ASSUME StrayError PROVE InOrder
  <2>1. Leaves(pc)
    BY DEF Leaves
  <2> QED
    BY <1>6, <2>1, ReleaseInOrder DEF StrayError
<1>7. ASSUME NEW r \in Requests, HangUp(r) PROVE InOrder
  BY <1>7, SameQueueInOrder DEF HangUp
<1>8. ASSUME NEW r \in Requests, Close(r) PROVE InOrder
  BY <1>8, SameQueueInOrder DEF Close
<1>9. ASSUME Lapse PROVE InOrder
  BY <1>9, SameQueueInOrder DEF Lapse
<1> QED
  BY <1>1, <1>2, <1>3, <1>4, <1>5, <1>6, <1>7, <1>8, <1>9 DEF Next

\* For any number of requests and in every environment, acquireLock, release
\* and drop keep the waiters in their order.
THEOREM NobodyOvertakes == Spec => ServedInOrder
  BY GateInvariant, StepInOrder, PTL DEF Spec, ServedInOrder
===============================================================================
