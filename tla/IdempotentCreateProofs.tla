------------------------ MODULE IdempotentCreateProofs ------------------------
(***************************************************************************)
(* Theorems about IdempotentCreate, for any number of requests, keys and   *)
(* processes: the lock counts its holders whatever the requests of one     *)
(* connection interleave; with one request per connection it excludes; and *)
(* a stored result is never passed over.                                   *)
(***************************************************************************)
EXTENDS IdempotentCreate, FiniteSetTheorems, TLAPS

-------------------------------------------------------------------------------
(* Type correctness.                                                       *)

\* The holders of a lock can be counted.
LEMMA HoldersFinite ==
  ASSUME NEW k
  PROVE  /\ IsFiniteSet(Holders(k))
         /\ Cardinality(Holders(k)) \in Nat
         /\ \A S : /\ IsFiniteSet(Holders(k) \cap S)
                   /\ Cardinality(Holders(k) \cap S) \in Nat
  BY RequestsAssumption, FS_Subset, FS_Intersection, FS_CardinalityType
  DEF Holders

\* The initial states are well typed.
LEMMA TypeInit == Init => TypeOK
  BY BoundAssumption DEF Init, TypeOK

\* Every step keeps the types.
LEMMA TypeStep == TypeOK /\ [Next]_vars => TypeOK'
<1> SUFFICES ASSUME TypeOK, [Next]_vars PROVE TypeOK'
  OBVIOUS
<1> USE KeyOfAssumption, InstOfAssumption, BoundAssumption
    DEF TypeOK, redisVars, Waiting, Holding, Ended
<1>1. ASSUME NEW r \in Requests, Arrive(r) PROVE TypeOK'
  BY <1>1 DEF Arrive, Go
<1>2. ASSUME NEW r \in Requests, Watch(r) PROVE TypeOK'
  BY <1>2 DEF Watch, Go
<1>3. ASSUME NEW r \in Requests, Get(r) PROVE TypeOK'
  BY <1>3 DEF Get, Go
<1>4. ASSUME NEW r \in Requests, Unwatch(r) PROVE TypeOK'
  BY <1>4 DEF Unwatch, Go, EndWatch
<1>5. ASSUME NEW r \in Requests, Exec(r) PROVE TypeOK'
  BY <1>5 DEF Exec, Go, Increment, EndWatch, Renewed
<1>6. ASSUME NEW r \in Requests, ExecConflict(r) PROVE TypeOK'
  BY <1>6 DEF ExecConflict, Go, EndWatch
<1>7. ASSUME NEW r \in Requests, Retry(r) PROVE TypeOK'
  BY <1>7 DEF Retry, Go, InTime
<1>8. ASSUME NEW r \in Requests, TimeOut(r) PROVE TypeOK'
  BY <1>8 DEF TimeOut, Go
<1>9. ASSUME NEW r \in Requests, Lookup(r) PROVE TypeOK'
  BY <1>9 DEF Lookup, Go
<1>10. ASSUME NEW r \in Requests, Replay(r) PROVE TypeOK'
  BY <1>10 DEF Replay, Go, Decrement, Decremented, Touch
<1>11. ASSUME NEW r \in Requests, Create(r) PROVE TypeOK'
  BY <1>11 DEF Create, Go
<1>12. ASSUME NEW r \in Requests, Finish(r) PROVE TypeOK'
  BY <1>12 DEF Finish, Go, Decrement, Decremented, Touch
<1>13. ASSUME NEW r \in Requests, Store(r) PROVE TypeOK'
  BY <1>13 DEF Store, Go
<1>14. ASSUME NEW r \in Requests, HangUp(r) PROVE TypeOK'
  BY <1>14 DEF HangUp, Go, Leak
<1>15. ASSUME NEW r \in Requests, AcquireFails(r) PROVE TypeOK'
  <2>1. CASE UNCHANGED <<redisVars, leaked>>
    BY <1>15, <2>1 DEF AcquireFails, Go
  <2>2. CASE Increment(r) /\ Leak(r)
    BY <1>15, <2>2 DEF AcquireFails, Go, Increment, EndWatch, Renewed, Leak
  <2> QED
    BY <1>15, <2>1, <2>2 DEF AcquireFails
<1>16. ASSUME NEW r \in Requests, HolderFails(r) PROVE TypeOK'
  <2>1. CASE Leak(r) /\ UNCHANGED redisVars
    BY <1>16, <2>1 DEF HolderFails, Go, Leak
  <2>2. CASE Decrement(r) /\ UNCHANGED leaked
    BY <1>16, <2>2 DEF HolderFails, Go, Decrement, Decremented, Touch
  <2> QED
    BY <1>16, <2>1, <2>2 DEF HolderFails
<1>17. ASSUME NEW k \in IdemKeys, Expire(k) PROVE TypeOK'
  BY <1>17 DEF Expire, Touch
<1>18. ASSUME NEW i \in Instances, Crash(i) PROVE TypeOK'
  <2>1. \A k \in IdemKeys : Cardinality(Holders(k) \cap ServedBy(i)) \in Nat
    BY HoldersFinite
  <2> QED
    BY <1>18, <2>1 DEF Crash, EndWatch
<1>19. CASE Quiet \/ UNCHANGED vars
  BY <1>19 DEF Quiet, vars
<1> QED
  BY <1>1, <1>2, <1>3, <1>4, <1>5, <1>6, <1>7, <1>8, <1>9, <1>10, <1>11, <1>12,
     <1>13, <1>14, <1>15, <1>16, <1>17, <1>18, <1>19 DEF Next, Waits, Holds,
     Fails

\* Every variable keeps its type.
THEOREM TypeCorrect == Spec => []TypeOK
  BY TypeInit, TypeStep, PTL DEF Spec

-------------------------------------------------------------------------------
(* LockAccounted.                                                          *)

\* A step of r within, or outside, its critical section changes no lock's
\* holders.
LEMMA SameHolders ==
  ASSUME TypeOK, NEW r \in Requests, NEW step, Go(r, step),
         pc[r] \in Holding <=> step \in Holding
  PROVE  \A k \in IdemKeys : Holders(k)' = Holders(k)
  BY DEF TypeOK, Go, Holders

\* A request that enters is one holder more of its own lock.
LEMMA MoreHolders ==
  ASSUME TypeOK, NEW r \in Requests, NEW step, Go(r, step),
         pc[r] \notin Holding, step \in Holding, NEW k \in IdemKeys
  PROVE  Cardinality(Holders(k)') =
           IF k = KeyOf[r] THEN Cardinality(Holders(k)) + 1
                           ELSE Cardinality(Holders(k))
<1>1. r \notin Holders(k)
  BY DEF Holders
<1>2. Holders(k)' = IF k = KeyOf[r] THEN Holders(k) \cup {r} ELSE Holders(k)
  BY DEF TypeOK, Go, Holders
<1> QED
  BY <1>1, <1>2, HoldersFinite, FS_AddElement

\* A request that leaves is one holder less of its own lock.
LEMMA FewerHolders ==
  ASSUME TypeOK, NEW r \in Requests, NEW step, Go(r, step),
         pc[r] \in Holding, step \notin Holding, NEW k \in IdemKeys
  PROVE  Cardinality(Holders(k)') =
           IF k = KeyOf[r] THEN Cardinality(Holders(k)) - 1
                           ELSE Cardinality(Holders(k))
<1>1. k = KeyOf[r] => r \in Holders(k)
  BY DEF Holders
<1>2. Holders(k)' = IF k = KeyOf[r] THEN Holders(k) \ {r} ELSE Holders(k)
  BY DEF TypeOK, Go, Holders
<1> QED
  BY <1>1, <1>2, HoldersFinite, FS_RemoveElement

\* Every step keeps count and holders in balance, if no lock expires under a
\* holder.
LEMMA AccountedStep ==
  ASSUME "ttl" \notin Env, TypeOK, LockAccounted, [Next]_vars
  PROVE  LockAccounted'
<1> USE KeyOfAssumption DEF LockAccounted, Holding, Waiting, Ended
<1>1. ASSUME NEW r \in Requests, Arrive(r) PROVE LockAccounted'
  <2>1. Go(r, "watch") /\ pc[r] = "idle"
    BY <1>1 DEF Arrive
  <2>2. \A k \in IdemKeys : Holders(k)' = Holders(k)
    BY <2>1, SameHolders
  <2>3. UNCHANGED <<count, leaked>>
    BY <1>1 DEF Arrive, redisVars
  <2> QED
    BY <2>2, <2>3
<1>2. ASSUME NEW r \in Requests, Watch(r) PROVE LockAccounted'
  <2>1. Go(r, "get") /\ pc[r] = "watch"
    BY <1>2 DEF Watch
  <2>2. \A k \in IdemKeys : Holders(k)' = Holders(k)
    BY <2>1, SameHolders
  <2>3. UNCHANGED <<count, leaked>>
    BY <1>2 DEF Watch, redisVars
  <2> QED
    BY <2>2, <2>3
<1>3. ASSUME NEW r \in Requests, Get(r) PROVE LockAccounted'
  <2>1. (Go(r, "exec") \/ Go(r, "unwatch")) /\ pc[r] = "get"
    BY <1>3 DEF Get
  <2>2. \A k \in IdemKeys : Holders(k)' = Holders(k)
    BY <2>1, SameHolders
  <2>3. UNCHANGED <<count, leaked>>
    BY <1>3 DEF Get, redisVars
  <2> QED
    BY <2>2, <2>3
<1>4. ASSUME NEW r \in Requests, Unwatch(r) PROVE LockAccounted'
  <2>1. Go(r, "backoff") /\ pc[r] = "unwatch"
    BY <1>4 DEF Unwatch
  <2>2. \A k \in IdemKeys : Holders(k)' = Holders(k)
    BY <2>1, SameHolders
  <2>3. UNCHANGED <<count, leaked>>
    BY <1>4 DEF Unwatch, redisVars
  <2> QED
    BY <2>2, <2>3
<1>5. ASSUME NEW r \in Requests, Exec(r) PROVE LockAccounted'
  <2>1. Go(r, "lookup") /\ pc[r] = "exec"
    BY <1>5 DEF Exec
  <2>2. count' = [count EXCEPT ![KeyOf[r]] = @ + 1] /\ leaked' = leaked
    BY <1>5 DEF Exec, Increment
  <2> QED
    BY <2>1, <2>2, MoreHolders, HoldersFinite DEF TypeOK
<1>6. ASSUME NEW r \in Requests, ExecConflict(r) PROVE LockAccounted'
  <2>1. (Go(r, "backoff") \/ Go(r, "failed")) /\ pc[r] = "exec"
    BY <1>6 DEF ExecConflict
  <2>2. \A k \in IdemKeys : Holders(k)' = Holders(k)
    BY <2>1, SameHolders
  <2>3. UNCHANGED <<count, leaked>>
    BY <1>6 DEF ExecConflict, redisVars
  <2> QED
    BY <2>2, <2>3
<1>7. ASSUME NEW r \in Requests, Retry(r) PROVE LockAccounted'
  <2>1. Go(r, "watch") /\ pc[r] = "backoff"
    BY <1>7 DEF Retry
  <2>2. \A k \in IdemKeys : Holders(k)' = Holders(k)
    BY <2>1, SameHolders
  <2>3. UNCHANGED <<count, leaked>>
    BY <1>7 DEF Retry, redisVars
  <2> QED
    BY <2>2, <2>3
<1>8. ASSUME NEW r \in Requests, TimeOut(r) PROVE LockAccounted'
  <2>1. Go(r, "failed") /\ pc[r] = "backoff"
    BY <1>8 DEF TimeOut
  <2>2. \A k \in IdemKeys : Holders(k)' = Holders(k)
    BY <2>1, SameHolders
  <2>3. UNCHANGED <<count, leaked>>
    BY <1>8 DEF TimeOut, redisVars
  <2> QED
    BY <2>2, <2>3
<1>9. ASSUME NEW r \in Requests, Lookup(r) PROVE LockAccounted'
  <2>1. (Go(r, "replay") \/ Go(r, "create")) /\ pc[r] = "lookup"
    BY <1>9 DEF Lookup
  <2>2. \A k \in IdemKeys : Holders(k)' = Holders(k)
    BY <2>1, SameHolders
  <2>3. UNCHANGED <<count, leaked>>
    BY <1>9 DEF Lookup, redisVars
  <2> QED
    BY <2>2, <2>3
<1>10. ASSUME NEW r \in Requests, Replay(r) PROVE LockAccounted'
  <2>1. Go(r, "done") /\ pc[r] = "replay"
    BY <1>10 DEF Replay
  <2>2. count' = [count EXCEPT ![KeyOf[r]] = @ - 1] /\ leaked' = leaked
    BY <1>10 DEF Replay, Decrement, Decremented
  <2> QED
    BY <2>1, <2>2, FewerHolders, HoldersFinite DEF TypeOK
<1>11. ASSUME NEW r \in Requests, Create(r) PROVE LockAccounted'
  <2>1. Go(r, "finish") /\ pc[r] = "create"
    BY <1>11 DEF Create
  <2>2. \A k \in IdemKeys : Holders(k)' = Holders(k)
    BY <2>1, SameHolders
  <2>3. UNCHANGED <<count, leaked>>
    BY <1>11 DEF Create, redisVars
  <2> QED
    BY <2>2, <2>3
<1>12. ASSUME NEW r \in Requests, Finish(r) PROVE LockAccounted'
  <2>1. (Go(r, "store") \/ Go(r, "done")) /\ pc[r] = "finish"
    BY <1>12 DEF Finish
  <2>2. count' = [count EXCEPT ![KeyOf[r]] = @ - 1] /\ leaked' = leaked
    BY <1>12 DEF Finish, Decrement, Decremented
  <2> QED
    BY <2>1, <2>2, FewerHolders, HoldersFinite DEF TypeOK
<1>13. ASSUME NEW r \in Requests, Store(r) PROVE LockAccounted'
  <2>1. Go(r, "done") /\ pc[r] = "store"
    BY <1>13 DEF Store
  <2>2. \A k \in IdemKeys : Holders(k)' = Holders(k)
    BY <2>1, SameHolders
  <2>3. UNCHANGED <<count, leaked>>
    BY <1>13 DEF Store, redisVars
  <2> QED
    BY <2>2, <2>3
<1>14. ASSUME NEW r \in Requests, HangUp(r) PROVE LockAccounted'
  <2>1. Go(r, "done") /\ pc[r] = "finish"
    BY <1>14 DEF HangUp
  <2>2. leaked' = [leaked EXCEPT ![KeyOf[r]] = @ + 1] /\ count' = count
    BY <1>14 DEF HangUp, Leak, redisVars
  <2> QED
    BY <2>1, <2>2, FewerHolders, HoldersFinite DEF TypeOK
<1>15. ASSUME NEW r \in Requests, AcquireFails(r) PROVE LockAccounted'
  <2>1. \A k \in IdemKeys : Holders(k)' = Holders(k)
    BY <1>15, SameHolders DEF AcquireFails
  <2>2. CASE UNCHANGED <<redisVars, leaked>>
    BY <2>1, <2>2 DEF redisVars
  <2>3. CASE Increment(r) /\ Leak(r)
    BY <2>1, <2>3, HoldersFinite DEF TypeOK, Increment, Leak
  <2> QED
    BY <1>15, <2>2, <2>3 DEF AcquireFails
<1>16. ASSUME NEW r \in Requests, HolderFails(r) PROVE LockAccounted'
  <2>1. Go(r, "failed") /\ pc[r] \in Holding
    BY <1>16 DEF HolderFails, Holding
  <2>2. CASE Leak(r) /\ UNCHANGED redisVars
    <3>1. leaked' = [leaked EXCEPT ![KeyOf[r]] = @ + 1] /\ count' = count
      BY <2>2 DEF Leak, redisVars
    <3> QED
      BY <2>1, <3>1, FewerHolders, HoldersFinite DEF TypeOK
  <2>3. CASE Decrement(r) /\ UNCHANGED leaked
    <3>1. count' = [count EXCEPT ![KeyOf[r]] = @ - 1] /\ leaked' = leaked
      BY <2>3 DEF Decrement, Decremented
    <3> QED
      BY <2>1, <3>1, FewerHolders, HoldersFinite DEF TypeOK
  <2> QED
    BY <1>16, <2>2, <2>3 DEF HolderFails
<1>17. ASSUME NEW k \in IdemKeys, Expire(k) PROVE LockAccounted'
  <2>1. pc' = pc /\ Holders(k) = {}
    BY <1>17 DEF Expire, May
  <2>2. \A j \in IdemKeys : Holders(j)' = Holders(j)
    BY <2>1 DEF Holders
  <2>3. Cardinality(Holders(k)) = 0
    BY <2>1, FS_EmptySet
  <2> QED
    BY <1>17, <2>2, <2>3 DEF Expire, TypeOK
<1>18. ASSUME NEW i \in Instances, Crash(i) PROVE LockAccounted'
  <2> SUFFICES ASSUME NEW k \in IdemKeys
               PROVE  count'[k] = Cardinality(Holders(k)') + leaked'[k]
    OBVIOUS
  <2> DEFINE H == Holders(k)
             S == ServedBy(i)
  <2>1. Holders(k)' = H \ S
    BY <1>18 DEF Crash, Holders, ServedBy, Holding, Ended, TypeOK
  <2>2. Cardinality(H \ S) = Cardinality(H) - Cardinality(H \cap S)
    BY HoldersFinite, FS_Difference
  <2>3. count'[k] = count[k] /\ leaked'[k] = leaked[k] + Cardinality(H \cap S)
    BY <1>18 DEF Crash
  <2>4. Cardinality(H) \in Nat /\ Cardinality(H \cap S) \in Nat
    BY HoldersFinite
  <2>5. count[k] \in Int /\ leaked[k] \in Nat
    BY DEF TypeOK
  <2>6. count[k] = Cardinality(H) + leaked[k]
    BY DEF LockAccounted
  <2>7. Cardinality(Holders(k)') = Cardinality(H \ S)
    BY <2>1
  <2> HIDE DEF H, S
  <2> QED
    BY <2>2, <2>3, <2>4, <2>5, <2>6, <2>7
<1>19. CASE Quiet \/ UNCHANGED vars
  BY <1>19 DEF Quiet, vars, redisVars, Holders
<1> QED
  BY <1>1, <1>2, <1>3, <1>4, <1>5, <1>6, <1>7, <1>8, <1>9, <1>10, <1>11, <1>12,
     <1>13, <1>14, <1>15, <1>16, <1>17, <1>18, <1>19 DEF Next, Waits, Holds,
     Fails

\* At first nobody holds a lock and no lock is taken.
LEMMA AccountedInit == Init => LockAccounted
<1> SUFFICES ASSUME Init, NEW k \in IdemKeys
             PROVE  count[k] = Cardinality(Holders(k)) + leaked[k]
  BY DEF LockAccounted
<1>1. Holders(k) = {}
  BY DEF Init, Holders, Holding
<1> QED
  BY <1>1, FS_EmptySet DEF Init

\* The lock counts its holders and those that died, on shared connections too.
THEOREM LockCountsHolders ==
  ASSUME "ttl" \notin Env PROVE Spec => []LockAccounted
<1>1. TypeOK /\ LockAccounted /\ [Next]_vars => LockAccounted'
  BY AccountedStep
<1> QED
  BY <1>1, AccountedInit, TypeCorrect, PTL DEF Spec

-------------------------------------------------------------------------------
(* OneAtATime.                                                             *)

\* No two requests have a connection in common.
OwnConnection == \A r, s \in Requests : InstOf[r] = InstOf[s] => r = s

\* A request between WATCH and EXEC still watches its lock; as long as the
\* connection is untouched, what it read still holds; so no EXEC overshoots.
WatchInv ==
  /\ \A r \in Requests :
       pc[r] \in {"get", "exec"} => KeyOf[r] \in watched[InstOf[r]]
  /\ \A r \in Requests :
       pc[r] = "exec" /\ ~dirty[InstOf[r]] => Free(KeyOf[r])
  /\ \A k \in IdemKeys : count[k] <= maxConcurrentRequests

\* An EXEC raises the count of a lock that was free, and every other request
\* that has read the old count is made to notice.
LEMMA IncrementKeepsWatch ==
  ASSUME OwnConnection, TypeOK, WatchInv, NEW r \in Requests, pc[r] = "exec",
         Unchanged(InstOf[r]), Increment(r),
         NEW step, step \notin {"get", "exec"}, Go(r, step)
  PROVE  WatchInv'
<1> USE KeyOfAssumption, InstOfAssumption
<1>1. \A s \in Requests : pc'[s] \in {"get", "exec"} =>
        /\ pc[s] = pc'[s] /\ InstOf[s] # InstOf[r]
        /\ watched'[InstOf[s]] = watched[InstOf[s]]
        /\ dirty'[InstOf[s]] =
             (dirty[InstOf[s]] \/ KeyOf[r] \in watched[InstOf[s]])
  BY DEF OwnConnection, TypeOK, Go, Increment, EndWatch
<1>2. /\ count' = [count EXCEPT ![KeyOf[r]] = @ + 1]
      /\ count[KeyOf[r]] < maxConcurrentRequests
  BY DEF WatchInv, Increment, Free, Unchanged
<1>3. \A s \in Requests :
        pc'[s] \in {"get", "exec"} => KeyOf[s] \in watched'[InstOf[s]]
  BY <1>1 DEF WatchInv
<1>4. \A s \in Requests :
        pc'[s] = "exec" /\ ~dirty'[InstOf[s]] =>
          count'[KeyOf[s]] < maxConcurrentRequests
  BY <1>1, <1>2 DEF WatchInv, Free, TypeOK
<1>5. \A k \in IdemKeys : count'[k] <= maxConcurrentRequests
  BY <1>2, BoundAssumption DEF WatchInv, TypeOK
<1> QED
  BY <1>3, <1>4, <1>5 DEF WatchInv, Free

\* Every step keeps what a request knows between WATCH and EXEC.
LEMMA WatchStep ==
  ASSUME OwnConnection, TypeOK, WatchInv, [Next]_vars
  PROVE  WatchInv'
<1> USE KeyOfAssumption, InstOfAssumption, BoundAssumption
    DEF OwnConnection, TypeOK, WatchInv, Free, Unchanged, redisVars, Waiting,
        Holding, Ended
<1>1. ASSUME NEW r \in Requests, Arrive(r) PROVE WatchInv'
  BY <1>1 DEF Arrive, Go
<1>2. ASSUME NEW r \in Requests, Watch(r) PROVE WatchInv'
  BY <1>2 DEF Watch, Go
<1>3. ASSUME NEW r \in Requests, Get(r) PROVE WatchInv'
  BY <1>3 DEF Get, Go
<1>4. ASSUME NEW r \in Requests, Unwatch(r) PROVE WatchInv'
  BY <1>4 DEF Unwatch, Go, EndWatch
<1>5. ASSUME NEW r \in Requests, Exec(r) PROVE WatchInv'
  BY <1>5, IncrementKeepsWatch DEF Exec
<1>6. ASSUME NEW r \in Requests, ExecConflict(r) PROVE WatchInv'
  BY <1>6 DEF ExecConflict, Go, EndWatch
<1>7. ASSUME NEW r \in Requests, Retry(r) PROVE WatchInv'
  BY <1>7 DEF Retry, Go, InTime
<1>8. ASSUME NEW r \in Requests, TimeOut(r) PROVE WatchInv'
  BY <1>8 DEF TimeOut, Go
<1>9. ASSUME NEW r \in Requests, Lookup(r) PROVE WatchInv'
  BY <1>9 DEF Lookup, Go
<1>10. ASSUME NEW r \in Requests, Replay(r) PROVE WatchInv'
  BY <1>10 DEF Replay, Go, Decrement, Decremented, Touch
<1>11. ASSUME NEW r \in Requests, Create(r) PROVE WatchInv'
  BY <1>11 DEF Create, Go
<1>12. ASSUME NEW r \in Requests, Finish(r) PROVE WatchInv'
  BY <1>12 DEF Finish, Go, Decrement, Decremented, Touch
<1>13. ASSUME NEW r \in Requests, Store(r) PROVE WatchInv'
  BY <1>13 DEF Store, Go
<1>14. ASSUME NEW r \in Requests, HangUp(r) PROVE WatchInv'
  BY <1>14 DEF HangUp, Go, Leak
<1>15. ASSUME NEW r \in Requests, AcquireFails(r) PROVE WatchInv'
  <2>1. CASE UNCHANGED <<redisVars, leaked>>
    BY <1>15, <2>1 DEF AcquireFails, Go
  <2>2. CASE pc[r] = "exec" /\ Unchanged(InstOf[r]) /\ Increment(r)
    BY <1>15, <2>2, IncrementKeepsWatch DEF AcquireFails
  <2> QED
    BY <1>15, <2>1, <2>2 DEF AcquireFails
<1>16. ASSUME NEW r \in Requests, HolderFails(r) PROVE WatchInv'
  BY <1>16 DEF HolderFails, Go, Decrement, Decremented, Touch, Leak
<1>17. ASSUME NEW k \in IdemKeys, Expire(k) PROVE WatchInv'
  BY <1>17 DEF Expire, Touch
<1>18. ASSUME NEW i \in Instances, Crash(i) PROVE WatchInv'
  BY <1>18 DEF Crash, EndWatch
<1>19. CASE Quiet \/ UNCHANGED vars
  BY <1>19 DEF Quiet, vars
<1> QED
  BY <1>1, <1>2, <1>3, <1>4, <1>5, <1>6, <1>7, <1>8, <1>9, <1>10, <1>11, <1>12,
     <1>13, <1>14, <1>15, <1>16, <1>17, <1>18, <1>19 DEF Next, Waits, Holds,
     Fails

\* With a connection to itself, a request holds its lock alone.
THEOREM LockExcludes ==
  ASSUME OwnConnection, "ttl" \notin Env
  PROVE  Spec => []OneAtATime
<1>1. Init => WatchInv
  BY BoundAssumption DEF Init, WatchInv
<1>2. TypeOK /\ WatchInv /\ [Next]_vars => WatchInv'
  BY WatchStep
<1>3. TypeOK /\ WatchInv /\ LockAccounted => OneAtATime
  BY HoldersFinite, BoundAssumption
  DEF TypeOK, WatchInv, LockAccounted, OneAtATime
<1> QED
  BY <1>1, <1>2, <1>3, TypeCorrect, LockCountsHolders, PTL DEF Spec

-------------------------------------------------------------------------------
(* RepeatAfterStoreIsReplayed.                                             *)

\* Only a request that has created is past its creation with a success, and
\* whoever found a stored result does not get there.
RepeatInv ==
  /\ \A r \in Requests : ok[r] => pc[r] \in {"finish", "store"} \cup Ended
  /\ \A r \in Requests :
       found[r] = "stored" => stored[KeyOf[r]] /\ ~ok[r] /\ pc[r] # "create"

\* Every step keeps RepeatInv: a stored result stays, and whoever found it
\* never gets to create.
LEMMA RepeatStep ==
  ASSUME TypeOK, RepeatInv, [Next]_vars
  PROVE  RepeatInv'
<1> USE KeyOfAssumption
    DEF TypeOK, RepeatInv, Cached, redisVars, Waiting, Holding, Ended
<1>1. ASSUME NEW r \in Requests, Arrive(r) PROVE RepeatInv'
  BY <1>1 DEF Arrive, Go
<1>2. ASSUME NEW r \in Requests, Watch(r) PROVE RepeatInv'
  BY <1>2 DEF Watch, Go
<1>3. ASSUME NEW r \in Requests, Get(r) PROVE RepeatInv'
  BY <1>3 DEF Get, Go
<1>4. ASSUME NEW r \in Requests, Unwatch(r) PROVE RepeatInv'
  BY <1>4 DEF Unwatch, Go, EndWatch
<1>5. ASSUME NEW r \in Requests, Exec(r) PROVE RepeatInv'
  BY <1>5 DEF Exec, Go, Increment, EndWatch, Renewed
<1>6. ASSUME NEW r \in Requests, ExecConflict(r) PROVE RepeatInv'
  BY <1>6 DEF ExecConflict, Go, EndWatch
<1>7. ASSUME NEW r \in Requests, Retry(r) PROVE RepeatInv'
  BY <1>7 DEF Retry, Go, InTime
<1>8. ASSUME NEW r \in Requests, TimeOut(r) PROVE RepeatInv'
  BY <1>8 DEF TimeOut, Go
<1>9. ASSUME NEW r \in Requests, Lookup(r) PROVE RepeatInv'
  BY <1>9 DEF Lookup, Go
<1>10. ASSUME NEW r \in Requests, Replay(r) PROVE RepeatInv'
  BY <1>10 DEF Replay, Go, Decrement, Decremented, Touch
<1>11. ASSUME NEW r \in Requests, Create(r) PROVE RepeatInv'
  BY <1>11 DEF Create, Go
<1>12. ASSUME NEW r \in Requests, Finish(r) PROVE RepeatInv'
  BY <1>12 DEF Finish, Go, Decrement, Decremented, Touch
<1>13. ASSUME NEW r \in Requests, Store(r) PROVE RepeatInv'
  BY <1>13 DEF Store, Go
<1>14. ASSUME NEW r \in Requests, HangUp(r) PROVE RepeatInv'
  BY <1>14 DEF HangUp, Go, Leak
<1>15. ASSUME NEW r \in Requests, AcquireFails(r) PROVE RepeatInv'
  BY <1>15 DEF AcquireFails, Go, Increment, EndWatch, Renewed, Leak
<1>16. ASSUME NEW r \in Requests, HolderFails(r) PROVE RepeatInv'
  BY <1>16 DEF HolderFails, Go, Decrement, Decremented, Touch, Leak
<1>17. ASSUME NEW k \in IdemKeys, Expire(k) PROVE RepeatInv'
  BY <1>17 DEF Expire, Touch
<1>18. ASSUME NEW i \in Instances, Crash(i) PROVE RepeatInv'
  BY <1>18 DEF Crash, EndWatch
<1>19. CASE Quiet \/ UNCHANGED vars
  BY <1>19 DEF Quiet, vars
<1> QED
  BY <1>1, <1>2, <1>3, <1>4, <1>5, <1>6, <1>7, <1>8, <1>9, <1>10, <1>11, <1>12,
     <1>13, <1>14, <1>15, <1>16, <1>17, <1>18, <1>19 DEF Next, Waits, Holds,
     Fails

\* A stored result is replayed to all who come after it, in every environment.
THEOREM RepeatsAreReplayed == Spec => []RepeatAfterStoreIsReplayed
<1>1. Init => RepeatInv
  BY DEF Init, RepeatInv
<1>2. TypeOK /\ RepeatInv /\ [Next]_vars => RepeatInv'
  BY RepeatStep
<1>3. RepeatInv => RepeatAfterStoreIsReplayed
  BY DEF RepeatInv, RepeatAfterStoreIsReplayed
<1> QED
  BY <1>1, <1>2, <1>3, TypeCorrect, PTL DEF Spec

-------------------------------------------------------------------------------
(* TakenLocksExpire.                                                       *)

\* Only EXEC raises a count, and it sets the time to live with it.
LEMMA ExpireStep ==
  ASSUME TypeOK, TakenLocksExpire, [Next]_vars
  PROVE  TakenLocksExpire'
<1> USE KeyOfAssumption DEF TypeOK, TakenLocksExpire, redisVars
<1>1. ASSUME NEW r \in Requests, Arrive(r) \/ Waits(r) PROVE TakenLocksExpire'
  BY <1>1 DEF Arrive, Waits, Watch, Get, Unwatch, Exec, ExecConflict, Retry,
     TimeOut, Increment, Renewed
<1>2. ASSUME NEW r \in Requests, Decrement(r) PROVE TakenLocksExpire'
  BY <1>2 DEF Decrement, Decremented
<1>3. ASSUME NEW r \in Requests, Holds(r) PROVE TakenLocksExpire'
  BY <1>3, <1>2 DEF Holds, Lookup, Replay, Create, Finish, Store
<1>4. ASSUME NEW r \in Requests, AcquireFails(r) PROVE TakenLocksExpire'
  BY <1>4 DEF AcquireFails, Increment, Renewed
<1>5. ASSUME NEW r \in Requests, HangUp(r) \/ HolderFails(r)
      PROVE  TakenLocksExpire'
  BY <1>5, <1>2 DEF HangUp, HolderFails
<1>6. ASSUME NEW k \in IdemKeys, Expire(k) PROVE TakenLocksExpire'
  BY <1>6 DEF Expire
<1>7. ASSUME NEW i \in Instances, Crash(i) PROVE TakenLocksExpire'
  BY <1>7 DEF Crash
<1>8. CASE Quiet \/ UNCHANGED vars
  BY <1>8 DEF Quiet, vars
<1> QED
  BY <1>1, <1>3, <1>4, <1>5, <1>6, <1>7, <1>8 DEF Next, Fails

\* No lock is taken without a time to live, on shared connections and under
\* slow holders too.
THEOREM LocksExpire == Spec => []TakenLocksExpire
<1>1. Init => TakenLocksExpire
  BY DEF Init, TakenLocksExpire
<1>2. TypeOK /\ TakenLocksExpire /\ [Next]_vars => TakenLocksExpire'
  BY ExpireStep
<1> QED
  BY <1>1, <1>2, TypeCorrect, PTL DEF Spec

-------------------------------------------------------------------------------
(* ImplementsLock.                                                         *)

AbstractPhase == [r \in Requests |-> Phase(pc[r])]
AbstractDue == [r \in Requests |-> found[r] = "stored"]

\* What a request goes through on the way to its end.
LEMMA Phases ==
  /\ Phase("idle") = "new"
  /\ \A s \in Waiting : Phase(s) = "waiting"
  /\ \A s \in Holding : Phase(s) = "inside"
  /\ Phase("store") = "storing"
  /\ \A s \in Ended : Phase(s) = "gone"
  BY DEF Phase, Waiting, Holding, Ended

\* A step of the program counter is a step of the phase.
LEMMA PhaseGoes ==
  ASSUME TypeOK, NEW r \in Requests, NEW step, Go(r, step)
  PROVE  AbstractPhase' = [AbstractPhase EXCEPT ![r] = Phase(step)]
  BY DEF TypeOK, Go, AbstractPhase

\* A step that stays within a phase changes none.
LEMMA PhaseStays ==
  ASSUME TypeOK, NEW r \in Requests, NEW step, Go(r, step),
         Phase(step) = Phase(pc[r])
  PROVE  AbstractPhase' = AbstractPhase
  BY DEF TypeOK, Go, AbstractPhase

\* Who is inside holds the lock.
LEMMA InsideHolds ==
  ASSUME TypeOK, NEW k \in IdemKeys
  PROVE  Abstract!Inside(k) = Holders(k)
<1>1. \A r \in Requests : Phase(pc[r]) = "inside" <=> pc[r] \in Holding
  BY Phases DEF TypeOK, Waiting, Holding, Ended
<1> QED
  BY <1>1 DEF Abstract!Inside, Holders

\* ReplayLock counts as FiniteSets does.
LEMMA SameCardinality ==
  ASSUME NEW S PROVE Abstract!Cardinality(S) = Cardinality(S)
  BY DEF Abstract!Cardinality, Cardinality

\* A lock is free exactly when its key has room.
LEMMA FreeIsRoom ==
  ASSUME TypeOK, LockAccounted, NEW k \in IdemKeys
  PROVE  Free(k) <=> Abstract!HasRoom(k)
  BY InsideHolds, SameCardinality DEF LockAccounted, Free, Abstract!HasRoom

\* The initial states are initial states of ReplayLock.
LEMMA AbstractInit == Init => Abstract!Init
  BY Phases DEF Init, Abstract!Init

\* What the steps of ReplayLock are made from.
Refines == Abstract!Next \/ UNCHANGED Abstract!vars

\* A step within a phase that leaves locks and results alone shows nothing.
LEMMA Stutters ==
  ASSUME TypeOK, NEW r \in Requests, NEW step, Go(r, step),
         Phase(step) = Phase(pc[r]), UNCHANGED <<ok, found, leaked, stored>>
  PROVE  Refines
<1>1. AbstractPhase' = AbstractPhase /\ AbstractDue' = AbstractDue
  BY PhaseStays DEF AbstractDue
<1> QED
  BY <1>1 DEF Refines, Abstract!vars, AbstractPhase, AbstractDue

\* A waiting request takes the lock, gives up, or goes on waiting.
LEMMA WaitRefines ==
  ASSUME TypeOK, LockAccounted, WatchInv, NEW r \in Requests,
         Waits(r) \/ AcquireFails(r)
  PROVE  Refines
<1> USE KeyOfAssumption, Phases
<1>0. ASSUME Unchanged(InstOf[r]), pc[r] = "exec"
      PROVE  Abstract!HasRoom(KeyOf[r])
  BY <1>0, FreeIsRoom DEF WatchInv, Unchanged
<1>1. ASSUME NEW step \in Waiting, Go(r, step), pc[r] \in Waiting,
             UNCHANGED <<ok, found, leaked, stored>>
      PROVE  Refines
  BY <1>1, Stutters
<1>2. ASSUME pc[r] \in Waiting, Go(r, "failed"),
             \/ UNCHANGED leaked
             \/ pc[r] = "exec" /\ Unchanged(InstOf[r]) /\ Leak(r),
             UNCHANGED <<ok, found, stored>>
      PROVE  Refines
  <2>1. AbstractPhase[r] = "waiting"
        /\ AbstractPhase' = [AbstractPhase EXCEPT ![r] = "gone"]
        /\ AbstractDue' = AbstractDue
    BY <1>2, PhaseGoes DEF AbstractPhase, AbstractDue, Ended
  <2>2. \/ UNCHANGED leaked
        \/ Abstract!HasRoom(KeyOf[r]) /\ Abstract!Lose(KeyOf[r])
    BY <1>0, <1>2 DEF Leak, Abstract!Lose
  <2>3. Abstract!GiveUp(r)
    BY <1>2, <2>1, <2>2
    DEF Abstract!GiveUp, Abstract!Goes, AbstractPhase, AbstractDue
  <2> QED
    BY <2>3 DEF Refines, Abstract!Next
<1>3. CASE Exec(r)
  <2>1. AbstractPhase[r] = "waiting"
        /\ AbstractPhase' = [AbstractPhase EXCEPT ![r] = "inside"]
        /\ AbstractDue' = AbstractDue
    BY <1>3, PhaseGoes DEF Exec, AbstractPhase, AbstractDue, Waiting, Holding
  <2>2. Abstract!Enter(r)
    BY <1>0, <1>3, <2>1
    DEF Exec, Abstract!Enter, Abstract!Goes, AbstractPhase, AbstractDue
  <2> QED
    BY <2>2 DEF Refines, Abstract!Next
<1>4. CASE Watch(r) \/ Get(r) \/ Unwatch(r) \/ Retry(r)
  BY <1>1, <1>4 DEF Watch, Get, Unwatch, Retry, redisVars, Waiting
<1>5. CASE ExecConflict(r)
  BY <1>1, <1>2, <1>5 DEF ExecConflict, Waiting
<1>6. CASE TimeOut(r)
  BY <1>2, <1>6 DEF TimeOut, redisVars, Waiting
<1>7. CASE AcquireFails(r)
  BY <1>2, <1>7 DEF AcquireFails, redisVars, Waiting
<1> QED
  BY <1>3, <1>4, <1>5, <1>6, <1>7 DEF Waits

\* A request that has the lock makes its result, leaves, stores or is lost.
LEMMA HoldRefines ==
  ASSUME TypeOK, RepeatInv, NEW r \in Requests,
         Holds(r) \/ HangUp(r) \/ HolderFails(r)
  PROVE  Refines
<1> USE KeyOfAssumption, Phases
<1>1. ASSUME NEW step, Go(r, step), pc[r] \in Holding,
             Phase(step) = IF ok[r] THEN "storing" ELSE "gone",
             UNCHANGED <<ok, found, leaked, stored>>
      PROVE  Refines
  <2>1. AbstractPhase[r] = "inside"
        /\ AbstractPhase' = [AbstractPhase EXCEPT ![r] = Phase(step)]
        /\ AbstractDue' = AbstractDue
    BY <1>1, PhaseGoes DEF AbstractPhase, AbstractDue
  <2>2. Abstract!Leave(r)
    BY <1>1, <2>1
    DEF Abstract!Leave, Abstract!Goes, AbstractPhase, AbstractDue
  <2> QED
    BY <2>2 DEF Refines, Abstract!Next
<1>2. ASSUME NEW step \in Ended, Go(r, step), pc[r] \in Holding, Leak(r),
             UNCHANGED <<ok, found, stored>>
      PROVE  Refines
  <2>1. AbstractPhase[r] = "inside"
        /\ AbstractPhase' = [AbstractPhase EXCEPT ![r] = "gone"]
        /\ AbstractDue' = AbstractDue
    BY <1>2, PhaseGoes DEF AbstractPhase, AbstractDue
  <2>2. Abstract!Die(r)
    BY <1>2, <2>1
    DEF Leak, Abstract!Die, Abstract!Goes, Abstract!Lose, AbstractPhase,
        AbstractDue
  <2> QED
    BY <2>2 DEF Refines, Abstract!Next
<1>3. CASE Lookup(r)
  BY <1>3, Stutters DEF Lookup, redisVars, Holding
<1>4. CASE Replay(r)
  BY <1>1, <1>4 DEF Replay, RepeatInv, Holding, Ended
<1>5. CASE Create(r)
  <2>1. AbstractPhase[r] = "inside" /\ AbstractPhase' = AbstractPhase
        /\ AbstractDue' = AbstractDue /\ ~AbstractDue[r] /\ ~ok[r]
    BY <1>5, PhaseStays
    DEF Create, AbstractPhase, AbstractDue, RepeatInv, Holding, Ended
  <2>2. CASE ok' = [ok EXCEPT ![r] = TRUE]
    <3>1. Abstract!Make(r)
      BY <1>5, <2>1, <2>2 DEF Create, Abstract!Make, AbstractPhase, AbstractDue
    <3> QED
      BY <3>1 DEF Refines, Abstract!Next
  <2>3. CASE UNCHANGED ok
    BY <1>5, <2>1, <2>3
    DEF Create, Refines, Abstract!vars, AbstractPhase, AbstractDue
  <2> QED
    BY <1>5, <2>2, <2>3 DEF Create
<1>6. CASE Finish(r)
  BY <1>1, <1>6 DEF Finish, Holding, Ended
<1>7. CASE Store(r)
  <2>1. AbstractPhase[r] = "storing"
        /\ AbstractPhase' = [AbstractPhase EXCEPT ![r] = "gone"]
        /\ AbstractDue' = AbstractDue
    BY <1>7, PhaseGoes DEF Store, AbstractPhase, AbstractDue, Ended
  <2>2. Abstract!Store(r)
    BY <1>7, <2>1
    DEF Store, Abstract!Store, Abstract!Goes, AbstractPhase, AbstractDue
  <2> QED
    BY <2>2 DEF Refines, Abstract!Next
<1>8. CASE HangUp(r)
  BY <1>2, <1>8 DEF HangUp, Holding, Ended
<1>9. CASE HolderFails(r)
  BY <1>1, <1>2, <1>9 DEF HolderFails, RepeatInv, Holding, Ended
<1> QED
  BY <1>3, <1>4, <1>5, <1>6, <1>7, <1>8, <1>9 DEF Holds

\* A process dies with at most one request: one that waits gives up, one that
\* holds the lock or is about to store is lost.
LEMMA CrashRefines ==
  ASSUME OwnConnection, TypeOK, NEW i \in Instances, Crash(i)
  PROVE  Refines
<1> USE KeyOfAssumption, Phases
<1>1. PICK r \in Requests : InstOf[r] = i /\ pc[r] \notin {"idle"} \cup Ended
  BY DEF Crash, ServedBy
<1>2. ServedBy(i) = {r}
  BY <1>1 DEF OwnConnection, ServedBy
<1>3. Go(r, "failed") /\ UNCHANGED <<ok, found, stored>>
  BY <1>1 DEF Crash, OwnConnection, TypeOK, Go
<1>4. ASSUME NEW k \in IdemKeys
      PROVE  leaked'[k] = IF k = KeyOf[r] /\ pc[r] \in Holding
                            THEN leaked[k] + 1 ELSE leaked[k]
  <2>1. Holders(k) \cap ServedBy(i) =
          IF k = KeyOf[r] /\ pc[r] \in Holding THEN {r} ELSE {}
    BY <1>2 DEF Holders
  <2>2. Cardinality({r}) = 1 /\ Cardinality({}) = 0
    BY FS_Singleton, FS_EmptySet
  <2>3. leaked'[k] = leaked[k] + Cardinality(Holders(k) \cap ServedBy(i))
        /\ leaked[k] \in Nat
    BY DEF Crash, TypeOK
  <2> QED
    BY <2>1, <2>2, <2>3
<1>5. leaked' = IF pc[r] \in Holding
                  THEN [leaked EXCEPT ![KeyOf[r]] = @ + 1] ELSE leaked
  BY <1>4 DEF Crash, TypeOK
<1>6. AbstractPhase[r] = Phase(pc[r])
      /\ AbstractPhase' = [AbstractPhase EXCEPT ![r] = "gone"]
      /\ AbstractDue' = AbstractDue
  BY <1>3, PhaseGoes DEF AbstractPhase, AbstractDue, Ended
<1>7. CASE pc[r] \in Waiting
  <2>1. Abstract!GiveUp(r)
    BY <1>3, <1>5, <1>6, <1>7
    DEF Abstract!GiveUp, Abstract!Goes, AbstractPhase, AbstractDue, Waiting,
        Holding
  <2> QED
    BY <2>1 DEF Refines, Abstract!Next
<1>8. CASE pc[r] \in Holding \/ pc[r] = "store"
  <2>1. Abstract!Die(r)
    BY <1>3, <1>5, <1>6, <1>8
    DEF Abstract!Die, Abstract!Goes, Abstract!Lose, AbstractPhase, AbstractDue,
        Holding
  <2> QED
    BY <2>1 DEF Refines, Abstract!Next
<1> QED
  BY <1>1, <1>7, <1>8 DEF TypeOK

\* Every step is a step of ReplayLock or shows nothing.
LEMMA AbstractStep ==
  ASSUME OwnConnection, "ttl" \notin Env, TypeOK, LockAccounted, WatchInv,
         RepeatInv, [Next]_vars
  PROVE  Refines
<1> USE KeyOfAssumption, Phases
<1>1. ASSUME NEW r \in Requests, Arrive(r) PROVE Refines
  <2>1. AbstractPhase[r] = "new"
        /\ AbstractPhase' = [AbstractPhase EXCEPT ![r] = "waiting"]
    BY <1>1, PhaseGoes DEF Arrive, AbstractPhase, Waiting
  <2>2. AbstractDue' = [AbstractDue EXCEPT ![r] = stored[KeyOf[r]]]
    BY <1>1 DEF Arrive, AbstractDue, TypeOK
  <2>3. Abstract!Come(r)
    BY <1>1, <2>1, <2>2
    DEF Arrive, Abstract!Come, Abstract!Goes, AbstractPhase, AbstractDue
  <2> QED
    BY <2>3 DEF Refines, Abstract!Next
<1>2. ASSUME NEW k \in IdemKeys, Expire(k) PROVE Refines
  <2>1. Abstract!Inside(k) = {}
    BY <1>2, InsideHolds DEF Expire, May
  <2>2. Abstract!Forget(k)
    BY <1>2, <2>1 DEF Expire, Abstract!Forget
  <2> QED
    BY <2>2 DEF Refines, Abstract!Next
<1>3. CASE Quiet \/ UNCHANGED vars
  BY <1>3 DEF Quiet, vars, Refines, Abstract!vars
<1> QED
  BY <1>1, <1>2, <1>3, WaitRefines, HoldRefines, CrashRefines DEF Next, Fails

\* On a connection of its own, every request sees the lock ReplayLock
\* describes: no interleaving of Redis commands, no failed command and no
\* crash shows.
THEOREM LockImplementation ==
  ASSUME OwnConnection, "ttl" \notin Env
  PROVE  Spec => ImplementsLock
<1>1. Init => WatchInv /\ RepeatInv
  BY BoundAssumption DEF Init, WatchInv, RepeatInv
<1>2. TypeOK /\ WatchInv /\ [Next]_vars => WatchInv'
  BY WatchStep
<1>3. TypeOK /\ RepeatInv /\ [Next]_vars => RepeatInv'
  BY RepeatStep
<1>4. TypeOK /\ LockAccounted /\ WatchInv /\ RepeatInv /\ [Next]_vars
        => [Abstract!Next]_(Abstract!vars)
  BY AbstractStep DEF Refines
<1> QED
  BY <1>1, <1>2, <1>3, <1>4, AbstractInit, TypeCorrect, LockCountsHolders, PTL
  DEF Spec, ImplementsLock, Abstract!Spec
===============================================================================
