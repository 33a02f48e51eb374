-------------------------- MODULE WriteThroughProofs --------------------------
(***************************************************************************)
(* Theorems about WriteThrough, for every set of creators, readers, keys   *)
(* and URLs: type correctness, PublishedIsStored whatever goes wrong,      *)
(* NoOrphanCache when no populate is carried out in spite of its failure   *)
(* and no key is guessed, and the implementation of UrlStore then or when  *)
(* no drawn key collides.                                                  *)
(***************************************************************************)
EXTENDS WriteThrough, TLAPS

-------------------------------------------------------------------------------
(* The inductive invariants.                                               *)

\* The creations whose row is in the table.
Owner(c) ==
  pc[c] \in {"populate", "awaiting", "rollback", "answered", "crashed"}

RowsOwned ==
  \A c \in Creators : Owner(c) => key[c] \in Keys /\ db[key[c]] = UrlOf[c]

OneOwner ==
  \A c, d \in Creators : Owner(c) /\ Owner(d) /\ key[c] = key[d] => c = d

PublishedByOwner ==
  \A k \in Keys : published[k] # NoUrl =>
    \E c \in Creators :
      pc[c] = "answered" /\ key[c] = k /\ published[k] = UrlOf[c]

\* What a reader was promised when it asked is still promised.
DueKept ==
  \A r \in Readers :
    rpc[r] # "idle" /\ due[r] # NoUrl => published[wants[r]] = due[r]

\* In every environment.
StoreInv == TypeOK /\ RowsOwned /\ OneOwner /\ PublishedByOwner /\ DueKept

\* Nobody deletes the row of c any more, or will.
Committed(c) ==
  \/ pc[c] = "answered"
  \/ pc[c] \in {"awaiting", "crashed"} /\ post[c] = "stored"

CacheBacked ==
  \A k \in Keys : cache[k] # NoUrl =>
    \E c \in Creators :
      Committed(c) /\ key[c] = k /\ cache[k] = UrlOf[c]

PostInFlight ==
  \A c \in Creators : post[c] = "sent" => pc[c] \in {"awaiting", "crashed"}

RowsDrawn ==
  /\ \A c \in Creators : pc[c] = "start" => key[c] = NoKey
  /\ \A k \in Keys : db[k] # NoUrl => \E c \in Creators : key[c] = k

\* Without a guess, a reader asks for a published key or for nobody's key.
ReadersKnow ==
  \A r \in Readers : rpc[r] # "idle" =>
    /\ due[r] # NoUrl \/ \A c \in Creators : key[c] # wants[r]
    /\ rpc[r] = "fill" => got[r] = due[r] /\ due[r] # NoUrl

\* In the environments without "lost" and "guess".
CacheInv ==
  /\ StoreInv
  /\ CacheBacked
  /\ PostInFlight
  /\ RowsDrawn
  /\ ReadersKnow

\* Without a collision, the creation that drew k is the only source of what
\* is stored, cached or carried to the cache under k.
DrawnOnce ==
  /\ \A c \in Creators : pc[c] = "start" => key[c] = NoKey /\ post[c] = "none"
  /\ \A c \in Creators : post[c] # "none" => key[c] \in Keys
  /\ \A c, d \in Creators : key[c] = key[d] /\ key[c] # NoKey => c = d

From(k, u) == \E c \in Creators : key[c] = k /\ u = UrlOf[c]

SingleSource ==
  /\ \A k \in Keys : db[k] # NoUrl => From(k, db[k])
  /\ \A k \in Keys : cache[k] # NoUrl => From(k, cache[k])
  /\ \A r \in Readers : rpc[r] = "fill" => From(wants[r], got[r])

RefineInv == StoreInv /\ DrawnOnce /\ SingleSource

-------------------------------------------------------------------------------
(* Type correctness.                                                       *)

\* The initial states are well typed.
LEMMA TypeInit == Init => TypeOK
  BY NoValueAssumption DEF Init, TypeOK

\* Every step keeps the types.
LEMMA TypeStep == TypeOK /\ [Next]_vars => TypeOK'
<1> SUFFICES ASSUME TypeOK, [Next]_vars PROVE TypeOK'
  OBVIOUS
<1> USE UrlOfAssumption, NoValueAssumption DEF TypeOK, creatorVars, readerVars
<1>1. ASSUME NEW c \in Creators, NEW k \in Keys, Create(c, k) PROVE TypeOK'
  BY <1>1 DEF Create, Inserted
<1>2. ASSUME NEW c \in Creators, NEW k \in Keys, CreateUnacknowledged(c, k)
      PROVE  TypeOK'
  BY <1>2 DEF CreateUnacknowledged, Inserted, Fail
<1>3. ASSUME NEW c \in Creators, CreateFails(c) PROVE TypeOK'
  BY <1>3 DEF CreateFails, Fail
<1>4. ASSUME NEW c \in Creators, SendPopulate(c) PROVE TypeOK'
  BY <1>4 DEF SendPopulate
<1>5. ASSUME NEW c \in Creators, PopulateRejected(c) PROVE TypeOK'
  BY <1>5 DEF PopulateRejected
<1>6. ASSUME NEW c \in Creators, Receive(c) PROVE TypeOK'
  BY <1>6 DEF Receive, Answer
<1>7. ASSUME NEW c \in Creators, PopulateFails(c) PROVE TypeOK'
  BY <1>7 DEF PopulateFails
<1>8. ASSUME NEW c \in Creators, Disconnect(c) PROVE TypeOK'
  BY <1>8 DEF Disconnect
<1>9. ASSUME NEW c \in Creators, Rollback(c) PROVE TypeOK'
  BY <1>9 DEF Rollback, Deleted, AfterRollback, Fail
<1>10. ASSUME NEW c \in Creators, RollbackFails(c) PROVE TypeOK'
  BY <1>10 DEF RollbackFails, Fail
<1>11. ASSUME NEW c \in Creators, Crash(c) PROVE TypeOK'
  BY <1>11 DEF Crash
<1>12. ASSUME NEW c \in Creators, Store(c) PROVE TypeOK'
  BY <1>12 DEF Store, Payload
<1>13. ASSUME NEW c \in Creators, Refuse(c) PROVE TypeOK'
  BY <1>13 DEF Refuse
<1>14. ASSUME NEW r \in Readers, Hit(r) PROVE TypeOK'
  BY <1>14 DEF Hit, Reply
<1>15. ASSUME NEW r \in Readers, Miss(r) PROVE TypeOK'
  BY <1>15 DEF Miss
<1>16. ASSUME NEW r \in Readers, Fetch(r) PROVE TypeOK'
  BY <1>16 DEF Fetch
<1>17. ASSUME NEW r \in Readers, FetchNotFound(r) PROVE TypeOK'
  BY <1>17 DEF FetchNotFound, Reply
<1>18. ASSUME NEW r \in Readers, Fill(r) PROVE TypeOK'
  BY <1>18 DEF Fill, Reply
<1>19. ASSUME NEW r \in Readers, ReadFails(r) PROVE TypeOK'
  BY <1>19 DEF ReadFails, Reply
<1>20. ASSUME NEW r \in Readers, NEW k \in Keys, Ask(r, k) PROVE TypeOK'
  BY <1>20 DEF Ask
<1>21. ASSUME NEW k \in Keys, Expire(k) PROVE TypeOK'
  BY <1>21 DEF Expire
<1>22. CASE UNCHANGED vars
  BY <1>22 DEF vars
<1> QED
  BY <1>1, <1>2, <1>3, <1>4, <1>5, <1>6, <1>7, <1>8, <1>9, <1>10, <1>11, <1>12,
     <1>13, <1>14, <1>15, <1>16, <1>17, <1>18, <1>19, <1>20, <1>21, <1>22 DEF
     Next, Writing, Serving, Reading

\* Every variable keeps its type in every environment.
THEOREM TypeCorrect == Spec => []TypeOK
<1>1. Init => TypeOK
  BY TypeInit
<1>2. TypeOK /\ [Next]_vars => TypeOK'
  BY TypeStep
<1> QED
  BY <1>1, <1>2, PTL DEF Spec

-------------------------------------------------------------------------------
(* PublishedIsStored.                                                      *)

\* Every step keeps one owner per row: an INSERT needs a free key and a DELETE
\* removes the row of its own creation.
LEMMA OwnersStep ==
  StoreInv /\ [Next]_vars => RowsOwned' /\ OneOwner'
<1> SUFFICES ASSUME StoreInv, [Next]_vars PROVE RowsOwned' /\ OneOwner'
  OBVIOUS
<1> USE UrlOfAssumption, NoValueAssumption
    DEF StoreInv, TypeOK, RowsOwned, OneOwner, Owner, RowFree,
        creatorVars, readerVars
<1>1. ASSUME NEW c \in Creators, NEW k \in Keys, Create(c, k)
      PROVE  RowsOwned' /\ OneOwner'
  BY <1>1 DEF Create, Inserted
<1>2. ASSUME NEW c \in Creators, NEW k \in Keys, CreateUnacknowledged(c, k)
      PROVE  RowsOwned' /\ OneOwner'
  BY <1>2 DEF CreateUnacknowledged, Inserted, Fail
<1>3. ASSUME NEW c \in Creators, CreateFails(c) PROVE RowsOwned' /\ OneOwner'
  BY <1>3 DEF CreateFails, Fail
<1>4. ASSUME NEW c \in Creators, SendPopulate(c) PROVE RowsOwned' /\ OneOwner'
  BY <1>4 DEF SendPopulate
<1>5. ASSUME NEW c \in Creators, PopulateRejected(c)
      PROVE  RowsOwned' /\ OneOwner'
  BY <1>5 DEF PopulateRejected
<1>6. ASSUME NEW c \in Creators, Receive(c) PROVE RowsOwned' /\ OneOwner'
  BY <1>6 DEF Receive, Answer
<1>7. ASSUME NEW c \in Creators, PopulateFails(c) PROVE RowsOwned' /\ OneOwner'
  BY <1>7 DEF PopulateFails
<1>8. ASSUME NEW c \in Creators, Disconnect(c) PROVE RowsOwned' /\ OneOwner'
  BY <1>8 DEF Disconnect
<1>9. ASSUME NEW c \in Creators, Rollback(c) PROVE RowsOwned' /\ OneOwner'
  BY <1>9 DEF Rollback, Deleted, AfterRollback, Fail
<1>10. ASSUME NEW c \in Creators, RollbackFails(c)
       PROVE  RowsOwned' /\ OneOwner'
  BY <1>10 DEF RollbackFails, Fail
<1>11. ASSUME NEW c \in Creators, Crash(c) PROVE RowsOwned' /\ OneOwner'
  BY <1>11 DEF Crash
<1>12. ASSUME NEW c \in Creators, Store(c) PROVE RowsOwned' /\ OneOwner'
  BY <1>12 DEF Store, Payload
<1>13. ASSUME NEW c \in Creators, Refuse(c) PROVE RowsOwned' /\ OneOwner'
  BY <1>13 DEF Refuse
<1>14. ASSUME NEW r \in Readers, Hit(r) PROVE RowsOwned' /\ OneOwner'
  BY <1>14 DEF Hit, Reply
<1>15. ASSUME NEW r \in Readers, Miss(r) PROVE RowsOwned' /\ OneOwner'
  BY <1>15 DEF Miss
<1>16. ASSUME NEW r \in Readers, Fetch(r) PROVE RowsOwned' /\ OneOwner'
  BY <1>16 DEF Fetch
<1>17. ASSUME NEW r \in Readers, FetchNotFound(r) PROVE RowsOwned' /\ OneOwner'
  BY <1>17 DEF FetchNotFound, Reply
<1>18. ASSUME NEW r \in Readers, Fill(r) PROVE RowsOwned' /\ OneOwner'
  BY <1>18 DEF Fill, Reply
<1>19. ASSUME NEW r \in Readers, ReadFails(r) PROVE RowsOwned' /\ OneOwner'
  BY <1>19 DEF ReadFails, Reply
<1>20. ASSUME NEW r \in Readers, NEW k \in Keys, Ask(r, k)
       PROVE  RowsOwned' /\ OneOwner'
  BY <1>20 DEF Ask
<1>21. ASSUME NEW k \in Keys, Expire(k) PROVE RowsOwned' /\ OneOwner'
  BY <1>21 DEF Expire
<1>22. CASE UNCHANGED vars
  BY <1>22 DEF vars
<1> QED
  BY <1>1, <1>2, <1>3, <1>4, <1>5, <1>6, <1>7, <1>8, <1>9, <1>10, <1>11, <1>12,
     <1>13, <1>14, <1>15, <1>16, <1>17, <1>18, <1>19, <1>20, <1>21, <1>22 DEF
     Next, Writing, Serving, Reading

\* A key is published by the owner of its row, which stays its owner.
LEMMA PublishedStep ==
  StoreInv /\ [Next]_vars => PublishedByOwner'
<1> SUFFICES ASSUME StoreInv, [Next]_vars PROVE PublishedByOwner'
  OBVIOUS
<1> USE DEF StoreInv, TypeOK, PublishedByOwner, RowsOwned, OneOwner, Owner,
        creatorVars, readerVars
<1>1. ASSUME NEW c \in Creators, NEW k \in Keys, Create(c, k)
      PROVE  PublishedByOwner'
  BY <1>1 DEF Create, Inserted
<1>2. ASSUME NEW c \in Creators, NEW k \in Keys, CreateUnacknowledged(c, k)
      PROVE  PublishedByOwner'
  BY <1>2 DEF CreateUnacknowledged, Inserted, Fail
<1>3. ASSUME NEW c \in Creators, CreateFails(c) PROVE PublishedByOwner'
  BY <1>3 DEF CreateFails, Fail
<1>4. ASSUME NEW c \in Creators, SendPopulate(c) PROVE PublishedByOwner'
  BY <1>4 DEF SendPopulate
<1>5. ASSUME NEW c \in Creators, PopulateRejected(c) PROVE PublishedByOwner'
  BY <1>5 DEF PopulateRejected
<1>6. ASSUME NEW c \in Creators, Receive(c) PROVE PublishedByOwner'
  BY <1>6 DEF Receive, Answer
<1>7. ASSUME NEW c \in Creators, PopulateFails(c) PROVE PublishedByOwner'
  BY <1>7 DEF PopulateFails
<1>8. ASSUME NEW c \in Creators, Disconnect(c) PROVE PublishedByOwner'
  BY <1>8 DEF Disconnect
<1>9. ASSUME NEW c \in Creators, Rollback(c) PROVE PublishedByOwner'
  BY <1>9 DEF Rollback, Deleted, AfterRollback, Fail
<1>10. ASSUME NEW c \in Creators, RollbackFails(c) PROVE PublishedByOwner'
  BY <1>10 DEF RollbackFails, Fail
<1>11. ASSUME NEW c \in Creators, Crash(c) PROVE PublishedByOwner'
  BY <1>11 DEF Crash
<1>12. ASSUME NEW c \in Creators, Store(c) PROVE PublishedByOwner'
  BY <1>12 DEF Store, Payload
<1>13. ASSUME NEW c \in Creators, Refuse(c) PROVE PublishedByOwner'
  BY <1>13 DEF Refuse
<1>14. ASSUME NEW r \in Readers, Hit(r) PROVE PublishedByOwner'
  BY <1>14 DEF Hit, Reply
<1>15. ASSUME NEW r \in Readers, Miss(r) PROVE PublishedByOwner'
  BY <1>15 DEF Miss
<1>16. ASSUME NEW r \in Readers, Fetch(r) PROVE PublishedByOwner'
  BY <1>16 DEF Fetch
<1>17. ASSUME NEW r \in Readers, FetchNotFound(r) PROVE PublishedByOwner'
  BY <1>17 DEF FetchNotFound, Reply
<1>18. ASSUME NEW r \in Readers, Fill(r) PROVE PublishedByOwner'
  BY <1>18 DEF Fill, Reply
<1>19. ASSUME NEW r \in Readers, ReadFails(r) PROVE PublishedByOwner'
  BY <1>19 DEF ReadFails, Reply
<1>20. ASSUME NEW r \in Readers, NEW k \in Keys, Ask(r, k)
       PROVE  PublishedByOwner'
  BY <1>20 DEF Ask
<1>21. ASSUME NEW k \in Keys, Expire(k) PROVE PublishedByOwner'
  BY <1>21 DEF Expire
<1>22. CASE UNCHANGED vars
  BY <1>22 DEF vars
<1> QED
  BY <1>1, <1>2, <1>3, <1>4, <1>5, <1>6, <1>7, <1>8, <1>9, <1>10, <1>11, <1>12,
     <1>13, <1>14, <1>15, <1>16, <1>17, <1>18, <1>19, <1>20, <1>21, <1>22 DEF
     Next, Writing, Serving, Reading

\* What a reader was promised when it asked is never published anew.
LEMMA DueStep ==
  StoreInv /\ [Next]_vars => DueKept'
<1> SUFFICES ASSUME StoreInv, [Next]_vars PROVE DueKept'
  OBVIOUS
<1> USE DEF StoreInv, TypeOK, DueKept, PublishedByOwner, RowsOwned, OneOwner,
        Owner, creatorVars, readerVars
<1>1. ASSUME NEW c \in Creators, NEW k \in Keys, Create(c, k) PROVE DueKept'
  BY <1>1 DEF Create, Inserted
<1>2. ASSUME NEW c \in Creators, NEW k \in Keys, CreateUnacknowledged(c, k)
      PROVE  DueKept'
  BY <1>2 DEF CreateUnacknowledged, Inserted, Fail
<1>3. ASSUME NEW c \in Creators, CreateFails(c) PROVE DueKept'
  BY <1>3 DEF CreateFails, Fail
<1>4. ASSUME NEW c \in Creators, SendPopulate(c) PROVE DueKept'
  BY <1>4 DEF SendPopulate
<1>5. ASSUME NEW c \in Creators, PopulateRejected(c) PROVE DueKept'
  BY <1>5 DEF PopulateRejected
<1>6. ASSUME NEW c \in Creators, Receive(c) PROVE DueKept'
  BY <1>6 DEF Receive, Answer
<1>7. ASSUME NEW c \in Creators, PopulateFails(c) PROVE DueKept'
  BY <1>7 DEF PopulateFails
<1>8. ASSUME NEW c \in Creators, Disconnect(c) PROVE DueKept'
  BY <1>8 DEF Disconnect
<1>9. ASSUME NEW c \in Creators, Rollback(c) PROVE DueKept'
  BY <1>9 DEF Rollback, Deleted, AfterRollback, Fail
<1>10. ASSUME NEW c \in Creators, RollbackFails(c) PROVE DueKept'
  BY <1>10 DEF RollbackFails, Fail
<1>11. ASSUME NEW c \in Creators, Crash(c) PROVE DueKept'
  BY <1>11 DEF Crash
<1>12. ASSUME NEW c \in Creators, Store(c) PROVE DueKept'
  BY <1>12 DEF Store, Payload
<1>13. ASSUME NEW c \in Creators, Refuse(c) PROVE DueKept'
  BY <1>13 DEF Refuse
<1>14. ASSUME NEW r \in Readers, Hit(r) PROVE DueKept'
  BY <1>14 DEF Hit, Reply
<1>15. ASSUME NEW r \in Readers, Miss(r) PROVE DueKept'
  BY <1>15 DEF Miss
<1>16. ASSUME NEW r \in Readers, Fetch(r) PROVE DueKept'
  BY <1>16 DEF Fetch
<1>17. ASSUME NEW r \in Readers, FetchNotFound(r) PROVE DueKept'
  BY <1>17 DEF FetchNotFound, Reply
<1>18. ASSUME NEW r \in Readers, Fill(r) PROVE DueKept'
  BY <1>18 DEF Fill, Reply
<1>19. ASSUME NEW r \in Readers, ReadFails(r) PROVE DueKept'
  BY <1>19 DEF ReadFails, Reply
<1>20. ASSUME NEW r \in Readers, NEW k \in Keys, Ask(r, k) PROVE DueKept'
  BY <1>20 DEF Ask
<1>21. ASSUME NEW k \in Keys, Expire(k) PROVE DueKept'
  BY <1>21 DEF Expire
<1>22. CASE UNCHANGED vars
  BY <1>22 DEF vars
<1> QED
  BY <1>1, <1>2, <1>3, <1>4, <1>5, <1>6, <1>7, <1>8, <1>9, <1>10, <1>11, <1>12,
     <1>13, <1>14, <1>15, <1>16, <1>17, <1>18, <1>19, <1>20, <1>21, <1>22 DEF
     Next, Writing, Serving, Reading

\* The owners of the rows are known in every environment.
LEMMA StoreInvariant == Spec => []StoreInv
<1>1. Init => StoreInv
  BY TypeInit DEF Init, StoreInv, RowsOwned, OneOwner, Owner,
                  PublishedByOwner, DueKept
<1>2. StoreInv /\ [Next]_vars => StoreInv'
  BY TypeStep, OwnersStep, PublishedStep, DueStep DEF StoreInv
<1> QED
  BY <1>1, <1>2, PTL DEF Spec

\* The owner of a published row has answered, so the row is its own.
LEMMA StoreInvImplies == StoreInv => PublishedIsStored
  BY DEF StoreInv, PublishedIsStored, PublishedByOwner, RowsOwned, Owner

\* Whatever fails, collides or crashes, a key a creator was answered with
\* keeps the row of that creator.
THEOREM PublishedStaysStored == Spec => []PublishedIsStored
  BY StoreInvariant, StoreInvImplies, PTL

-------------------------------------------------------------------------------
(* NoOrphanCache.                                                          *)

\* A populate that failed was not carried out, and keys are not guessed.
Trusted == {"lost", "guess"} \cap Env = {}

\* Every step keeps PostInFlight and RowsDrawn: if no POST /cache gets lost, c
\* still waits for the one on its way.
LEMMA PostStep ==
  ASSUME Trusted, CacheInv, [Next]_vars
  PROVE  PostInFlight' /\ RowsDrawn'
<1> USE UrlOfAssumption, NoValueAssumption
    DEF Trusted, May, CacheInv, StoreInv, TypeOK, PostInFlight, RowsDrawn,
        Accepted, creatorVars, readerVars
<1>1. ASSUME NEW c \in Creators, NEW k \in Keys, Create(c, k)
      PROVE  PostInFlight' /\ RowsDrawn'
  BY <1>1 DEF Create, Inserted
<1>2. ASSUME NEW c \in Creators, NEW k \in Keys, CreateUnacknowledged(c, k)
      PROVE  PostInFlight' /\ RowsDrawn'
  BY <1>2 DEF CreateUnacknowledged, Inserted, Fail
<1>3. ASSUME NEW c \in Creators, CreateFails(c)
      PROVE  PostInFlight' /\ RowsDrawn'
  BY <1>3 DEF CreateFails, Fail
<1>4. ASSUME NEW c \in Creators, SendPopulate(c)
      PROVE  PostInFlight' /\ RowsDrawn'
  BY <1>4 DEF SendPopulate
<1>5. ASSUME NEW c \in Creators, PopulateRejected(c)
      PROVE  PostInFlight' /\ RowsDrawn'
  BY <1>5 DEF PopulateRejected
<1>6. ASSUME NEW c \in Creators, Receive(c) PROVE PostInFlight' /\ RowsDrawn'
  BY <1>6 DEF Receive, Answer
<1>7. ASSUME NEW c \in Creators, PopulateFails(c)
      PROVE  PostInFlight' /\ RowsDrawn'
  BY <1>7 DEF PopulateFails
<1>8. ASSUME NEW c \in Creators, Disconnect(c)
      PROVE  PostInFlight' /\ RowsDrawn'
  BY <1>8 DEF Disconnect
<1>9. ASSUME NEW c \in Creators, Rollback(c) PROVE PostInFlight' /\ RowsDrawn'
  BY <1>9 DEF Rollback, Deleted, AfterRollback, Fail
<1>10. ASSUME NEW c \in Creators, RollbackFails(c)
       PROVE  PostInFlight' /\ RowsDrawn'
  BY <1>10 DEF RollbackFails, Fail
<1>11. ASSUME NEW c \in Creators, Crash(c) PROVE PostInFlight' /\ RowsDrawn'
  BY <1>11 DEF Crash
<1>12. ASSUME NEW c \in Creators, Store(c) PROVE PostInFlight' /\ RowsDrawn'
  BY <1>12 DEF Store, Payload
<1>13. ASSUME NEW c \in Creators, Refuse(c) PROVE PostInFlight' /\ RowsDrawn'
  BY <1>13 DEF Refuse
<1>14. ASSUME NEW r \in Readers, Hit(r) PROVE PostInFlight' /\ RowsDrawn'
  BY <1>14 DEF Hit, Reply
<1>15. ASSUME NEW r \in Readers, Miss(r) PROVE PostInFlight' /\ RowsDrawn'
  BY <1>15 DEF Miss
<1>16. ASSUME NEW r \in Readers, Fetch(r) PROVE PostInFlight' /\ RowsDrawn'
  BY <1>16 DEF Fetch
<1>17. ASSUME NEW r \in Readers, FetchNotFound(r)
       PROVE  PostInFlight' /\ RowsDrawn'
  BY <1>17 DEF FetchNotFound, Reply
<1>18. ASSUME NEW r \in Readers, Fill(r) PROVE PostInFlight' /\ RowsDrawn'
  BY <1>18 DEF Fill, Reply
<1>19. ASSUME NEW r \in Readers, ReadFails(r) PROVE PostInFlight' /\ RowsDrawn'
  BY <1>19 DEF ReadFails, Reply
<1>20. ASSUME NEW r \in Readers, NEW k \in Keys, Ask(r, k)
       PROVE  PostInFlight' /\ RowsDrawn'
  BY <1>20 DEF Ask
<1>21. ASSUME NEW k \in Keys, Expire(k) PROVE PostInFlight' /\ RowsDrawn'
  BY <1>21 DEF Expire
<1>22. CASE UNCHANGED vars
  BY <1>22 DEF vars
<1> QED
  BY <1>1, <1>2, <1>3, <1>4, <1>5, <1>6, <1>7, <1>8, <1>9, <1>10, <1>11, <1>12,
     <1>13, <1>14, <1>15, <1>16, <1>17, <1>18, <1>19, <1>20, <1>21, <1>22 DEF
     Next, Writing, Serving, Reading

\* The URL a reader is about to cache comes from an answered creation.
LEMMA KnownAtFill ==
  ASSUME CacheInv, NEW r \in Readers, rpc[r] = "fill", got[r] # NoUrl
  PROVE  \E c \in Creators :
           pc[c] = "answered" /\ key[c] = wants[r] /\ got[r] = UrlOf[c]
  BY DEF CacheInv, StoreInv, TypeOK, ReadersKnow, DueKept, PublishedByOwner

\* Every step keeps the cache backed by creations that are not rolled back.
LEMMA CacheBackedStep ==
  ASSUME Trusted, CacheInv, [Next]_vars
  PROVE  CacheBacked'
<1> USE UrlOfAssumption, NoValueAssumption
    DEF Trusted, May, CacheInv, StoreInv, TypeOK, CacheBacked, Committed,
        PostInFlight, Accepted, creatorVars, readerVars
<1>1. ASSUME NEW c \in Creators, NEW k \in Keys, Create(c, k)
      PROVE  CacheBacked'
  BY <1>1 DEF Create, Inserted
<1>2. ASSUME NEW c \in Creators, NEW k \in Keys, CreateUnacknowledged(c, k)
      PROVE  CacheBacked'
  BY <1>2 DEF CreateUnacknowledged, Inserted, Fail
<1>3. ASSUME NEW c \in Creators, CreateFails(c) PROVE CacheBacked'
  BY <1>3 DEF CreateFails, Fail
<1>4. ASSUME NEW c \in Creators, SendPopulate(c) PROVE CacheBacked'
  BY <1>4 DEF SendPopulate
<1>5. ASSUME NEW c \in Creators, PopulateRejected(c) PROVE CacheBacked'
  BY <1>5 DEF PopulateRejected
<1>6. ASSUME NEW c \in Creators, Receive(c) PROVE CacheBacked'
  BY <1>6 DEF Receive, Answer
<1>7. ASSUME NEW c \in Creators, PopulateFails(c) PROVE CacheBacked'
  BY <1>7 DEF PopulateFails
<1>8. ASSUME NEW c \in Creators, Disconnect(c) PROVE CacheBacked'
  BY <1>8 DEF Disconnect
<1>9. ASSUME NEW c \in Creators, Rollback(c) PROVE CacheBacked'
  BY <1>9 DEF Rollback, Deleted, AfterRollback, Fail
<1>10. ASSUME NEW c \in Creators, RollbackFails(c) PROVE CacheBacked'
  BY <1>10 DEF RollbackFails, Fail
<1>11. ASSUME NEW c \in Creators, Crash(c) PROVE CacheBacked'
  BY <1>11 DEF Crash
<1>12. ASSUME NEW c \in Creators, Store(c) PROVE CacheBacked'
  BY <1>12 DEF Store, Payload
<1>13. ASSUME NEW c \in Creators, Refuse(c) PROVE CacheBacked'
  BY <1>13 DEF Refuse
<1>14. ASSUME NEW r \in Readers, Hit(r) PROVE CacheBacked'
  BY <1>14 DEF Hit, Reply
<1>15. ASSUME NEW r \in Readers, Miss(r) PROVE CacheBacked'
  BY <1>15 DEF Miss
<1>16. ASSUME NEW r \in Readers, Fetch(r) PROVE CacheBacked'
  BY <1>16 DEF Fetch
<1>17. ASSUME NEW r \in Readers, FetchNotFound(r) PROVE CacheBacked'
  BY <1>17 DEF FetchNotFound, Reply
<1>18. ASSUME NEW r \in Readers, Fill(r) PROVE CacheBacked'
  BY <1>18, KnownAtFill DEF Fill, Reply
<1>19. ASSUME NEW r \in Readers, ReadFails(r) PROVE CacheBacked'
  BY <1>19 DEF ReadFails, Reply
<1>20. ASSUME NEW r \in Readers, NEW k \in Keys, Ask(r, k) PROVE CacheBacked'
  BY <1>20 DEF Ask
<1>21. ASSUME NEW k \in Keys, Expire(k) PROVE CacheBacked'
  BY <1>21 DEF Expire
<1>22. CASE UNCHANGED vars
  BY <1>22 DEF vars
<1> QED
  BY <1>1, <1>2, <1>3, <1>4, <1>5, <1>6, <1>7, <1>8, <1>9, <1>10, <1>11, <1>12,
     <1>13, <1>14, <1>15, <1>16, <1>17, <1>18, <1>19, <1>20, <1>21, <1>22 DEF
     Next, Writing, Serving, Reading

\* Every step keeps ReadersKnow: a reader that fetches and fills carries what
\* has been published.
LEMMA ReadersKnowStep ==
  ASSUME Trusted, CacheInv, [Next]_vars
  PROVE  ReadersKnow'
<1> USE StoreInvImplies
    DEF Trusted, May, CacheInv, StoreInv, TypeOK, ReadersKnow, DueKept,
        RowsDrawn, PublishedIsStored, Drawable, creatorVars, readerVars
<1>1. ASSUME NEW c \in Creators, NEW k \in Keys, Create(c, k)
      PROVE  ReadersKnow'
  BY <1>1 DEF Create, Inserted
<1>2. ASSUME NEW c \in Creators, NEW k \in Keys, CreateUnacknowledged(c, k)
      PROVE  ReadersKnow'
  BY <1>2 DEF CreateUnacknowledged, Inserted, Fail
<1>3. ASSUME NEW c \in Creators, CreateFails(c) PROVE ReadersKnow'
  BY <1>3 DEF CreateFails, Fail
<1>4. ASSUME NEW c \in Creators, SendPopulate(c) PROVE ReadersKnow'
  BY <1>4 DEF SendPopulate
<1>5. ASSUME NEW c \in Creators, PopulateRejected(c) PROVE ReadersKnow'
  BY <1>5 DEF PopulateRejected
<1>6. ASSUME NEW c \in Creators, Receive(c) PROVE ReadersKnow'
  BY <1>6 DEF Receive, Answer
<1>7. ASSUME NEW c \in Creators, PopulateFails(c) PROVE ReadersKnow'
  BY <1>7 DEF PopulateFails
<1>8. ASSUME NEW c \in Creators, Disconnect(c) PROVE ReadersKnow'
  BY <1>8 DEF Disconnect
<1>9. ASSUME NEW c \in Creators, Rollback(c) PROVE ReadersKnow'
  BY <1>9 DEF Rollback, Deleted, AfterRollback, Fail
<1>10. ASSUME NEW c \in Creators, RollbackFails(c) PROVE ReadersKnow'
  BY <1>10 DEF RollbackFails, Fail
<1>11. ASSUME NEW c \in Creators, Crash(c) PROVE ReadersKnow'
  BY <1>11 DEF Crash
<1>12. ASSUME NEW c \in Creators, Store(c) PROVE ReadersKnow'
  BY <1>12 DEF Store, Payload
<1>13. ASSUME NEW c \in Creators, Refuse(c) PROVE ReadersKnow'
  BY <1>13 DEF Refuse
<1>14. ASSUME NEW r \in Readers, Hit(r) PROVE ReadersKnow'
  BY <1>14 DEF Hit, Reply
<1>15. ASSUME NEW r \in Readers, Miss(r) PROVE ReadersKnow'
  BY <1>15 DEF Miss
<1>16. ASSUME NEW r \in Readers, Fetch(r) PROVE ReadersKnow'
  BY <1>16 DEF Fetch
<1>17. ASSUME NEW r \in Readers, FetchNotFound(r) PROVE ReadersKnow'
  BY <1>17 DEF FetchNotFound, Reply
<1>18. ASSUME NEW r \in Readers, Fill(r) PROVE ReadersKnow'
  BY <1>18 DEF Fill, Reply
<1>19. ASSUME NEW r \in Readers, ReadFails(r) PROVE ReadersKnow'
  BY <1>19 DEF ReadFails, Reply
<1>20. ASSUME NEW r \in Readers, NEW k \in Keys, Ask(r, k) PROVE ReadersKnow'
  BY <1>20 DEF Ask
<1>21. ASSUME NEW k \in Keys, Expire(k) PROVE ReadersKnow'
  BY <1>21 DEF Expire
<1>22. CASE UNCHANGED vars
  BY <1>22 DEF vars
<1> QED
  BY <1>1, <1>2, <1>3, <1>4, <1>5, <1>6, <1>7, <1>8, <1>9, <1>10, <1>11, <1>12,
     <1>13, <1>14, <1>15, <1>16, <1>17, <1>18, <1>19, <1>20, <1>21, <1>22 DEF
     Next, Writing, Serving, Reading

\* The cache is backed in every trusted environment.
LEMMA CacheInvariant == ASSUME Trusted PROVE Spec => []CacheInv
<1>1. Init => CacheInv
  BY StoreInvariant, TypeInit
  DEF Init, CacheInv, StoreInv, RowsOwned, OneOwner, Owner, PublishedByOwner,
      DueKept, CacheBacked, PostInFlight, RowsDrawn, ReadersKnow
<1>2. CacheInv /\ [Next]_vars => CacheInv'
  <2> SUFFICES ASSUME CacheInv, [Next]_vars PROVE CacheInv'
    OBVIOUS
  <2>1. StoreInv'
    BY TypeStep, OwnersStep, PublishedStep, DueStep DEF StoreInv, CacheInv
  <2> QED
    BY <2>1, PostStep, CacheBackedStep, ReadersKnowStep DEF CacheInv
<1> QED
  BY <1>1, <1>2, PTL DEF Spec

\* Without "lost" and "guess", every cache entry has its row.
THEOREM CacheIsBacked == ASSUME Trusted PROVE Spec => []NoOrphanCache
<1>1. CacheInv => NoOrphanCache
  BY DEF CacheInv, StoreInv, RowsOwned, Owner, CacheBacked, Committed,
         NoOrphanCache
<1> QED
  BY <1>1, CacheInvariant, PTL

-------------------------------------------------------------------------------
(* The implementation of UrlStore.                                         *)

\* Every step keeps the drawn keys distinct.
LEMMA DrawnOnceStep ==
  ASSUME "collision" \notin Env, RefineInv, [Next]_vars
  PROVE  DrawnOnce'
<1> USE NoValueAssumption
    DEF May, RefineInv, StoreInv, TypeOK, DrawnOnce, RowsOwned, Owner,
        Drawable, creatorVars, readerVars
<1>1. ASSUME NEW c \in Creators, NEW k \in Keys, Create(c, k) PROVE DrawnOnce'
  BY <1>1 DEF Create, Inserted
<1>2. ASSUME NEW c \in Creators, NEW k \in Keys, CreateUnacknowledged(c, k)
      PROVE  DrawnOnce'
  BY <1>2 DEF CreateUnacknowledged, Inserted, Fail
<1>3. ASSUME NEW c \in Creators, CreateFails(c) PROVE DrawnOnce'
  BY <1>3 DEF CreateFails, Fail
<1>4. ASSUME NEW c \in Creators, SendPopulate(c) PROVE DrawnOnce'
  BY <1>4 DEF SendPopulate
<1>5. ASSUME NEW c \in Creators, PopulateRejected(c) PROVE DrawnOnce'
  BY <1>5 DEF PopulateRejected
<1>6. ASSUME NEW c \in Creators, Receive(c) PROVE DrawnOnce'
  BY <1>6 DEF Receive, Answer
<1>7. ASSUME NEW c \in Creators, PopulateFails(c) PROVE DrawnOnce'
  BY <1>7 DEF PopulateFails
<1>8. ASSUME NEW c \in Creators, Disconnect(c) PROVE DrawnOnce'
  BY <1>8 DEF Disconnect
<1>9. ASSUME NEW c \in Creators, Rollback(c) PROVE DrawnOnce'
  BY <1>9 DEF Rollback, Deleted, AfterRollback, Fail
<1>10. ASSUME NEW c \in Creators, RollbackFails(c) PROVE DrawnOnce'
  BY <1>10 DEF RollbackFails, Fail
<1>11. ASSUME NEW c \in Creators, Crash(c) PROVE DrawnOnce'
  BY <1>11 DEF Crash
<1>12. ASSUME NEW c \in Creators, Store(c) PROVE DrawnOnce'
  BY <1>12 DEF Store, Payload
<1>13. ASSUME NEW c \in Creators, Refuse(c) PROVE DrawnOnce'
  BY <1>13 DEF Refuse
<1>14. ASSUME NEW r \in Readers, Hit(r) PROVE DrawnOnce'
  BY <1>14 DEF Hit, Reply
<1>15. ASSUME NEW r \in Readers, Miss(r) PROVE DrawnOnce'
  BY <1>15 DEF Miss
<1>16. ASSUME NEW r \in Readers, Fetch(r) PROVE DrawnOnce'
  BY <1>16 DEF Fetch
<1>17. ASSUME NEW r \in Readers, FetchNotFound(r) PROVE DrawnOnce'
  BY <1>17 DEF FetchNotFound, Reply
<1>18. ASSUME NEW r \in Readers, Fill(r) PROVE DrawnOnce'
  BY <1>18 DEF Fill, Reply
<1>19. ASSUME NEW r \in Readers, ReadFails(r) PROVE DrawnOnce'
  BY <1>19 DEF ReadFails, Reply
<1>20. ASSUME NEW r \in Readers, NEW k \in Keys, Ask(r, k) PROVE DrawnOnce'
  BY <1>20 DEF Ask
<1>21. ASSUME NEW k \in Keys, Expire(k) PROVE DrawnOnce'
  BY <1>21 DEF Expire
<1>22. CASE UNCHANGED vars
  BY <1>22 DEF vars
<1> QED
  BY <1>1, <1>2, <1>3, <1>4, <1>5, <1>6, <1>7, <1>8, <1>9, <1>10, <1>11, <1>12,
     <1>13, <1>14, <1>15, <1>16, <1>17, <1>18, <1>19, <1>20, <1>21, <1>22 DEF
     Next, Writing, Serving, Reading

\* Every step keeps the creation that drew a key the only source of its values.
LEMMA SingleSourceStep ==
  ASSUME RefineInv, [Next]_vars
  PROVE  SingleSource'
<1> USE UrlOfAssumption, NoValueAssumption
    DEF RefineInv, StoreInv, TypeOK, DrawnOnce, SingleSource, From,
        creatorVars, readerVars
<1>1. ASSUME NEW c \in Creators, NEW k \in Keys, Create(c, k)
      PROVE  SingleSource'
  BY <1>1 DEF Create, Inserted
<1>2. ASSUME NEW c \in Creators, NEW k \in Keys, CreateUnacknowledged(c, k)
      PROVE  SingleSource'
  BY <1>2 DEF CreateUnacknowledged, Inserted, Fail
<1>3. ASSUME NEW c \in Creators, CreateFails(c) PROVE SingleSource'
  BY <1>3 DEF CreateFails, Fail
<1>4. ASSUME NEW c \in Creators, SendPopulate(c) PROVE SingleSource'
  BY <1>4 DEF SendPopulate
<1>5. ASSUME NEW c \in Creators, PopulateRejected(c) PROVE SingleSource'
  BY <1>5 DEF PopulateRejected
<1>6. ASSUME NEW c \in Creators, Receive(c) PROVE SingleSource'
  BY <1>6 DEF Receive, Answer
<1>7. ASSUME NEW c \in Creators, PopulateFails(c) PROVE SingleSource'
  BY <1>7 DEF PopulateFails
<1>8. ASSUME NEW c \in Creators, Disconnect(c) PROVE SingleSource'
  BY <1>8 DEF Disconnect
<1>9. ASSUME NEW c \in Creators, Rollback(c) PROVE SingleSource'
  BY <1>9 DEF Rollback, Deleted, AfterRollback, Fail
<1>10. ASSUME NEW c \in Creators, RollbackFails(c) PROVE SingleSource'
  BY <1>10 DEF RollbackFails, Fail
<1>11. ASSUME NEW c \in Creators, Crash(c) PROVE SingleSource'
  BY <1>11 DEF Crash
<1>12. ASSUME NEW c \in Creators, Store(c) PROVE SingleSource'
  BY <1>12 DEF Store, Payload
<1>13. ASSUME NEW c \in Creators, Refuse(c) PROVE SingleSource'
  BY <1>13 DEF Refuse
<1>14. ASSUME NEW r \in Readers, Hit(r) PROVE SingleSource'
  BY <1>14 DEF Hit, Reply
<1>15. ASSUME NEW r \in Readers, Miss(r) PROVE SingleSource'
  BY <1>15 DEF Miss
<1>16. ASSUME NEW r \in Readers, Fetch(r) PROVE SingleSource'
  BY <1>16 DEF Fetch
<1>17. ASSUME NEW r \in Readers, FetchNotFound(r) PROVE SingleSource'
  BY <1>17 DEF FetchNotFound, Reply
<1>18. ASSUME NEW r \in Readers, Fill(r) PROVE SingleSource'
  BY <1>18 DEF Fill, Reply
<1>19. ASSUME NEW r \in Readers, ReadFails(r) PROVE SingleSource'
  BY <1>19 DEF ReadFails, Reply
<1>20. ASSUME NEW r \in Readers, NEW k \in Keys, Ask(r, k) PROVE SingleSource'
  BY <1>20 DEF Ask
<1>21. ASSUME NEW k \in Keys, Expire(k) PROVE SingleSource'
  BY <1>21 DEF Expire
<1>22. CASE UNCHANGED vars
  BY <1>22 DEF vars
<1> QED
  BY <1>1, <1>2, <1>3, <1>4, <1>5, <1>6, <1>7, <1>8, <1>9, <1>10, <1>11, <1>12,
     <1>13, <1>14, <1>15, <1>16, <1>17, <1>18, <1>19, <1>20, <1>21, <1>22 DEF
     Next, Writing, Serving, Reading

\* The invariant of the refinement holds when no drawn key collides.
LEMMA RefineInvariant ==
  ASSUME "collision" \notin Env PROVE Spec => []RefineInv
<1>1. Init => RefineInv
  BY TypeInit
  DEF Init, RefineInv, StoreInv, RowsOwned, OneOwner, Owner, PublishedByOwner,
      DueKept, DrawnOnce, SingleSource
<1>2. RefineInv /\ [Next]_vars => RefineInv'
  <2> SUFFICES ASSUME RefineInv, [Next]_vars PROVE RefineInv'
    OBVIOUS
  <2>1. StoreInv'
    BY TypeStep, OwnersStep, PublishedStep, DueStep DEF StoreInv, RefineInv
  <2> QED
    BY <2>1, DrawnOnceStep, SingleSourceStep DEF RefineInv
<1> QED
  BY <1>1, <1>2, PTL DEF Spec

\* What is stored, cached or carried under the key a reader was promised a
\* URL for is that URL.
AnswersAreDue ==
  \A r \in Readers :
    /\ rpc[r] = "fill" => got[r] # NoUrl
    /\ rpc[r] # "idle" /\ due[r] # NoUrl =>
         /\ cache[wants[r]] # NoUrl => cache[wants[r]] = due[r]
         /\ db[wants[r]] = due[r]
         /\ rpc[r] = "fill" => got[r] = due[r]

\* The URL a reader was promised is in the table, put there by its creator.
LEMMA DueIsStored ==
  ASSUME StoreInv, NEW r \in Readers, rpc[r] # "idle", due[r] # NoUrl
  PROVE  /\ wants[r] \in Keys /\ db[wants[r]] = due[r]
         /\ \E c \in Creators :
              key[c] = wants[r] /\ UrlOf[c] = due[r] /\ Owner(c)
<1>1. wants[r] \in Keys /\ published[wants[r]] = due[r]
  BY DEF StoreInv, TypeOK, DueKept
<1>2. PICK c \in Creators : pc[c] = "answered" /\ key[c] = wants[r]
                             /\ published[wants[r]] = UrlOf[c]
  BY <1>1 DEF StoreInv, PublishedByOwner
<1> QED
  BY <1>1, <1>2 DEF StoreInv, RowsOwned, Owner

\* So it is when no drawn key collides, as a key then has a single source ...
LEMMA SingleSourceIsDue == RefineInv => AnswersAreDue
<1> SUFFICES ASSUME RefineInv PROVE AnswersAreDue
  OBVIOUS
<1>1. ASSUME NEW r \in Readers, rpc[r] = "fill" PROVE got[r] # NoUrl
  BY <1>1, UrlOfAssumption, NoValueAssumption DEF RefineInv, SingleSource, From
<1>2. ASSUME NEW r \in Readers, rpc[r] # "idle", due[r] # NoUrl
      PROVE  /\ cache[wants[r]] # NoUrl => cache[wants[r]] = due[r]
             /\ db[wants[r]] = due[r]
             /\ rpc[r] = "fill" => got[r] = due[r]
  <2>1. PICK c \in Creators : /\ key[c] = wants[r] /\ UrlOf[c] = due[r]
                              /\ wants[r] \in Keys /\ db[wants[r]] = due[r]
    BY <1>2, DueIsStored DEF RefineInv
  <2>2. \A u : From(wants[r], u) => u = due[r]
    BY <2>1, NoValueAssumption DEF RefineInv, DrawnOnce, From
  <2> QED
    BY <2>1, <2>2 DEF RefineInv, SingleSource
<1> QED
  BY <1>1, <1>2 DEF AnswersAreDue

\* ... and when the cache is backed and readers know their keys.
LEMMA BackedIsDue == CacheInv => AnswersAreDue
<1> SUFFICES ASSUME CacheInv, NEW r \in Readers
             PROVE  /\ rpc[r] = "fill" => got[r] # NoUrl
                    /\ rpc[r] # "idle" /\ due[r] # NoUrl =>
                         /\ cache[wants[r]] # NoUrl => cache[wants[r]] = due[r]
                         /\ db[wants[r]] = due[r]
                         /\ rpc[r] = "fill" => got[r] = due[r]
  BY DEF AnswersAreDue
<1>1. rpc[r] = "fill" => got[r] = due[r] /\ due[r] # NoUrl
  BY DEF CacheInv, ReadersKnow
<1>2. CASE rpc[r] # "idle" /\ due[r] # NoUrl
  <2>1. wants[r] \in Keys /\ db[wants[r]] = due[r]
    BY <1>2, DueIsStored DEF CacheInv
  <2>2. cache[wants[r]] # NoUrl => cache[wants[r]] = due[r]
    BY <2>1 DEF CacheInv, StoreInv, CacheBacked, Committed, RowsOwned, Owner
  <2> QED
    BY <1>1, <2>1, <2>2
<1> QED
  BY <1>1, <1>2

\* Every step is a step of UrlStore or leaves its variables alone.
LEMMA StepSimulation ==
  ASSUME StoreInv, AnswersAreDue, [Next]_vars
  PROVE  [Abstract!Next]_(Abstract!vars)
<1> USE UrlOfAssumption, NoValueAssumption
    DEF AnswersAreDue, StoreInv, TypeOK, Abstract!Next, Abstract!vars,
        Abstract!Answers, creatorVars, readerVars
<1>1. ASSUME NEW c \in Creators, NEW k \in Keys, Create(c, k)
      PROVE  [Abstract!Next]_(Abstract!vars)
  BY <1>1 DEF Create, Inserted
<1>2. ASSUME NEW c \in Creators, NEW k \in Keys, CreateUnacknowledged(c, k)
      PROVE  [Abstract!Next]_(Abstract!vars)
  BY <1>2 DEF CreateUnacknowledged, Inserted, Fail
<1>3. ASSUME NEW c \in Creators, CreateFails(c)
      PROVE  [Abstract!Next]_(Abstract!vars)
  BY <1>3 DEF CreateFails, Fail
<1>4. ASSUME NEW c \in Creators, SendPopulate(c)
      PROVE  [Abstract!Next]_(Abstract!vars)
  BY <1>4 DEF SendPopulate
<1>5. ASSUME NEW c \in Creators, PopulateRejected(c)
      PROVE  [Abstract!Next]_(Abstract!vars)
  BY <1>5 DEF PopulateRejected
<1>6. ASSUME NEW c \in Creators, Receive(c)
      PROVE  [Abstract!Next]_(Abstract!vars)
  <2>1. key[c] \in Keys /\ published[key[c]] = NoUrl
    BY <1>6 DEF Receive, RowsOwned, OneOwner, Owner, PublishedByOwner
  <2>2. Abstract!Publish(key[c], UrlOf[c])
    BY <1>6, <2>1 DEF Receive, Answer, Abstract!Publish
  <2> QED
    BY <2>1, <2>2
<1>7. ASSUME NEW c \in Creators, PopulateFails(c)
      PROVE  [Abstract!Next]_(Abstract!vars)
  BY <1>7 DEF PopulateFails
<1>8. ASSUME NEW c \in Creators, Disconnect(c)
      PROVE  [Abstract!Next]_(Abstract!vars)
  BY <1>8 DEF Disconnect
<1>9. ASSUME NEW c \in Creators, Rollback(c)
      PROVE  [Abstract!Next]_(Abstract!vars)
  BY <1>9 DEF Rollback, Deleted, AfterRollback, Fail
<1>10. ASSUME NEW c \in Creators, RollbackFails(c)
       PROVE  [Abstract!Next]_(Abstract!vars)
  BY <1>10 DEF RollbackFails, Fail
<1>11. ASSUME NEW c \in Creators, Crash(c)
       PROVE  [Abstract!Next]_(Abstract!vars)
  BY <1>11 DEF Crash
<1>12. ASSUME NEW c \in Creators, Store(c)
       PROVE  [Abstract!Next]_(Abstract!vars)
  BY <1>12 DEF Store, Payload
<1>13. ASSUME NEW c \in Creators, Refuse(c)
       PROVE  [Abstract!Next]_(Abstract!vars)
  BY <1>13 DEF Refuse
<1>14. ASSUME NEW r \in Readers, Hit(r) PROVE [Abstract!Next]_(Abstract!vars)
  <2>1. /\ cache[wants[r]] \in Abstract!Answers
        /\ due[r] # NoUrl => cache[wants[r]] \in {due[r], Failed}
    BY <1>14 DEF Hit
  <2>2. Abstract!Reply(r, cache[wants[r]])
    BY <1>14, <2>1 DEF Hit, Reply, Abstract!Reply
  <2> QED
    BY <2>1, <2>2
<1>15. ASSUME NEW r \in Readers, Miss(r) PROVE [Abstract!Next]_(Abstract!vars)
  BY <1>15 DEF Miss
<1>16. ASSUME NEW r \in Readers, Fetch(r) PROVE [Abstract!Next]_(Abstract!vars)
  BY <1>16 DEF Fetch
<1>17. ASSUME NEW r \in Readers, FetchNotFound(r)
       PROVE  [Abstract!Next]_(Abstract!vars)
  <2>1. /\ NotFound \in Abstract!Answers
        /\ due[r] # NoUrl => NotFound \in {due[r], Failed}
    BY <1>17 DEF FetchNotFound
  <2>2. Abstract!Reply(r, NotFound)
    BY <1>17, <2>1 DEF FetchNotFound, Reply, Abstract!Reply
  <2> QED
    BY <2>1, <2>2
<1>18. ASSUME NEW r \in Readers, Fill(r) PROVE [Abstract!Next]_(Abstract!vars)
  <2>1. /\ got[r] \in Abstract!Answers
        /\ due[r] # NoUrl => got[r] \in {due[r], Failed}
    BY <1>18 DEF Fill
  <2>2. Abstract!Reply(r, got[r])
    BY <1>18, <2>1 DEF Fill, Reply, Abstract!Reply
  <2> QED
    BY <2>1, <2>2
<1>19. ASSUME NEW r \in Readers, ReadFails(r)
       PROVE  [Abstract!Next]_(Abstract!vars)
  <2>1. /\ Failed \in Abstract!Answers
        /\ due[r] # NoUrl => Failed \in {due[r], Failed}
    BY <1>19 DEF ReadFails
  <2>2. Abstract!Reply(r, Failed)
    BY <1>19, <2>1 DEF ReadFails, Reply, Abstract!Reply
  <2> QED
    BY <2>1, <2>2
<1>20. ASSUME NEW r \in Readers, NEW k \in Keys, Ask(r, k)
       PROVE  [Abstract!Next]_(Abstract!vars)
  <2>1. Abstract!Ask(r, k)
    BY <1>20 DEF Ask, Abstract!Ask
  <2> QED
    BY <2>1
<1>21. ASSUME NEW k \in Keys, Expire(k) PROVE [Abstract!Next]_(Abstract!vars)
  BY <1>21 DEF Expire
<1>22. CASE UNCHANGED vars
  BY <1>22 DEF vars
<1> QED
  BY <1>1, <1>2, <1>3, <1>4, <1>5, <1>6, <1>7, <1>8, <1>9, <1>10, <1>11, <1>12,
     <1>13, <1>14, <1>15, <1>16, <1>17, <1>18, <1>19, <1>20, <1>21, <1>22 DEF
     Next, Writing, Serving, Reading

\* Clients cannot tell the service from UrlStore when no drawn key collides;
\* nor when keys do collide, unless a populate is carried out in spite of its
\* failure or a reader guesses a key.
THEOREM Implementation ==
  ASSUME "collision" \notin Env \/ Trusted PROVE Spec => ImplementsStore
<1>1. Init => Abstract!Init
  BY DEF Init, Abstract!Init
<1>2. CASE "collision" \notin Env
  BY <1>1, <1>2, RefineInvariant, StoreInvariant, SingleSourceIsDue,
     StepSimulation, PTL
  DEF Spec, ImplementsStore, Abstract!Spec
<1>3. CASE Trusted
  BY <1>1, <1>3, CacheInvariant, StoreInvariant, BackedIsDue, StepSimulation,
     PTL
  DEF Spec, ImplementsStore, Abstract!Spec
<1> QED
  BY <1>2, <1>3

-------------------------------------------------------------------------------
(* FailedLeavesNothing.                                                    *)

\* INSERT and DELETE are acknowledged if and only if they are carried out.
Acknowledged == {"dbAck", "rollback"} \cap Env = {}

\* Every row belongs to a creation that may still roll it back, or died, or
\* has published it.
RowsHeld ==
  \A k \in Keys : db[k] # NoUrl =>
    \E c \in Creators : Owner(c) /\ key[c] = k

\* Every step keeps the rows held: a creation gives up its row by deleting it.
LEMMA RowsHeldStep ==
  ASSUME Acknowledged, StoreInv, RowsHeld, [Next]_vars
  PROVE  RowsHeld'
<1> USE NoValueAssumption
    DEF Acknowledged, May, StoreInv, TypeOK, RowsHeld, Owner, creatorVars,
        readerVars
<1>1. ASSUME NEW c \in Creators, NEW k \in Keys, Create(c, k) PROVE RowsHeld'
  BY <1>1 DEF Create, Inserted
<1>2. ASSUME NEW c \in Creators, NEW k \in Keys, CreateUnacknowledged(c, k)
      PROVE  RowsHeld'
  BY <1>2 DEF CreateUnacknowledged
<1>3. ASSUME NEW c \in Creators, CreateFails(c) PROVE RowsHeld'
  BY <1>3 DEF CreateFails, Fail
<1>4. ASSUME NEW c \in Creators, SendPopulate(c) PROVE RowsHeld'
  BY <1>4 DEF SendPopulate
<1>5. ASSUME NEW c \in Creators, PopulateRejected(c) PROVE RowsHeld'
  BY <1>5 DEF PopulateRejected
<1>6. ASSUME NEW c \in Creators, Receive(c) PROVE RowsHeld'
  BY <1>6 DEF Receive, Answer
<1>7. ASSUME NEW c \in Creators, PopulateFails(c) PROVE RowsHeld'
  BY <1>7 DEF PopulateFails
<1>8. ASSUME NEW c \in Creators, Disconnect(c) PROVE RowsHeld'
  BY <1>8 DEF Disconnect
<1>9. ASSUME NEW c \in Creators, Rollback(c) PROVE RowsHeld'
  BY <1>9 DEF Rollback, Deleted, AfterRollback, Fail
<1>10. ASSUME NEW c \in Creators, RollbackFails(c) PROVE RowsHeld'
  BY <1>10 DEF RollbackFails
<1>11. ASSUME NEW c \in Creators, Crash(c) PROVE RowsHeld'
  BY <1>11 DEF Crash
<1>12. ASSUME UNCHANGED <<db, pc, key>> PROVE RowsHeld'
  BY <1>12
<1>13. ASSUME NEW c \in Creators, Serving(c) PROVE RowsHeld'
  BY <1>12, <1>13 DEF Serving, Store, Refuse
<1>14. ASSUME NEW r \in Readers, Reading(r) PROVE RowsHeld'
  BY <1>12, <1>14
  DEF Reading, Hit, Miss, Fetch, FetchNotFound, Fill, ReadFails, Reply
<1>15. ASSUME NEW r \in Readers, NEW k \in Keys, Ask(r, k) PROVE RowsHeld'
  BY <1>12, <1>15 DEF Ask
<1>16. ASSUME NEW k \in Keys, Expire(k) PROVE RowsHeld'
  BY <1>12, <1>16 DEF Expire
<1>17. CASE UNCHANGED vars
  BY <1>12, <1>17 DEF vars
<1> QED
  BY <1>1, <1>2, <1>3, <1>4, <1>5, <1>6, <1>7, <1>8, <1>9, <1>10, <1>11, <1>13,
     <1>14, <1>15, <1>16, <1>17 DEF Next, Writing

\* A creation that failed after drawing its key is no owner, so what there is
\* under its key comes from another creation that drew it.
THEOREM FailureLeavesNothing ==
  ASSUME Trusted, Acknowledged PROVE Spec => []FailedLeavesNothing
<1>1. Init => RowsHeld
  BY DEF Init, RowsHeld
<1>2. StoreInv /\ RowsHeld /\ [Next]_vars => RowsHeld'
  BY RowsHeldStep
<1>3. CacheInv /\ RowsHeld => FailedLeavesNothing
  <2> SUFFICES ASSUME CacheInv, RowsHeld, NEW c \in Creators,
                      pc[c] = "failed", key[c] # NoKey,
                      \A d \in Creators \ {c} : key[d] # key[c]
               PROVE  db[key[c]] = NoUrl /\ cache[key[c]] = NoUrl
    BY DEF FailedLeavesNothing
  <2>1. key[c] \in Keys
    BY DEF CacheInv, StoreInv, TypeOK
  <2>2. db[key[c]] = NoUrl
    BY <2>1 DEF RowsHeld, Owner
  <2>3. cache[key[c]] = NoUrl
    BY <2>1 DEF CacheInv, CacheBacked, Committed
  <2> QED
    BY <2>2, <2>3
<1> QED
  BY <1>1, <1>2, <1>3, StoreInvariant, CacheInvariant, PTL DEF Spec

(***************************************************************************)
(* Orphans do not come back: what EventuallyNoOrphans rests on.            *)
(***************************************************************************)

\* Key k has been drawn, the creations that drew it are over and none of their
\* POSTs is on its way, and no reader is about to fill in anything but its row.
Settled(k) ==
  /\ \E c \in Creators : key[c] = k
  /\ \A c \in Creators : key[c] = k =>
       pc[c] \in {"answered", "failed", "crashed"} /\ post[c] # "sent"
  /\ \A r \in Readers : rpc[r] = "fill" /\ wants[r] = k => got[r] = db[k]

IsOrphan(k) == cache[k] # NoUrl /\ db[k] # cache[k]

Undrawn == \A c \in Creators : pc[c] = "start" => key[c] = NoKey

\* A creation that still goes on leaves the settled keys alone.
LEMMA SettledByCreation ==
  ASSUME TypeOK, Undrawn, "collision" \notin Env, NEW k \in Keys, Settled(k),
         NEW c \in Creators, Writing(c) \/ Serving(c)
  PROVE  /\ db'[k] = db[k] /\ cache'[k] = cache[k] /\ UNCHANGED readerVars
         /\ \A d \in Creators : key'[d] = k <=> key[d] = k
         /\ \A d \in Creators : key[d] = k => pc'[d] = pc[d] /\ post'[d] = post[d]
<1>1. key[c] # k
  <2>1. CASE pc[c] = "start"
    BY <2>1, NoValueAssumption DEF Undrawn
  <2>2. CASE pc[c] # "start" /\ key[c] = k
    <3>1. pc[c] \in {"answered", "failed", "crashed"} /\ post[c] # "sent"
      BY <2>2 DEF Settled
    <3> QED
      BY <2>2, <3>1 DEF Writing, Serving, Create, CreateUnacknowledged, CreateFails,
         SendPopulate, PopulateRejected, Receive, PopulateFails, Disconnect,
         Rollback, RollbackFails, Crash, Store, Refuse
  <2> QED BY <2>1, <2>2
<1>2. ASSUME NEW l \in Keys, Create(c, l) \/ CreateUnacknowledged(c, l)
      PROVE  l # k
  <2>1. \A d \in Creators : key[d] # l
    BY <1>2 DEF Create, CreateUnacknowledged, Drawable, May
  <2> QED BY <2>1 DEF Settled
<1>3. CASE \E l \in Keys : Create(c, l) \/ CreateUnacknowledged(c, l)
  BY <1>1, <1>2, <1>3 DEF Create, CreateUnacknowledged, Inserted, Fail, TypeOK
<1>4. CASE \/ CreateFails(c) \/ SendPopulate(c) \/ PopulateRejected(c)
           \/ Receive(c) \/ PopulateFails(c) \/ Disconnect(c)
           \/ RollbackFails(c) \/ Crash(c)
  BY <1>1, <1>4 DEF CreateFails, SendPopulate, PopulateRejected, Receive, Answer,
     PopulateFails, Disconnect, RollbackFails, Crash, Fail, TypeOK
<1>5. CASE Rollback(c)
  BY <1>1, <1>5 DEF Rollback, Deleted, AfterRollback, Fail, TypeOK
<1>6. CASE Serving(c)
  BY <1>1, <1>6 DEF Serving, Store, Refuse, TypeOK
<1> QED BY <1>3, <1>4, <1>5, <1>6 DEF Writing

\* A reader fills in what it fetched from the row.
LEMMA SettledByReader ==
  ASSUME TypeOK, NEW k \in Keys, Settled(k), ~IsOrphan(k), NEW r \in Readers,
         Reading(r) \/ \E l \in Keys : Ask(r, l)
  PROVE  Settled(k)' /\ ~IsOrphan(k)'
<1>1. UNCHANGED <<db, creatorVars>>
  BY DEF Reading, Ask, Hit, Miss, Fetch, FetchNotFound, Fill, ReadFails
<1>2. \A s \in Readers : s # r =>
        rpc'[s] = rpc[s] /\ wants'[s] = wants[s] /\ got'[s] = got[s]
  BY DEF Reading, Ask, Hit, Miss, Fetch, FetchNotFound, Fill, ReadFails, Reply,
     TypeOK
<1>3. rpc'[r] = "fill" /\ wants'[r] = k => got'[r] = db[k]
  BY DEF Reading, Ask, Hit, Miss, Fetch, FetchNotFound, Fill, ReadFails, Reply,
     TypeOK
<1>4. Settled(k)'
  BY <1>1, <1>2, <1>3 DEF Settled, creatorVars
<1>5. cache'[k] = cache[k] \/ cache'[k] = db[k]
  BY DEF Settled, Reading, Ask, Hit, Miss, Fetch, FetchNotFound, Fill, ReadFails,
     TypeOK
<1> QED BY <1>1, <1>4, <1>5 DEF IsOrphan

\* Once a key has settled and its orphan has expired, neither late POSTs nor
\* readers that were suspended bring one back (redirect.controller.ts:17),
\* unless the key is drawn again.
THEOREM OrphansStayAway ==
  ASSUME "collision" \notin Env
  PROVE  Spec => [][\A k \in Keys : Settled(k) /\ ~IsOrphan(k) =>
                      Settled(k)' /\ ~IsOrphan(k)']_vars
<1>1. Init => Undrawn
  BY DEF Init, Undrawn
<1>2. TypeOK /\ Undrawn /\ [Next]_vars => Undrawn'
  <2> SUFFICES ASSUME TypeOK, Undrawn, [Next]_vars PROVE Undrawn'
    OBVIOUS
  <2>1. ASSUME NEW c \in Creators, Writing(c) \/ Serving(c) PROVE Undrawn'
    BY <2>1 DEF Writing, Serving, Create, CreateUnacknowledged, CreateFails,
       SendPopulate, PopulateRejected, Receive, PopulateFails, Disconnect, Rollback,
       AfterRollback, RollbackFails, Crash, Store, Refuse, Answer, Fail, TypeOK,
       Undrawn
  <2>2. CASE UNCHANGED creatorVars
    BY <2>2 DEF creatorVars, Undrawn
  <2>3. ASSUME NEW r \in Readers, Reading(r) \/ \E k \in Keys : Ask(r, k)
        PROVE  UNCHANGED creatorVars
    BY <2>3 DEF Reading, Ask, Hit, Miss, Fetch, FetchNotFound, Fill, ReadFails
  <2>4. ASSUME NEW k \in Keys, Expire(k) PROVE UNCHANGED creatorVars
    BY <2>4 DEF Expire
  <2> QED BY <2>1, <2>2, <2>3, <2>4 DEF Next, vars
<1>3. ASSUME TypeOK, Undrawn, [Next]_vars, NEW k \in Keys, Settled(k), ~IsOrphan(k)
      PROVE  Settled(k)' /\ ~IsOrphan(k)'
  <2>1. ASSUME NEW c \in Creators, Writing(c) \/ Serving(c)
        PROVE  Settled(k)' /\ ~IsOrphan(k)'
    <3>1. /\ db'[k] = db[k] /\ cache'[k] = cache[k] /\ UNCHANGED readerVars
          /\ \A d \in Creators : key'[d] = k <=> key[d] = k
          /\ \A d \in Creators : key[d] = k =>
               pc'[d] = pc[d] /\ post'[d] = post[d]
      BY <1>3, <2>1, SettledByCreation
    <3>2. Settled(k)'
      BY <1>3, <3>1 DEF Settled, readerVars
    <3> QED BY <1>3, <3>1, <3>2 DEF IsOrphan
  <2>2. ASSUME NEW r \in Readers, Reading(r) \/ \E l \in Keys : Ask(r, l)
        PROVE  Settled(k)' /\ ~IsOrphan(k)'
    BY <1>3, <2>2, SettledByReader
  <2>3. ASSUME NEW l \in Keys, Expire(l) PROVE Settled(k)' /\ ~IsOrphan(k)'
    BY <1>3, <2>3 DEF Expire, Settled, IsOrphan, creatorVars, readerVars, TypeOK
  <2>4. CASE UNCHANGED vars
    BY <1>3, <2>4 DEF vars, Settled, IsOrphan, creatorVars, readerVars
  <2> QED BY <1>3, <2>1, <2>2, <2>3, <2>4 DEF Next
<1>4. TypeOK /\ Undrawn /\ [Next]_vars =>
        [\A k \in Keys : Settled(k) /\ ~IsOrphan(k) =>
           Settled(k)' /\ ~IsOrphan(k)']_vars
  BY <1>3
<1>5. Spec => []TypeOK
  BY TypeCorrect
<1> QED BY <1>1, <1>2, <1>4, <1>5, PTL DEF Spec
===============================================================================
