-------------------------- MODULE RateLimiterProofs --------------------------
(***************************************************************************)
(* Theorems about RateLimiter, for any limit, window and number of         *)
(* requests in flight, and however long commands take.                     *)
(***************************************************************************)
EXTENDS RateLimiter, FiniteSetTheorems, TLAPS

USE DEF Never, N

\* The sets of times and of requests are finite.
LEMMA Finite ==
  ASSUME TypeOK
  PROVE  /\ IsFiniteSet(zset) /\ IsFiniteSet(admitted)
         /\ N \in Nat \ {0}
<1>1. IsFiniteSet(0..clock)
  BY FS_Interval DEF TypeOK
<1>2. IsFiniteSet(zset) /\ IsFiniteSet(admitted)
  BY <1>1, FS_Subset DEF TypeOK
<1>3. N \in Nat /\ N # 0
  BY RequestsAssumption, FS_CardinalityType, FS_EmptySet
<1> QED
  BY <1>2, <1>3

\* A subset of a finite set with one element more is no larger than one more.
LEMMA AtMostOneMore ==
  ASSUME NEW S, IsFiniteSet(S), NEW x, NEW T, T \subseteq S \cup {x}
  PROVE  /\ IsFiniteSet(T) /\ Cardinality(T) \in Nat
         /\ Cardinality(S) \in Nat /\ Cardinality(T) <= Cardinality(S) + 1
<1>1. IsFiniteSet(S \cup {x})
      /\ (Cardinality(S \cup {x}) = Cardinality(S)
          \/ Cardinality(S \cup {x}) = Cardinality(S) + 1)
  BY FS_AddElement
<1>2. IsFiniteSet(T) /\ Cardinality(T) <= Cardinality(S \cup {x})
  BY <1>1, FS_Subset
<1> QED
  BY <1>1, <1>2, FS_CardinalityType

\* A subset of a finite set that misses an element of it is smaller.
LEMMA OneLess ==
  ASSUME NEW S, IsFiniteSet(S), NEW x \in S, NEW T, T \subseteq S \ {x}
  PROVE  /\ IsFiniteSet(T) /\ Cardinality(T) \in Nat
         /\ Cardinality(S) \in Nat /\ Cardinality(T) <= Cardinality(S) - 1
<1>1. IsFiniteSet(S \ {x}) /\ Cardinality(S \ {x}) = Cardinality(S) - 1
  BY FS_RemoveElement
<1>2. IsFiniteSet(T) /\ Cardinality(T) <= Cardinality(S \ {x})
  BY <1>1, FS_Subset
<1> QED
  BY <1>1, <1>2, FS_CardinalityType

\* A subset is no larger.
LEMMA NoMore ==
  ASSUME NEW S, IsFiniteSet(S), NEW T, T \subseteq S
  PROVE  /\ IsFiniteSet(T) /\ Cardinality(T) \in Nat
         /\ Cardinality(S) \in Nat /\ Cardinality(T) <= Cardinality(S)
  BY FS_Subset, FS_CardinalityType

-------------------------------------------------------------------------------
(* TypeOK.                                                                 *)

\* The empty store has the right types.
LEMMA TypeInit == Init => TypeOK
<1> SUFFICES ASSUME Init PROVE TypeOK
  OBVIOUS
<1>1. 0 \in 0..0 /\ 0 \in Nat
  OBVIOUS
<1>2. pc \in [Requests -> {"idle", "clean", "count", "retryAfter", "stamp",
                          "cleanAgain", "add", "expire"}]
  BY DEF Init
<1>3. now \in [Requests -> 0..clock]
  BY <1>1 DEF Init
<1> QED
  BY <1>1, <1>2, <1>3 DEF Init, TypeOK

\* Every step keeps the types.
LEMMA TypeStep == TypeOK /\ [Next]_vars => TypeOK'
<1> SUFFICES ASSUME TypeOK, [Next]_vars PROVE TypeOK'
  OBVIOUS
<1> USE DEF TypeOK, Goes
<1>1. ASSUME NEW p \in Requests, Arrive(p) PROVE TypeOK'
  BY <1>1 DEF Arrive
<1>2. ASSUME NEW p \in Requests,
             Cleanup(p, "clean", "count") \/ Cleanup(p, "cleanAgain", "add")
      PROVE  TypeOK'
  BY <1>2 DEF Cleanup, Remaining
<1>3. ASSUME NEW p \in Requests, Count(p) PROVE TypeOK'
  BY <1>3 DEF Count
<1>4. ASSUME NEW p \in Requests, Reject(p) \/ Fail(p) PROVE TypeOK'
  BY <1>4 DEF Reject, Fail
<1>5. ASSUME NEW p \in Requests, Stamp(p) PROVE TypeOK'
  BY <1>5 DEF Stamp
<1>6. ASSUME NEW p \in Requests, Add(p) PROVE TypeOK'
  BY <1>6 DEF Add, Score
<1>7. ASSUME NEW p \in Requests, Expire(p) PROVE TypeOK'
  <2>1. ttl' \in Nat \cup {Never}
    BY <1>7, TtlAssumption DEF Expire, Renewed
  <2>2. admitted' \subseteq 0..clock /\ stranded' \in BOOLEAN
    BY <1>7 DEF Expire
  <2> QED
    BY <1>7, <2>1, <2>2 DEF Expire
<1>8. CASE Crash
  BY <1>8 DEF Crash
<1>9. CASE Tick
  <2>1. clock' = clock + 1 /\ 0..clock \subseteq 0..clock'
    BY <1>9 DEF Tick
  <2>2. /\ zset' \subseteq zset /\ ttl' \in Nat \cup {Never}
        /\ lost' \subseteq 0..clock'
    <3>1. Unexpired \subseteq 0..clock
      BY DEF Unexpired
    <3>2. CASE ttl = clock'
      BY <1>9, <2>1, <3>1, <3>2 DEF Tick
    <3>3. CASE ttl # clock'
      BY <1>9, <2>1, <3>3 DEF Tick
    <3> QED
      BY <3>2, <3>3
  <2>3. UNCHANGED <<pc, now, admitted, stranded>>
    BY <1>9 DEF Tick
  <2>4. now' \in [Requests -> 0..clock']
    BY <2>1, <2>3
  <2> QED
    BY <2>1, <2>2, <2>3, <2>4
<1>10. CASE Done \/ UNCHANGED vars
  BY <1>10 DEF Done, vars
<1> QED
  BY <1>1, <1>2, <1>3, <1>4, <1>5, <1>6, <1>7, <1>8, <1>9, <1>10
  DEF Next, Proceed

\* Every variable keeps its type, and no time lies in the future.
THEOREM TypeCorrect == Spec => []TypeOK
  BY TypeInit, TypeStep, PTL DEF Spec

-------------------------------------------------------------------------------
(* WindowBound.                                                            *)

\* An entry within the window stays in the set, unless it was lost: between
\* its zAdd and its expire ...
AddedKept ==
  \A p \in Requests :
    pc[p] = "expire" /\ now[p] > clock - windowMs => now[p] \in zset \cup lost

\* ... and from then on, as the key outlives it.
AdmittedKept ==
  \A s \in admitted \ lost :
    s > clock - windowMs =>
      s \in zset /\ (ttl = Never \/ ttl >= s + windowMs)

\* The requests past the check that may still enter the window that ends at t.
Coming(t) ==
  {p \in Requests :
     \/ pc[p] = "stamp" /\ clock <= t
     \/ /\ pc[p] \in {"cleanAgain", "add", "expire"}
        /\ t - windowMs < now[p] /\ now[p] <= t}

\* Together with them, no window holds more than WindowBound says.
RoomLeft ==
  \A t \in Nat :
    Cardinality(Admitted(t)) + Cardinality(Coming(t)) <= limit - 1 + N

Inv == TypeOK /\ AddedKept /\ AdmittedKept /\ RoomLeft

\* Entries of the present window are kept by every step.
LEMMA KeptStep ==
  ASSUME TypeOK, AddedKept, AdmittedKept, [Next]_vars
  PROVE  AddedKept' /\ AdmittedKept'
<1> USE DEF AddedKept, AdmittedKept, Goes
<1>1. ASSUME NEW p \in Requests, Arrive(p) PROVE AddedKept' /\ AdmittedKept'
  BY <1>1 DEF Arrive, TypeOK
<1>2. ASSUME NEW p \in Requests,
             Cleanup(p, "clean", "count") \/ Cleanup(p, "cleanAgain", "add")
      PROVE  AddedKept' /\ AdmittedKept'
  <2>1. /\ zset' = {s \in zset : s > now[p] - windowMs}
        /\ ttl' = IF zset' = {} THEN Never ELSE ttl
        /\ UNCHANGED <<clock, now, admitted, lost>>
        /\ \A q \in Requests : pc'[q] = "expire" => pc[q] = "expire"
    BY <1>2 DEF Cleanup, Remaining, TypeOK
  <2>2. now[p] \in Nat /\ clock \in Nat /\ now[p] <= clock
    BY DEF TypeOK
  <2>3. \A s \in zset : s \in Nat /\ (s > clock - windowMs => s \in zset')
    BY <2>1, <2>2, WindowAssumption DEF TypeOK
  <2>4. AddedKept'
    BY <2>1, <2>3
  <2>5. AdmittedKept'
    BY <2>1, <2>3
  <2> QED
    BY <2>4, <2>5
<1>3. ASSUME NEW p \in Requests, Count(p) PROVE AddedKept' /\ AdmittedKept'
  BY <1>3 DEF Count, TypeOK
<1>4. ASSUME NEW p \in Requests, Reject(p) \/ Fail(p)
      PROVE  AddedKept' /\ AdmittedKept'
  BY <1>4 DEF Reject, Fail, TypeOK
<1>5. ASSUME NEW p \in Requests, Stamp(p) PROVE AddedKept' /\ AdmittedKept'
  BY <1>5 DEF Stamp, TypeOK
<1>6. ASSUME NEW p \in Requests, Add(p) PROVE AddedKept' /\ AdmittedKept'
  BY <1>6 DEF Add, Score, TypeOK
<1>7. ASSUME NEW p \in Requests, Expire(p) PROVE AddedKept' /\ AdmittedKept'
  <2>1. AddedKept'
    BY <1>7 DEF Expire, TypeOK
  <2>2. ASSUME NEW s \in admitted' \ lost', s > clock' - windowMs
        PROVE  s \in zset' /\ ttl' >= s + windowMs
    <3>1. /\ clock' = clock /\ zset' = zset /\ lost' = lost
          /\ admitted' = admitted \cup {now[p]} /\ pc[p] = "expire"
          /\ ttl' = IF zset = {} THEN Never ELSE clock + Ttl
      BY <1>7 DEF Expire, Renewed
    <3>2. s \in zset
      BY <2>2, <3>1
    <3>3. s \in Nat /\ s <= clock /\ clock \in Nat
      BY <3>2 DEF TypeOK
    <3> QED
      BY <3>1, <3>2, <3>3, TtlAssumption, WindowAssumption
  <2> QED
    BY <2>1, <2>2
<1>8. CASE Crash
  BY <1>8 DEF Crash, TypeOK
<1>9. CASE Tick
  <2>1. clock \in Nat /\ clock' = clock + 1 /\ pc' = pc /\ now' = now
        /\ admitted' = admitted
    BY <1>9 DEF Tick, TypeOK
  <2>2. /\ \A s \in Nat : s > clock' - windowMs => s > clock - windowMs
        /\ admitted \subseteq Nat /\ \A p \in Requests : now[p] \in Nat
    BY <2>1, WindowAssumption DEF TypeOK
  <2>3. CASE ttl = clock'
    <3>1. zset' = {} /\ lost' = lost \cup Unexpired
      BY <1>9, <2>3 DEF Tick
    <3>2. AddedKept'
      BY <2>1, <3>1 DEF Unexpired
    <3>3. ASSUME NEW s \in admitted \ lost, s > clock' - windowMs
          PROVE  FALSE
      <4>1. s \in Nat /\ (ttl = Never \/ ttl >= s + windowMs)
        BY <2>2, <3>3
      <4> QED
        BY <2>1, <2>3, <3>3, <4>1, WindowAssumption
    <3>4. AdmittedKept'
      BY <2>1, <3>1, <3>3
    <3> QED
      BY <3>2, <3>4
  <2>4. CASE ttl # clock'
    <3>1. UNCHANGED <<zset, ttl, lost>>
      BY <1>9, <2>4 DEF Tick
    <3> QED
      BY <2>1, <2>2, <3>1
  <2> QED
    BY <2>3, <2>4
<1>10. CASE Done \/ UNCHANGED vars
  BY <1>10 DEF Done, vars
<1> QED
  BY <1>1, <1>2, <1>3, <1>4, <1>5, <1>6, <1>7, <1>8, <1>9, <1>10
  DEF Next, Proceed

\* A step that lets nobody into a window leaves it its room.
LEMMA RoomKept ==
  ASSUME TypeOK, NEW t \in Nat,
         Cardinality(Admitted(t)) + Cardinality(Coming(t)) <= limit - 1 + N,
         Admitted(t)' \subseteq Admitted(t), Coming(t)' \subseteq Coming(t)
  PROVE  Cardinality(Admitted(t)') + Cardinality(Coming(t)')
           <= limit - 1 + N
<1>1. IsFiniteSet(Admitted(t)) /\ IsFiniteSet(Coming(t))
  BY Finite, RequestsAssumption, FS_Subset DEF Admitted, Coming
<1> DEFINE a == Cardinality(Admitted(t))  c == Cardinality(Coming(t))
           b == Cardinality(Admitted(t)') d == Cardinality(Coming(t)')
<1>2. a \in Nat /\ b \in Nat /\ c \in Nat /\ d \in Nat /\ b <= a /\ d <= c
  BY <1>1, NoMore
<1>3. a + c <= limit - 1 + N
  OBVIOUS
<1> HIDE DEF a, b, c, d
<1>4. b + d <= limit - 1 + N
  BY <1>2, <1>3, Finite, LimitAssumption
<1> QED
  BY <1>4 DEF b, d

\* A request passes the check only if fewer entries than the limit are stored,
\* and these include the admitted ones of every window that is still open.
LEMMA RoomAtCount ==
  ASSUME Inv, NEW p \in Requests, Count(p), NEW t \in Nat
  PROVE  Cardinality(Admitted(t)') + Cardinality(Coming(t)')
           <= limit - 1 + N
<1>1. Admitted(t)' = Admitted(t)
  BY DEF Count, Admitted
<1>2. CASE Coming(t)' \subseteq Coming(t)
  BY <1>1, <1>2, RoomKept DEF Inv, RoomLeft
<1>3. CASE ~(Coming(t)' \subseteq Coming(t))
  <2>1. ~IsRateLimited /\ clock <= t
    BY <1>3 DEF Count, Goes, Coming, Inv, TypeOK
  <2>2. Admitted(t) \subseteq zset
    <3>1. ASSUME NEW s \in Admitted(t) PROVE s > clock - windowMs
      BY <2>1, WindowAssumption DEF Admitted, Inv, TypeOK
    <3> QED
      BY <3>1 DEF Admitted, Inv, AdmittedKept
  <2>3. /\ Cardinality(Admitted(t)) <= Cardinality(zset)
        /\ Cardinality(Admitted(t)) \in Nat /\ Cardinality(zset) \in Nat
    BY <2>2, Finite, NoMore DEF Inv
  <2>4. Cardinality(Coming(t)') <= N /\ Cardinality(Coming(t)') \in Nat
    <3>1. Coming(t)' \subseteq Requests
      BY DEF Coming
    <3> QED
      BY <3>1, NoMore, RequestsAssumption
  <2>5. Cardinality(zset) <= limit - 1
    BY <2>1, <2>3, LimitAssumption DEF IsRateLimited
  <2>6. N \in Nat
    BY Finite DEF Inv
  <2> QED
    BY <1>1, <2>3, <2>4, <2>5, <2>6, LimitAssumption
<1> QED
  BY <1>2, <1>3

\* Once let through, a request is not coming any more.
LEMMA RoomAtExpire ==
  ASSUME Inv, NEW p \in Requests, Expire(p), NEW t \in Nat
  PROVE  Cardinality(Admitted(t)') + Cardinality(Coming(t)')
           <= limit - 1 + N
<1>1. /\ pc[p] = "expire" /\ pc' = [pc EXCEPT ![p] = "idle"]
      /\ admitted' = admitted \cup {now[p]}
      /\ UNCHANGED <<clock, now, lost>>
      /\ pc \in [Requests -> {"idle", "clean", "count", "retryAfter", "stamp",
                              "cleanAgain", "add", "expire"}]
  BY DEF Expire, Goes, Inv, TypeOK
<1>2. Coming(t)' \subseteq Coming(t) \ {p}
  BY <1>1 DEF Coming
<1>3. CASE t - windowMs < now[p] /\ now[p] <= t
  <2>1. p \in Coming(t)
    BY <1>1, <1>3 DEF Coming
  <2>2. Admitted(t)' \subseteq Admitted(t) \cup {now[p]}
    BY <1>1 DEF Admitted
  <2>3. IsFiniteSet(Admitted(t)) /\ IsFiniteSet(Coming(t))
    BY Finite, RequestsAssumption, FS_Subset DEF Admitted, Coming, Inv
  <2> DEFINE a == Cardinality(Admitted(t))  c == Cardinality(Coming(t))
             b == Cardinality(Admitted(t)') d == Cardinality(Coming(t)')
  <2>4. a \in Nat /\ b \in Nat /\ b <= a + 1
    BY <2>2, <2>3, AtMostOneMore
  <2>5. c \in Nat /\ d \in Nat /\ d <= c - 1
    BY <1>2, <2>1, <2>3, OneLess
  <2>6. a + c <= limit - 1 + N
    BY DEF Inv, RoomLeft
  <2>7. N \in Nat
    BY Finite DEF Inv
  <2> HIDE DEF a, b, c, d
  <2>8. b + d <= limit - 1 + N
    BY <2>4, <2>5, <2>6, <2>7, LimitAssumption
  <2> QED
    BY <2>8 DEF b, d
<1>4. CASE ~(t - windowMs < now[p] /\ now[p] <= t)
  <2>1. Admitted(t)' \subseteq Admitted(t)
    BY <1>1, <1>4 DEF Admitted
  <2> QED
    BY <1>2, <2>1, RoomKept DEF Inv, RoomLeft
<1> QED
  BY <1>3, <1>4

\* Every step leaves every window its room.
LEMMA RoomStep == Inv /\ [Next]_vars => RoomLeft'
<1> SUFFICES ASSUME Inv, [Next]_vars, NEW t \in Nat
             PROVE  Cardinality(Admitted(t)') + Cardinality(Coming(t)')
                      <= limit - 1 + N
  BY DEF RoomLeft
<1> DEFINE Same == Admitted(t)' \subseteq Admitted(t)
                   /\ Coming(t)' \subseteq Coming(t)
           Goal == Cardinality(Admitted(t)') + Cardinality(Coming(t)')
                     <= limit - 1 + N
<1>1. Same => Goal
  BY RoomKept DEF Inv, RoomLeft
<1> HIDE DEF Goal
<1> USE DEF Admitted, Coming, Goes
<1>2. /\ pc \in [Requests -> {"idle", "clean", "count", "retryAfter", "stamp",
                              "cleanAgain", "add", "expire"}]
      /\ clock \in Nat /\ \A q \in Requests : now[q] \in Nat
      /\ now \in [Requests -> Nat]
  BY DEF Inv, TypeOK
<1>3. ASSUME NEW p \in Requests, Arrive(p) PROVE Goal
  BY <1>1, <1>2, <1>3 DEF Arrive
<1>4. ASSUME NEW p \in Requests,
             Cleanup(p, "clean", "count") \/ Cleanup(p, "cleanAgain", "add")
      PROVE  Goal
  BY <1>1, <1>2, <1>4 DEF Cleanup
<1>5. ASSUME NEW p \in Requests, Count(p) PROVE Goal
  BY <1>5, RoomAtCount DEF Goal
<1>6. ASSUME NEW p \in Requests, Reject(p) \/ Fail(p) PROVE Goal
  BY <1>1, <1>2, <1>6 DEF Reject, Fail
<1>7. ASSUME NEW p \in Requests, Stamp(p) PROVE Goal
  <2>1. Coming(t)' \subseteq Coming(t)
    BY <1>2, <1>7 DEF Stamp
  <2> QED
    BY <1>1, <1>7, <2>1 DEF Stamp
<1>8. ASSUME NEW p \in Requests, Add(p) PROVE Goal
  BY <1>1, <1>2, <1>8 DEF Add
<1>9. ASSUME NEW p \in Requests, Expire(p) PROVE Goal
  BY <1>9, RoomAtExpire DEF Goal
<1>10. ASSUME Crash PROVE Goal
  BY <1>1, <1>10 DEF Crash
<1>11. ASSUME Tick PROVE Goal
  <2>1. clock' = clock + 1 /\ lost \subseteq lost'
        /\ UNCHANGED <<pc, now, admitted>>
    BY <1>11 DEF Tick
  <2> QED
    BY <1>1, <1>2, <2>1
<1>12. ASSUME Done \/ UNCHANGED vars PROVE Goal
  BY <1>1, <1>12 DEF Done, vars
<1>13. Goal
  BY <1>3, <1>4, <1>5, <1>6, <1>7, <1>8, <1>9, <1>10, <1>11, <1>12
  DEF Next, Proceed
<1> QED
  BY <1>13 DEF Goal

\* For any limit, window and number of requests in flight, and whatever fails
\* or takes long, no window overruns the limit by more than all but one of
\* the requests that can be in flight together.
THEOREM OverrunIsBounded == Spec => []WindowBound
<1>1. Init => Inv
  <2> SUFFICES ASSUME Init PROVE Inv
    OBVIOUS
  <2>1. TypeOK
    BY TypeInit
  <2>2. AddedKept /\ AdmittedKept
    BY DEF Init, AddedKept, AdmittedKept
  <2>3. ASSUME NEW t \in Nat
        PROVE  Cardinality(Admitted(t)) + Cardinality(Coming(t))
                 <= limit - 1 + N
    <3>1. Admitted(t) = {} /\ Coming(t) = {}
      BY DEF Init, Admitted, Coming
    <3>2. Cardinality(Admitted(t)) = 0 /\ Cardinality(Coming(t)) = 0
      BY <3>1, FS_EmptySet
    <3> QED
      BY <2>1, <3>2, Finite, LimitAssumption
  <2> QED
    BY <2>1, <2>2, <2>3 DEF Inv, RoomLeft
<1>2. Inv /\ [Next]_vars => Inv'
  BY TypeStep, KeptStep, RoomStep DEF Inv
<1>3. Inv => WindowBound
  <2> SUFFICES ASSUME Inv, NEW t \in 0..clock
               PROVE  Cardinality(Admitted(t)) <= limit - 1 + N
    BY DEF WindowBound
  <2>1. t \in Nat
    BY DEF Inv, TypeOK
  <2>2. Cardinality(Admitted(t)) + Cardinality(Coming(t)) <= limit - 1 + N
    BY <2>1 DEF Inv, RoomLeft
  <2>3. Cardinality(Admitted(t)) \in Nat /\ Cardinality(Coming(t)) \in Nat
    BY Finite, RequestsAssumption, FS_Subset, FS_CardinalityType
    DEF Admitted, Coming, Inv
  <2> QED
    BY <2>2, <2>3, Finite, LimitAssumption DEF Inv
<1> QED
  BY <1>1, <1>2, <1>3, PTL DEF Spec

-------------------------------------------------------------------------------
(* JudgedByRecent.                                                         *)

\* The requests that may still add an entry outdated for p.
Late(p) ==
  {q \in Requests : pc[q] \in {"cleanAgain", "add"}
                    /\ now[q] <= now[p] - windowMs}

\* Each outdated entry that p counts had such a request to itself.
FewOutdated ==
  \A p \in Requests :
    pc[p] = "count" => Cardinality(Outdated(p)) + Cardinality(Late(p)) <= N - 1

\* No step adds an outdated entry without a late request.
LEMMA OutdatedStep == TypeOK /\ FewOutdated /\ [Next]_vars => FewOutdated'
<1> SUFFICES ASSUME TypeOK, FewOutdated, [Next]_vars,
                    NEW p \in Requests, pc'[p] = "count"
             PROVE  Cardinality(Outdated(p)') + Cardinality(Late(p)') <= N - 1
  BY DEF FewOutdated
<1> DEFINE a == Cardinality(Outdated(p))  c == Cardinality(Late(p))
           b == Cardinality(Outdated(p)') d == Cardinality(Late(p)')
           Goal == b + d <= N - 1
<1>1. /\ pc \in [Requests -> {"idle", "clean", "count", "retryAfter", "stamp",
                              "cleanAgain", "add", "expire"}]
      /\ clock \in Nat /\ \A q \in Requests : now[q] \in Nat /\ now[q] <= clock
      /\ now \in [Requests -> Nat] /\ zset \subseteq Nat
  BY DEF TypeOK
<1>2. IsFiniteSet(Outdated(p)) /\ IsFiniteSet(Late(p)) /\ N \in Nat
      /\ a \in Nat /\ c \in Nat
  BY Finite, RequestsAssumption, FS_Subset, FS_CardinalityType
  DEF Outdated, Late
<1>3. pc[p] = "count" => a + c <= N - 1
  BY DEF FewOutdated
<1>4. ASSUME pc[p] = "count",
             Outdated(p)' \subseteq Outdated(p), Late(p)' \subseteq Late(p)
      PROVE  Goal
  <2>1. b \in Nat /\ d \in Nat /\ b <= a /\ d <= c
    BY <1>2, <1>4, NoMore
  <2> HIDE DEF a, b, c, d
  <2> QED
    BY <1>2, <1>3, <1>4, <2>1
<1> HIDE DEF a, b, c, d
<1> USE DEF Goes
<1>5. ASSUME NEW q \in Requests, Arrive(q) PROVE Goal
  BY <1>1, <1>4, <1>5 DEF Arrive, Outdated, Late
<1>6. ASSUME NEW q \in Requests, Cleanup(q, "clean", "count") PROVE Goal
  <2>1. ASSUME q # p PROVE Goal
    BY <1>1, <1>4, <1>6, <2>1 DEF Cleanup, Remaining, Outdated, Late
  <2>2. ASSUME q = p PROVE Goal
    <3>1. Outdated(p)' = {}
      <4>1. /\ zset' = {s \in zset : s > now[p] - windowMs}
            /\ now' = now
        BY <1>6, <2>2 DEF Cleanup, Remaining
      <4>2. \A s \in zset' : ~(s <= now[p] - windowMs)
        BY <1>1, <4>1, WindowAssumption
      <4> QED
        BY <4>1, <4>2 DEF Outdated
    <3>2. Late(p)' \subseteq Requests \ {p}
      BY DEF Late
    <3>3. d \in Nat /\ d <= N - 1
      BY <3>2, OneLess, RequestsAssumption DEF d
    <3>4. b = 0
      BY <3>1, FS_EmptySet DEF b
    <3> QED
      BY <1>2, <3>3, <3>4
  <2> QED
    BY <2>1, <2>2
<1>7. ASSUME NEW q \in Requests, Cleanup(q, "cleanAgain", "add") PROVE Goal
  BY <1>1, <1>4, <1>7 DEF Cleanup, Remaining, Outdated, Late
<1>8. ASSUME NEW q \in Requests, Count(q) PROVE Goal
  BY <1>1, <1>4, <1>8 DEF Count, Outdated, Late
<1>9. ASSUME NEW q \in Requests, Reject(q) \/ Fail(q) \/ Expire(q) PROVE Goal
  BY <1>1, <1>4, <1>9 DEF Reject, Fail, Expire, Outdated, Late
<1>10. ASSUME NEW q \in Requests, Stamp(q) PROVE Goal
  <2>1. pc[p] = "count" /\ q # p
    BY <1>1, <1>10 DEF Stamp
  <2>2. now'[p] = now[p] /\ now'[q] = clock /\ now[p] <= clock
    BY <1>1, <1>10, <2>1 DEF Stamp
  <2>3. Late(p)' \subseteq Late(p)
    BY <1>1, <1>10, <2>1, <2>2, WindowAssumption DEF Stamp, Late
  <2>4. Outdated(p)' = Outdated(p)
    BY <1>10, <2>2 DEF Stamp, Outdated
  <2> QED
    BY <1>4, <2>1, <2>3, <2>4
<1>11. ASSUME NEW q \in Requests, Add(q) PROVE Goal
  <2>1. /\ pc[p] = "count" /\ q # p /\ pc[q] = "add" /\ now' = now
        /\ pc' = [pc EXCEPT ![q] = "expire"] /\ zset' = zset \cup {now[q]}
    BY <1>1, <1>11 DEF Add, Score
  <2>2. CASE now[q] <= now[p] - windowMs
    <3>1. q \in Late(p) /\ Late(p)' \subseteq Late(p) \ {q}
      BY <1>1, <2>1, <2>2 DEF Late
    <3>2. Outdated(p)' \subseteq Outdated(p) \cup {now[q]}
      BY <2>1 DEF Outdated
    <3>3. b \in Nat /\ b <= a + 1
      BY <1>2, <3>2, AtMostOneMore DEF a, b
    <3>4. d \in Nat /\ d <= c - 1
      BY <1>2, <3>1, OneLess DEF c, d
    <3> QED
      BY <1>2, <1>3, <2>1, <3>3, <3>4
  <2>3. CASE ~(now[q] <= now[p] - windowMs)
    BY <1>1, <1>4, <2>1, <2>3 DEF Late, Outdated
  <2> QED
    BY <2>2, <2>3
<1>12. ASSUME Crash PROVE Goal
  BY <1>12 DEF Crash
<1>13. ASSUME Tick PROVE Goal
  <2>1. zset' \subseteq zset /\ UNCHANGED <<pc, now>>
    BY <1>13 DEF Tick
  <2> QED
    BY <1>4, <2>1 DEF Outdated, Late
<1>14. ASSUME Done \/ UNCHANGED vars PROVE Goal
  BY <1>4, <1>14 DEF Done, vars, Outdated, Late
<1>15. Goal
  BY <1>5, <1>6, <1>7, <1>8, <1>9, <1>10, <1>11, <1>12, <1>13, <1>14
  DEF Next, Proceed
<1> QED
  BY <1>15 DEF b, d

\* However long commands take, a request counts at most one outdated entry
\* for each other request in flight.
THEOREM CountIsRecent == Spec => []JudgedByRecent
<1>1. Init => FewOutdated
  BY DEF Init, FewOutdated
<1>2. TypeOK /\ FewOutdated /\ [Next]_vars => FewOutdated'
  BY OutdatedStep
<1>3. TypeOK /\ FewOutdated => JudgedByRecent
  <2> SUFFICES ASSUME TypeOK, FewOutdated,
                      NEW p \in Requests, pc[p] = "count"
               PROVE  Cardinality(Outdated(p)) <= N - 1
    BY DEF JudgedByRecent
  <2>1. Cardinality(Outdated(p)) + Cardinality(Late(p)) <= N - 1
    BY DEF FewOutdated
  <2>2. Cardinality(Outdated(p)) \in Nat /\ Cardinality(Late(p)) \in Nat
    BY Finite, RequestsAssumption, FS_Subset, FS_CardinalityType
    DEF Outdated, Late
  <2> QED
    BY <2>1, <2>2, Finite
<1> QED
  BY <1>1, <1>2, <1>3, TypeCorrect, PTL DEF Spec

-------------------------------------------------------------------------------
(* KeyEnds.                                                                *)

\* A key with an end ends within a time to live; one without an end waits for
\* an expire, or has been cut off from it.
EndComes ==
  /\ ttl # Never => ttl \in clock + 1 .. clock + Ttl
  /\ zset # {} /\ ttl = Never =>
       stranded \/ \E p \in Requests : pc[p] = "expire"

\* Every step keeps the end of the key in sight.
LEMMA EndStep == TypeOK /\ EndComes /\ [Next]_vars => EndComes'
<1> SUFFICES ASSUME TypeOK, EndComes, [Next]_vars PROVE EndComes'
  OBVIOUS
<1> USE TtlAssumption, WindowAssumption DEF TypeOK, EndComes, Goes
<1>1. ASSUME NEW p \in Requests, NEW from, NEW to, Goes(p, from, to),
             from # "expire", UNCHANGED <<clock, zset, ttl, stranded>>
      PROVE  EndComes'
  BY <1>1
<1>2. ASSUME NEW p \in Requests,
             Arrive(p) \/ Count(p) \/ Reject(p) \/ Stamp(p)
      PROVE  EndComes'
  BY <1>1, <1>2 DEF Arrive, Count, Reject, Stamp
<1>3. ASSUME NEW p \in Requests,
             Cleanup(p, "clean", "count") \/ Cleanup(p, "cleanAgain", "add")
      PROVE  EndComes'
  BY <1>3 DEF Cleanup, Remaining
<1>4. ASSUME NEW p \in Requests, Add(p) PROVE EndComes'
  BY <1>4 DEF Add
<1>5. ASSUME NEW p \in Requests, Expire(p) PROVE EndComes'
  <2>1. clock' = clock /\ zset' = zset /\ clock \in Nat
        /\ ttl' = IF zset = {} THEN Never ELSE clock + Ttl
    BY <1>5 DEF Expire, Renewed
  <2>2. Ttl \in Nat /\ Ttl >= 1
    OBVIOUS
  <2>3. ttl' # Never => ttl' \in clock' + 1 .. clock' + Ttl
    BY <2>1, <2>2
  <2>4. zset = {} \/ ttl' # Never
    <3>1. clock + Ttl # Never
      BY <2>1, <2>2
    <3> QED
      BY <2>1, <3>1
  <2> QED
    BY <2>1, <2>3, <2>4
<1>6. ASSUME NEW p \in Requests, Fail(p) PROVE EndComes'
  BY <1>6 DEF Fail
<1>7. CASE Crash
  BY <1>7 DEF Crash
<1>8. CASE Tick
  BY <1>8 DEF Tick
<1>9. CASE Done \/ UNCHANGED vars
  BY <1>9 DEF Done, vars
<1> QED
  BY <1>2, <1>3, <1>4, <1>5, <1>6, <1>7, <1>8, <1>9 DEF Next, Proceed

\* A key always ends within a time to live, unless its expire is still to come
\* or was cut off.
THEOREM EveryKeyEnds == Spec => []KeyEnds
<1>1. Init => EndComes
  BY DEF Init, EndComes
<1>2. TypeOK /\ EndComes /\ [Next]_vars => EndComes'
  BY EndStep
<1>3. TypeOK /\ EndComes => KeyEnds
  BY DEF TypeOK, EndComes, KeyEnds
<1> QED
  BY <1>1, <1>2, <1>3, TypeCorrect, PTL DEF Spec
===============================================================================
