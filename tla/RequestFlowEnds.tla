---------------------------- MODULE RequestFlowEnds ----------------------------
(***************************************************************************)
(* Why requests of RequestFlow end, for any number of requests, any routes *)
(* for the clients and any faults: every step of a request leaves less of  *)
(* a natural number to do.  And what a request in the gate holds up, when  *)
(* it may wait there for ever: the redirect service alone.                 *)
(***************************************************************************)
EXTENDS RequestFlowProofs

USE DEF None, Lost

\* How much of the way the handlers have before them is bounded.
LeftBounded ==
  \A q \in Requests : \A i \in 1..3 :
    /\ Left(q, i) \in 0..22
    /\ i <= Depth(q) => Left(q, i) > 0

\* The stages to come of handler i, of no more than MaxLength.
LEMMA ToCome ==
  ASSUME Inv, NEW q \in Requests, NEW i \in 1..3, i <= Depth(q)
  PROVE  Len(Program(stack[q][i].route)) - stack[q][i].pos \in 0..10
<1>1. stack[q] \in Seq(Frame) /\ Handlers(q) /\ i \in 1..Len(stack[q])
  <2>1. Len(stack[q]) \in Nat /\ Len(stack[q]) = Depth(q)
    BY DepthBound DEF Depth
  <2> QED BY <2>1 DEF Inv, Types
<1>2. stack[q][i].route \in Routes /\ stack[q][i].pos \in 1..MaxLength
  <2>1. stack[q][i] \in Frame
    BY <1>1, ElementOfSeq
  <2> QED BY <2>1 DEF Frame
<1>3. Len(Program(stack[q][i].route)) \in 1..MaxLength
  BY <1>2, ProgramFacts
<1>4. stack[q][i].pos <= Len(Program(stack[q][i].route))
  BY <1>1 DEF Handlers
<1>5. \A p, l \in 1..MaxLength : p <= l => l - p \in 0..10
  BY DEF MaxLength
<1> QED BY <1>2, <1>3, <1>4, <1>5

\* What is left of a handler is between 1 and 22, and nothing else is.
LEMMA LeftRange == Inv => LeftBounded
<1> SUFFICES ASSUME Inv, NEW q \in Requests, NEW i \in 1..3
             PROVE  Left(q, i) \in 0..22 /\ (i <= Depth(q) => Left(q, i) > 0)
  BY DEF LeftBounded
<1>1. Depth(q) \in Nat
  BY DepthBound DEF Depth
<1>2. CASE i <= Depth(q)
  <2> DEFINE m == Len(Program(stack[q][i].route)) - stack[q][i].pos
             c == IF i < Depth(q) \/ reply[q] # None \/ Dead(At(q, i))
                    THEN 1 ELSE 2
  <2>1. m \in 0..10
    BY <1>2, ToCome
  <2>2. c \in 1..2
    OBVIOUS
  <2>3. Left(q, i) = 2 * m + c
    BY <1>1, <1>2 DEF Left
  <2> HIDE DEF m, c
  <2> QED BY <2>1, <2>2, <2>3
<1>3. CASE i > Depth(q)
  BY <1>1, <1>3 DEF Left
<1> QED BY <1>1, <1>2, <1>3

\* The stages to come of three handlers, weighed.
Weighed(a1, a2, a3) == Weight * Weight * a1 + Weight * a2 + a3

\* The weights are such that the first handler that has changed decides.
LEMMA FirstDecides ==
  ASSUME NEW a1 \in 0..22, NEW a2 \in 0..22, NEW a3 \in 0..22,
         NEW b1 \in 0..22, NEW b2 \in 0..22, NEW b3 \in 0..22
  PROVE  /\ b1 < a1 \/ (b1 <= a1 /\ b2 < a2)
              \/ (b1 <= a1 /\ b2 <= a2 /\ b3 < a3) =>
              Weighed(b1, b2, b3) < Weighed(a1, a2, a3)
         /\ b1 <= a1 /\ b2 <= a2 /\ b3 <= a3 =>
              Weighed(b1, b2, b3) <= Weighed(a1, a2, a3)
<1>1. Weight = 23 /\ Weight * Weight = 529
  BY DEF Weight, MaxLength
<1>2. /\ Weighed(a1, a2, a3) = 529 * a1 + 23 * a2 + a3
      /\ Weighed(b1, b2, b3) = 529 * b1 + 23 * b2 + b3
  BY <1>1 DEF Weighed
<1>3. /\ b1 < a1 => 529 * b1 + 23 * b2 + b3 < 529 * a1 + 23 * a2 + a3
      /\ b1 <= a1 /\ b2 < a2 =>
           529 * b1 + 23 * b2 + b3 < 529 * a1 + 23 * a2 + a3
      /\ b1 <= a1 /\ b2 <= a2 /\ b3 < a3 =>
           529 * b1 + 23 * b2 + b3 < 529 * a1 + 23 * a2 + a3
      /\ b1 <= a1 /\ b2 <= a2 /\ b3 <= a3 =>
           529 * b1 + 23 * b2 + b3 <= 529 * a1 + 23 * a2 + a3
  OBVIOUS
<1> QED BY <1>2, <1>3

\* A request has less to do when a handler has, and those that wait for it
\* have no more.
LEMMA LessLeft ==
  ASSUME NEW q \in Requests, LeftBounded, LeftBounded', NEW n \in 1..3,
         \A i \in 1..3 : i < n => Left(q, i)' <= Left(q, i),
         Left(q, n)' < Left(q, n)
  PROVE  StepsLeft(q)' < StepsLeft(q)
<1> DEFINE a1 == Left(q, 1)
           a2 == Left(q, 2)
           a3 == Left(q, 3)
           b1 == Left(q, 1)'
           b2 == Left(q, 2)'
           b3 == Left(q, 3)'
<1>1. /\ a1 \in 0..22 /\ a2 \in 0..22 /\ a3 \in 0..22
      /\ b1 \in 0..22 /\ b2 \in 0..22 /\ b3 \in 0..22
  BY DEF LeftBounded
<1>2. StepsLeft(q) = Weighed(a1, a2, a3) /\ StepsLeft(q)' = Weighed(b1, b2, b3)
  BY DEF StepsLeft, Weighed, Weight, MaxLength
<1>3. b1 < a1 \/ (b1 <= a1 /\ b2 < a2) \/ (b1 <= a1 /\ b2 <= a2 /\ b3 < a3)
  <2>1. CASE n = 1
    BY <2>1
  <2>2. CASE n = 2
    BY <2>2
  <2>3. CASE n = 3
    BY <2>3
  <2> QED BY <2>1, <2>2, <2>3
<1> HIDE DEF a1, a2, a3, b1, b2, b3
<1>4. Weighed(b1, b2, b3) < Weighed(a1, a2, a3)
  BY <1>1, <1>3, FirstDecides
<1> QED BY <1>2, <1>4

\* What is left of a request is a natural number.
LEMMA StepsLeftNat ==
  ASSUME NEW q \in Requests, LeftBounded, LeftBounded'
  PROVE  StepsLeft(q) \in Nat /\ StepsLeft(q)' \in Nat
<1>1. 1 \in 1..3 /\ 2 \in 1..3 /\ 3 \in 1..3
  OBVIOUS
<1>2. /\ Left(q, 1) \in 0..22 /\ Left(q, 2) \in 0..22 /\ Left(q, 3) \in 0..22
      /\ Left(q, 1)' \in 0..22 /\ Left(q, 2)' \in 0..22 /\ Left(q, 3)' \in 0..22
  BY <1>1 DEF LeftBounded
<1>3. \A a, b, c \in 0..22 : Weight * Weight * a + Weight * b + c \in Nat
  BY DEF Weight, MaxLength
<1> QED BY <1>2, <1>3 DEF StepsLeft

\* If no handler has more to do, the request has not either.
LEMMA NoMoreLeft ==
  ASSUME NEW q \in Requests, LeftBounded, LeftBounded',
         \A i \in 1..3 : Left(q, i)' <= Left(q, i)
  PROVE  StepsLeft(q)' <= StepsLeft(q)
<1> DEFINE a1 == Left(q, 1)
           a2 == Left(q, 2)
           a3 == Left(q, 3)
           b1 == Left(q, 1)'
           b2 == Left(q, 2)'
           b3 == Left(q, 3)'
<1>1. /\ a1 \in 0..22 /\ a2 \in 0..22 /\ a3 \in 0..22
      /\ b1 \in 0..22 /\ b2 \in 0..22 /\ b3 \in 0..22
  BY DEF LeftBounded
<1>2. StepsLeft(q) = Weighed(a1, a2, a3) /\ StepsLeft(q)' = Weighed(b1, b2, b3)
  BY DEF StepsLeft, Weighed, Weight, MaxLength
<1>3. b1 <= a1 /\ b2 <= a2 /\ b3 <= a3
  OBVIOUS
<1> HIDE DEF a1, a2, a3, b1, b2, b3
<1>4. Weighed(b1, b2, b3) <= Weighed(a1, a2, a3)
  BY <1>1, <1>3, FirstDecides
<1> QED BY <1>2, <1>4

\* A handler under one that stays or goes has as much to do as before.
LEMMA WaitingSame ==
  ASSUME Inv, NEW q \in Requests, NEW i \in 1..3, stage' = stage,
         i < Depth(q), i <= Depth(q)', Depth(q)' \in Nat,
         stack'[q][i] = stack[q][i],
         i < Depth(q)' \/ reply'[q] # None \/ Dead(At(q, i))
  PROVE  Left(q, i)' = Left(q, i)
<1>1. Depth(q) \in Nat
  BY DepthBound DEF Depth
<1>2. Dead(At(q, i))' = Dead(At(q, i))
  BY DEF At, Dead
<1>3. ~(i > Depth(q)) /\ ~((i > Depth(q))')
  BY <1>1
<1>4. i < Depth(q) \/ reply[q] # None \/ Dead(At(q, i))
  OBVIOUS
<1>5. (i < Depth(q) \/ reply[q] # None \/ Dead(At(q, i)))'
  BY <1>2
<1> QED BY <1>3, <1>4, <1>5 DEF Left

\* When a handler ends, its request has less to do: its caller has a reply, or
\* its process is gone.
LEMMA PopLess ==
  ASSUME Inv, LeftBounded, LeftBounded', NEW q \in Requests, Depth(q) > 0,
         stage' = stage, Pops(q),
         Depth(q) > 1 => reply'[q] # None \/ Dead(At(q, Depth(q) - 1))
  PROVE  StepsLeft(q)' < StepsLeft(q)
<1>1. PICK n \in 1..3 :
        n = Depth(q) /\ n = Len(stack[q]) /\ Depth(q)' = n - 1
  BY TopFacts DEF MaxDepth, Pops, Depth
<1>2. Left(q, n)' < Left(q, n)
  <2>1. Left(q, n) \in 0..22 /\ Left(q, n) > 0
    <3>1. n <= Depth(q)
      BY <1>1
    <3> QED BY <3>1 DEF LeftBounded
  <2>2. Left(q, n)' = 0
    BY <1>1 DEF Left
  <2> QED BY <2>1, <2>2
<1>3. ASSUME NEW i \in 1..3, i < n PROVE Left(q, i)' <= Left(q, i)
  <2>1. i \in 1..(n - 1) /\ i <= Depth(q)' /\ Depth(q)' \in Nat
    BY <1>1, <1>3
  <2>2. stack'[q][i] = stack[q][i]
    BY <1>1, <2>1 DEF Pops
  <2>3. i < Depth(q)' \/ reply'[q] # None \/ Dead(At(q, i))
    <3>1. CASE i = n - 1
      <4>1. n > 1 /\ i = n - 1
        BY <1>3, <3>1
      <4> QED BY <1>1, <4>1
    <3>2. CASE i # n - 1
      BY <1>1, <2>1, <3>2
    <3> QED BY <3>1, <3>2
  <2>4. Left(q, i)' = Left(q, i)
    <3>1. i < Depth(q)
      BY <1>1, <1>3
    <3> QED BY <2>1, <2>2, <2>3, <3>1, WaitingSame
  <2> QED BY <2>4 DEF LeftBounded
<1> QED BY <1>1, <1>2, <1>3, LessLeft

\* An answer ends a handler.
LEMMA AnswerLess ==
  ASSUME Inv, LeftBounded, LeftBounded', NEW q \in Requests, Depth(q) > 0,
         ~Dead(At(q, Depth(q))), NEW status \in Statuses, Answer(q, status),
         stage' = stage, refused' = refused \/ Refused(q) \/ Outage(q)
  PROVE  StepsLeft(q)' < StepsLeft(q)
<1>1. Pops(q)
  BY AnswerPops
<1>2. Depth(q) > 1 => reply'[q] # None \/ Dead(At(q, Depth(q) - 1))
  <2>1. reply'[q] = IF Unwanted(q, Depth(q)) THEN None ELSE status
    BY DEF Answer, Inv, Types
  <2>2. status # None
    BY DEF Statuses
  <2>3. Depth(q) \in 1..MaxDepth
    BY TopFacts
  <2> QED BY <2>1, <2>2, <2>3 DEF Unwanted, MaxDepth
<1> QED BY <1>1, <1>2, PopLess

\* A connection that breaks ends a handler as well.
LEMMA BreakLess ==
  ASSUME Inv, LeftBounded, LeftBounded', NEW q \in Requests, Break(q)
  PROVE  StepsLeft(q)' < StepsLeft(q)
<1>1. Pops(q) /\ Depth(q) > 0 /\ stage' = stage
  BY BreakPops DEF Break
<1>2. Depth(q) > 1 => reply'[q] # None \/ Dead(At(q, Depth(q) - 1))
  <2>1. reply'[q] = IF Unwanted(q, Depth(q)) THEN None ELSE Lost
    BY DEF Break, Inv, Types
  <2>2. Depth(q) \in 1..MaxDepth
    BY <1>1, TopFacts
  <2> QED BY <2>1, <2>2 DEF Unwanted, MaxDepth
<1> QED BY <1>1, <1>2, PopLess

\* What the last handler has left: two steps for each stage, less one when it
\* has its reply.
LEMMA TopLeft ==
  ASSUME Inv, NEW q \in Requests, Depth(q) > 0, ~Dead(At(q, Depth(q)))
  PROVE  Left(q, Depth(q)) =
           2 * (Len(Program(Top(q).route)) - Top(q).pos)
             + IF reply[q] # None THEN 1 ELSE 2
<1>1. Depth(q) \in 1..3
  BY TopFacts DEF MaxDepth
<1>2. ~(Depth(q) > Depth(q)) /\ ~(Depth(q) < Depth(q))
  BY <1>1
<1> QED BY <1>2 DEF Left, Top

\* A handler that goes on to its next stage has less to do.
LEMMA AdvanceLess ==
  ASSUME Inv, LeftBounded, LeftBounded', NEW q \in Requests, Depth(q) > 0,
         ~Dead(At(q, Depth(q))), Advance(q), UNCHANGED <<stage, refused>>
  PROVE  StepsLeft(q)' < StepsLeft(q)
<1>1. PICK n \in 1..3 :
        /\ n = Depth(q) /\ n = Len(stack[q])
        /\ stack[q] \in Seq(Frame) /\ stack[q][n] = Top(q)
        /\ Top(q).route \in Routes
        /\ Top(q).pos \in 1..Len(Program(Top(q).route))
        /\ Len(Program(Top(q).route)) \in 1..MaxLength
  BY TopFacts, ProgramFacts DEF MaxDepth
<1>2. CASE AtEnd(q)
  <2> DEFINE status == Success(Top(q).route)
  <2>1. Answer(q, status) /\ status \in {200, 201, 302}
    BY <1>1, <1>2, RouteFacts DEF Advance
  <2> HIDE DEF status
  <2>2. status \in Statuses
    BY <2>1 DEF Statuses
  <2> QED BY <2>1, <2>2, AnswerLess
<1>3. CASE ~AtEnd(q)
  <2> DEFINE t == Moved(stack[q])
             len == Len(Program(Top(q).route))
             pos == Top(q).pos
  <2>1. pos < len
    BY <1>1, <1>3 DEF AtEnd, MaxLength
  <2>2. /\ stack' = [stack EXCEPT ![q] = t]
        /\ reply' = [reply EXCEPT ![q] = None]
    BY <1>1, <1>3 DEF Advance, Moved
  <2>3. /\ Len(t) = n
        /\ \A i \in 1..n : t[i].route = stack[q][i].route
        /\ \A i \in 1..(n - 1) : t[i] = stack[q][i]
        /\ t[n].pos = pos + 1
    <3>1. Len(stack[q]) > 0
          /\ stack[q][Len(stack[q])].pos
               < Len(Program(stack[q][Len(stack[q])].route))
      BY <1>1, <2>1
    <3>2. stack[q][Len(stack[q])].pos = pos /\ t = Moved(stack[q])
      BY <1>1
    <3> HIDE DEF t, pos, len
    <3>3. /\ Len(t) = Len(stack[q])
          /\ \A i \in 1..Len(stack[q]) : t[i].route = stack[q][i].route
          /\ \A i \in 1..(Len(stack[q]) - 1) : t[i] = stack[q][i]
          /\ t[Len(stack[q])].pos = stack[q][Len(stack[q])].pos + 1
      BY <1>1, <3>1, <3>2, MovedFacts
    <3> QED BY <1>1, <3>2, <3>3
  <2> HIDE DEF t, len, pos
  <2>4. stack'[q] = t /\ Depth(q)' = n /\ reply'[q] = None
    BY <2>2, <2>3 DEF Inv, Types, Depth
  <2>5. Left(q, n)' < Left(q, n)
    <3>1. At(q, n)' = At(q, n) /\ ~Dead(At(q, n)) /\ ~Dead(At(q, n))'
      BY <1>1, <2>3, <2>4 DEF At, Dead
    <3>2. ~(n > n) /\ ~(n < n)
      BY <1>1
    <3>3. Left(q, n)' = 2 * (len - (pos + 1)) + 2
      <4>1. t[n].route = Top(q).route
        BY <1>1, <2>3
      <4> QED BY <2>3, <2>4, <3>1, <3>2, <4>1 DEF Left, len
    <3>4. Left(q, n) \in {2 * (len - pos) + 1, 2 * (len - pos) + 2}
      BY <1>1, TopLeft DEF len, pos
    <3>5. len \in 1..11 /\ pos \in 1..11
      <4>1. \A l \in 1..MaxLength : 1..l \subseteq 1..11 /\ l \in 1..11
        BY DEF MaxLength
      <4> QED BY <1>1, <4>1 DEF len, pos
    <3> QED BY <3>3, <3>4, <3>5
  <2>6. ASSUME NEW i \in 1..3, i < n PROVE Left(q, i)' <= Left(q, i)
    <3>1. i \in 1..(n - 1) /\ i < Depth(q) /\ i < Depth(q)'
          /\ i <= Depth(q)' /\ Depth(q)' \in Nat
      BY <1>1, <2>4, <2>6
    <3>2. stack'[q][i] = stack[q][i]
      BY <2>3, <2>4, <3>1
    <3>3. Left(q, i)' = Left(q, i)
      BY <3>1, <3>2, WaitingSame
    <3> QED BY <3>3 DEF LeftBounded
  <2> QED BY <2>5, <2>6, LessLeft
<1> QED BY <1>2, <1>3

\* A handler that has called has a step less before it, whether the call was
\* taken or refused.
LEMMA CallLess ==
  ASSUME Inv, LeftBounded, LeftBounded', NEW q \in Requests, Call(q)
  PROVE  StepsLeft(q)' < StepsLeft(q)
<1> DEFINE f == NewFrame(Stages[Stage(q)].calls)
           len == Len(Program(Top(q).route))
           pos == Top(q).pos
<1>1. /\ Depth(q) > 0 /\ ~Dead(At(q, Depth(q))) /\ reply[q] = None
      /\ stage' = stage
      /\ \/ stack' = [stack EXCEPT ![q] = Append(stack[q], f)]
         \/ stack' = stack /\ reply' = [reply EXCEPT ![q] = Lost]
  BY DEF Call, Runs, ReplyToRefused
<1>2. PICK n \in 1..3 :
        /\ n = Depth(q) /\ n = Len(stack[q])
        /\ stack[q] \in Seq(Frame) /\ stack[q][n] = Top(q)
        /\ len \in 1..11 /\ pos \in 1..11
  <2>1. \A l \in 1..MaxLength : 1..l \subseteq 1..11 /\ l \in 1..11
    BY DEF MaxLength
  <2> QED BY <1>1, <2>1, TopFacts, ProgramFacts DEF MaxDepth
<1> HIDE DEF f, len, pos
<1>3. /\ Depth(q)' = n + 1 \/ (Depth(q)' = n /\ reply'[q] # None)
      /\ \A i \in 1..n : stack'[q][i] = stack[q][i]
  <2>1. CASE stack' = [stack EXCEPT ![q] = Append(stack[q], f)]
    <3>1. stack'[q] = Append(stack[q], f)
      BY <2>1 DEF Inv, Types
    <3>2. /\ Len(Append(stack[q], f)) = n + 1
          /\ \A i \in 1..n : Append(stack[q], f)[i] = stack[q][i]
      BY <1>2, AppendProperties
    <3> QED BY <3>1, <3>2 DEF Depth
  <2>2. CASE stack' = stack /\ reply' = [reply EXCEPT ![q] = Lost]
    BY <1>2, <2>2 DEF Inv, Types, Depth
  <2> QED BY <1>1, <2>1, <2>2
<1>4. Left(q, n)' < Left(q, n)
  <2>1. Left(q, n) = 2 * (len - pos) + 2
    BY <1>1, <1>2, TopLeft DEF len, pos
  <2>2. ~(n > Depth(q)') /\ (n < Depth(q)' \/ reply'[q] # None)
    BY <1>3
  <2>3. stack'[q][n] = Top(q)
    <3>1. n \in 1..n
      OBVIOUS
    <3> QED BY <1>2, <1>3, <3>1
  <2>4. Left(q, n)' = 2 * (len - pos) + 1
    BY <2>2, <2>3 DEF Left, len, pos
  <2> QED BY <1>2, <2>1, <2>4
<1>5. ASSUME NEW i \in 1..3, i < n PROVE Left(q, i)' <= Left(q, i)
  <2>1. i \in 1..n /\ i < Depth(q) /\ i < Depth(q)'
        /\ i <= Depth(q)' /\ Depth(q)' \in Nat
    BY <1>2, <1>3, <1>5
  <2>2. Left(q, i)' = Left(q, i)
    BY <1>1, <1>3, <2>1, WaitingSame
  <2> QED BY <2>2 DEF LeftBounded
<1> QED BY <1>4, <1>5, LessLeft

\* Every step of a request leaves it less to do.
LEMMA StepLess ==
  ASSUME Inv, LeftBounded, LeftBounded', NEW q \in Requests, Step(q)
  PROVE  StepsLeft(q)' < StepsLeft(q)
<1>1. CASE Pass(q)
  BY <1>1, AdvanceLess DEF Pass, Runs
<1>2. CASE Refuse(q)
  <2>1. PICK status \in Stages[Stage(q)].answers : Answer(q, status)
    BY <1>2 DEF Refuse
  <2>2. Depth(q) > 0 /\ ~Dead(At(q, Depth(q))) /\ Refused(q) /\ stage' = stage
    BY <1>2 DEF Refuse, Runs
  <2>3. status \in Statuses
    BY <2>1, <2>2, TopFacts, StageFacts DEF Statuses
  <2> QED BY <2>1, <2>2, <2>3, AnswerLess
<1>3. CASE Throw(q)
  <2>1. 500 \in Statuses
    BY DEF Statuses
  <2> QED BY <1>3, <2>1, AnswerLess DEF Throw, Runs
<1>4. CASE Call(q)
  BY <1>4, CallLess
<1>5. CASE Return(q)
  <2>1. Depth(q) > 0 /\ ~Dead(At(q, Depth(q))) /\ stage' = stage
    BY <1>5 DEF Return
  <2>2. CASE reply[q] = 200
    BY <1>5, <2>1, <2>2, AdvanceLess DEF Return
  <2>3. CASE reply[q] # 200
    <3> DEFINE status == FailedCall(Top(q).route, Stage(q), reply[q])
    <3>1. /\ Answer(q, status)
          /\ IF status = 401 THEN Outage(q) ELSE UNCHANGED refused
      BY <1>5, <2>3 DEF Return
    <3>2. status \in Statuses
      BY DEF FailedCall, Statuses
    <3> HIDE DEF status
    <3> QED BY <2>1, <3>1, <3>2, AnswerLess
  <2> QED BY <2>2, <2>3
<1>6. CASE Break(q)
  BY <1>6, BreakLess
<1> QED BY <1>1, <1>2, <1>3, <1>4, <1>5, <1>6 DEF Step

\* A request that has not moved has no more to do than before: at most, a
\* process has died.
LEMMA StandsStill ==
  ASSUME Inv, LeftBounded, LeftBounded', NEW q \in Requests,
         stack'[q] = stack[q], reply'[q] = reply[q],
         \A s \in Services : Dead(s) => Dead(s)'
  PROVE  StepsLeft(q)' <= StepsLeft(q)
<1> SUFFICES ASSUME NEW i \in 1..3 PROVE Left(q, i)' <= Left(q, i)
  BY NoMoreLeft
<1>1. Depth(q)' = Depth(q) /\ Depth(q) \in Nat /\ At(q, i)' = At(q, i)
  BY DepthBound DEF Depth, At
<1>2. CASE i > Depth(q)
  <2>1. Left(q, i) = 0 /\ Left(q, i)' = 0
    BY <1>1, <1>2 DEF Left
  <2> QED BY <2>1
<1>3. CASE i <= Depth(q)
  <2>1. At(q, i) \in Services
    <3>1. i \in 1..Len(stack[q]) /\ stack[q] \in Seq(Frame)
      BY <1>1, <1>3 DEF Depth, Inv, Types
    <3>2. stack[q][i] \in Frame
      BY <3>1, ElementOfSeq
    <3> QED BY <3>2, RouteFacts DEF At, Frame
  <2>2. Dead(At(q, i)) => Dead(At(q, i))'
    BY <1>1, <2>1 DEF Dead
  <2> DEFINE m == Len(Program(stack[q][i].route)) - stack[q][i].pos
             c == IF i < Depth(q) \/ reply[q] # None \/ Dead(At(q, i))
                    THEN 1 ELSE 2
             d == IF i < Depth(q) \/ reply[q] # None \/ Dead(At(q, i))'
                    THEN 1 ELSE 2
  <2>3. Left(q, i) = 2 * m + c /\ Left(q, i)' = 2 * m + d
    BY <1>1, <1>3 DEF Left
  <2>4. c \in 1..2 /\ d \in 1..2 /\ d <= c /\ m \in 0..10
    BY <1>3, <2>2, ToCome
  <2> HIDE DEF m, c, d
  <2> QED BY <2>3, <2>4
<1> QED BY <1>1, <1>2, <1>3

\* A step of one request moves no other.
LEMMA OthersStand ==
  ASSUME Inv, NEW q \in Requests, NEW p \in Requests, p # q, Step(p)
  PROVE  /\ stack'[q] = stack[q] /\ reply'[q] = reply[q]
         /\ stage' = stage
<1>1. Types
  BY DEF Inv
<1>2. CASE Pass(p)
  BY <1>1, <1>2 DEF Pass, Advance, Answer, Types
<1>3. CASE Refuse(p) \/ Throw(p)
  BY <1>1, <1>3 DEF Refuse, Throw, Answer, Types
<1>4. CASE Call(p)
  BY <1>1, <1>4 DEF Call, Types
<1>5. CASE Return(p)
  BY <1>1, <1>5 DEF Return, Advance, Answer, Types
<1>6. CASE Break(p)
  BY <1>1, <1>6 DEF Break, Types
<1> QED BY <1>2, <1>3, <1>4, <1>5, <1>6 DEF Step

\* What clients and processes do, or a listener, moves no request at work.
LEMMA EnvironmentStands ==
  ASSUME Inv, NEW q \in Requests, stack[q] # <<>>,
         \/ \E p \in Requests :
              \/ \E route \in Entries : Begin(p, route)
              \/ Receive(p) \/ HangUp(p) \/ Finish(p)
         \/ \E s \in Services :
              \/ Open(s) \/ Listen(s) \/ BootFails(s) \/ Stop(s)
              \/ CloseKept(s) \/ Exit(s) \/ Crash(s)
  PROVE  /\ stack'[q] = stack[q] /\ reply'[q] = reply[q]
         /\ \A s \in Services : Dead(s) => Dead(s)'
<1>1. Types
  BY DEF Inv
<1>2. ASSUME NEW p \in Requests,
             \/ \E route \in Entries : Begin(p, route)
             \/ Receive(p) \/ HangUp(p) \/ Finish(p)
      PROVE  /\ stack'[q] = stack[q] /\ reply'[q] = reply[q]
             /\ stage' = stage
  BY <1>1, <1>2 DEF Begin, Receive, HangUp, Finish, Types
<1>3. ASSUME NEW s \in Services,
             \/ Open(s) \/ Listen(s) \/ BootFails(s) \/ Stop(s)
             \/ CloseKept(s) \/ Exit(s) \/ Crash(s)
      PROVE  /\ stack' = stack /\ reply' = reply
             /\ \A r \in Services : Dead(r) => Dead(r)'
  <2>1. stack' = stack /\ reply' = reply
    BY <1>3 DEF Open, Listen, BootFails, Stop, CloseKept, Exit, Crash, flow
  <2>2. \/ stage' = stage
        \/ /\ stage[s] \in {"booting", "serving", "draining"}
           /\ \E to : stage' = [stage EXCEPT ![s] = to]
    BY <1>3 DEF Open, Listen, BootFails, Stop, CloseKept, Exit, Crash, Moves
  <2>3. ASSUME NEW r \in Services, Dead(r) PROVE Dead(r)'
    BY <1>1, <2>2, <2>3 DEF Dead, Types
  <2> QED BY <2>1, <2>3
<1> QED BY <1>2, <1>3 DEF Dead

\* The steps of every request run out, for any number of requests, any routes
\* and any faults.
THEOREM StepsDoRunOut == Spec => StepsRunOut
<1> DEFINE Less(q) ==
      /\ StepsLeft(q)' <= StepsLeft(q)
      /\ <<stack[q], reply[q]>>' # <<stack[q], reply[q]>> =>
           StepsLeft(q)' < StepsLeft(q)
<1>1. ASSUME Inv, LeftBounded, LeftBounded', [Next]_vars, NEW q \in Requests,
             stack[q] # <<>>
      PROVE  Less(q)
  <2>1. CASE Step(q)
    <3>1. StepsLeft(q)' < StepsLeft(q)
      BY <1>1, <2>1, StepLess
    <3>2. StepsLeft(q)' <= StepsLeft(q)
      BY <1>1, <3>1, StepsLeftNat
    <3> QED BY <3>1, <3>2
  <2>2. ASSUME stack'[q] = stack[q], reply'[q] = reply[q],
               \A s \in Services : Dead(s) => Dead(s)'
        PROVE  Less(q)
    <3>1. StepsLeft(q)' <= StepsLeft(q)
      BY <1>1, <2>2, StandsStill
    <3> QED BY <2>2, <3>1
  <2>3. ASSUME NEW p \in Requests, p # q, Step(p) PROVE Less(q)
    <3>1. stack'[q] = stack[q] /\ reply'[q] = reply[q] /\ stage' = stage
      BY <1>1, <2>3, OthersStand
    <3> QED BY <2>2, <3>1 DEF Dead
  <2>4. CASE UNCHANGED vars
    BY <2>2, <2>4 DEF vars, Dead
  <2>5. ASSUME \/ \E p \in Requests :
                    \/ \E route \in Entries : Begin(p, route)
                    \/ Receive(p) \/ HangUp(p) \/ Finish(p)
               \/ \E s \in Services :
                    \/ Open(s) \/ Listen(s) \/ BootFails(s) \/ Stop(s)
                    \/ CloseKept(s) \/ Exit(s) \/ Crash(s)
        PROVE  Less(q)
    BY <1>1, <2>2, <2>5, EnvironmentStands
  <2> HIDE DEF Less
  <2> QED BY <1>1, <2>1, <2>3, <2>4, <2>5 DEF Next
<1>2. Inv /\ LeftBounded /\ LeftBounded' /\ [Next]_vars =>
        [\A q \in Requests : stack[q] # <<>> => Less(q)]_vars
  BY <1>1
<1>3. Inv => LeftBounded
  BY LeftRange
<1> QED BY <1>2, <1>3, InvHolds, PTL DEF Spec, StepsRunOut

\* Only the clients' route runs through the gate.
LEMMA GateIsOfRedirect ==
  ASSUME NEW r \in Routes, NEW i \in 1..Len(Program(r))
  PROVE  Program(r)[i] = "gate" => r = "redirect"
<1>1. CASE r = "redirect"
  BY <1>1
<1>2. CASE r = "populate"
  BY <1>2, RedirectPrograms
<1>3. CASE r = "lookup"
  BY <1>3, PersistencePrograms
<1>4. CASE r = "create"
  BY <1>4, PersistencePrograms
<1>5. CASE r = "health"
  <2>1. Program(r) = <<"receive", "limit", "report">>
    BY <1>5, PersistencePrograms
  <2>2. \A k \in 1..3 : <<"receive", "limit", "report">>[k] # "gate"
    OBVIOUS
  <2>3. Len(<<"receive", "limit", "report">>) = 3
    OBVIOUS
  <2> QED BY <2>1, <2>2, <2>3
<1>6. CASE r = "token"
  BY <1>6, IssuerPrograms
<1>7. CASE r = "publicKey"
  BY <1>7, IssuerPrograms
<1> QED BY <1>1, <1>2, <1>3, <1>4, <1>5, <1>6, <1>7, RoutesByName

\* A request that waits in the gate, however long, has a client and no service
\* behind it, and keeps no service from exiting but the redirect service.  If
\* a service called a route with a gate, those that have a slot could wait for
\* those that wait for one.
THEOREM GateHoldsNoService ==
  Spec => [](\A q \in Requests : Queues(q) =>
               /\ Depth(q) = 1
               /\ \A s \in Services : WaitsFor(s, q) => s = "redirect")
<1>1. ASSUME Inv, NEW q \in Requests, Queues(q)
      PROVE  /\ Depth(q) = 1
             /\ \A s \in Services : WaitsFor(s, q) => s = "redirect"
  <2>1. Depth(q) > 0 /\ Stage(q) = "gate"
    BY <1>1 DEF Queues, Runs
  <2>2. /\ stack[q] \in Seq(Frame) /\ Depth(q) \in 1..MaxDepth
        /\ Depth(q) = Len(stack[q])
        /\ Top(q).route \in Routes
        /\ Top(q).pos \in 1..Len(Program(Top(q).route))
        /\ Depth(q) + Level(Top(q).route) <= MaxDepth + 1
        /\ At(q, Depth(q)) = ServiceOf(Top(q).route)
    BY <1>1, <2>1, TopFacts
  <2>3. Top(q).route = "redirect"
    BY <2>1, <2>2, GateIsOfRedirect DEF Stage
  <2>4. Depth(q) = 1
    <3>1. Level(Top(q).route) = 3
      BY <2>3 DEF Level
    <3>2. \A n \in 1..MaxDepth : n + 3 <= MaxDepth + 1 => n = 1
      BY DEF MaxDepth
    <3> QED BY <2>2, <3>1, <3>2
  <2>5. At(q, 1) = "redirect"
    BY <2>2, <2>3, <2>4, RedirectPrograms
  <2>6. \A i \in DOMAIN stack[q] : i = 1
    <3>1. DOMAIN stack[q] = 1..Len(stack[q])
      BY <2>2, LenProperties
    <3>2. Len(stack[q]) = 1
      BY <2>2, <2>4
    <3>3. \A i \in 1..1 : i = 1
      OBVIOUS
    <3> QED BY <3>1, <3>2, <3>3
  <2> QED BY <2>4, <2>5, <2>6 DEF WaitsFor
<1>2. Inv => \A q \in Requests : Queues(q) =>
               /\ Depth(q) = 1
               /\ \A s \in Services : WaitsFor(s, q) => s = "redirect"
  BY <1>1
<1> QED BY <1>2, InvHolds, PTL

===============================================================================
