--------------------------- MODULE RequestFlowProofs ---------------------------
(***************************************************************************)
(* Proofs about RequestFlow, for any number of requests, any routes for    *)
(* the clients and any faults: the types, what an orderly exit may cut     *)
(* off, what an answer means, and that RequestFlow implements Lifecycle.   *)
(***************************************************************************)
EXTENDS RequestFlow, SequenceTheorems, TLAPS

(***************************************************************************)
(* The tables.  A route calls only routes of a lower level, so no more     *)
(* than MaxDepth handlers wait for each other.                             *)
(***************************************************************************)

Level(route) ==
  CASE route \in {"redirect", "create"} -> 3
    [] route \in {"lookup", "populate"} -> 2
    [] OTHER                            -> 1

\* The routes by name.
LEMMA RoutesByName ==
  Routes = {"redirect", "populate", "lookup", "create", "health", "token",
            "publicKey"}
BY DEF Routes, RedirectRoutes, PersistenceRoutes, IssuerRoutes

\* The program of each route, and the service it belongs to.
LEMMA RedirectPrograms ==
  /\ ServiceOf("redirect") = "redirect"
  /\ ServiceOf("populate") = "redirect"
  /\ Program("redirect") = <<"receive", "code", "gate", "cache", "token",
                             "lookup", "fill">>
  /\ Program("populate") = <<"receive", "key", "rekey", "write", "fill">>
<1>1. /\ ServiceOf("redirect") = "redirect"
      /\ ServiceOf("populate") = "redirect"
  BY DEF ServiceOf, RedirectRoutes, PersistenceRoutes
<1> QED BY <1>1 DEF Program, RedirectRoutes

LEMMA PersistencePrograms ==
  /\ ServiceOf("lookup") = "persistence"
  /\ ServiceOf("create") = "persistence"
  /\ ServiceOf("health") = "persistence"
  /\ Program("lookup") = <<"receive", "limit", "key", "rekey", "keyParam",
                           "scope", "find">>
  /\ Program("create") = <<"receive", "limit", "key", "rekey", "payload",
                           "headers", "idempotent", "scope", "insert",
                           "token", "populate">>
  /\ Program("health") = <<"receive", "limit", "report">>
<1>1. /\ ServiceOf("lookup") = "persistence"
      /\ ServiceOf("create") = "persistence"
      /\ ServiceOf("health") = "persistence"
  BY DEF ServiceOf, RedirectRoutes, PersistenceRoutes
<1> QED BY <1>1 DEF Program, PersistenceRoutes

LEMMA IssuerPrograms ==
  /\ ServiceOf("token") = "issuer"
  /\ ServiceOf("publicKey") = "issuer"
  /\ Program("token") = <<"receive", "claims", "sign">>
  /\ Program("publicKey") = <<"receive", "read">>
<1>1. /\ ServiceOf("token") = "issuer"
      /\ ServiceOf("publicKey") = "issuer"
  BY DEF ServiceOf, RedirectRoutes, PersistenceRoutes
<1> QED BY <1>1 DEF Program, IssuerRoutes

\* What a stage may answer, and which routes it may call.
LEMMA StageFacts ==
  ASSUME NEW stg \in StageNames
  PROVE  /\ Stages[stg].answers \subseteq {201, 302, 400, 401, 403, 404, 429}
         /\ 404 \in Stages[stg].answers => stg = "find"
         /\ Stages[stg].calls \in {"none", "token", "publicKey", "lookup",
                                   "populate"}
         /\ Stages[stg].calls \in {"lookup", "populate"} =>
              stg \in {"lookup", "populate"}
         /\ Stages[stg].calls \in {"token", "publicKey"} =>
              stg \in {"token", "key", "rekey"}
         /\ stg \notin {"none", "outage"}
BY DEF StageNames, Stages, Plain, Caller, Spared, ReceiveStage, Checked,
   CodeStage, KeyParamStage, WriteStage, PayloadStage, HeadersStage,
   ClaimsStage, ScopeStage, GateStage, LimitStage, CacheStage, FillStage,
   TokenStage, LookupStage, PopulateStage, IdempotentStage, InsertStage,
   FindStage, SignStage, ReadStage, ReportStage, KeyStage, RekeyStage

\* Each stage name is one.
LEMMA StageNamesAre ==
  StageNames = {"receive", "code", "keyParam", "write", "payload", "headers",
                "claims", "scope", "gate", "limit", "cache", "fill", "token",
                "lookup", "populate", "idempotent", "insert", "find", "sign",
                "read", "report", "key", "rekey"}
BY DEF StageNames, Stages

\* Every route belongs to a service, and ends with a status of success.
LEMMA RouteFacts ==
  ASSUME NEW r \in Routes
  PROVE  /\ ServiceOf(r) \in Services
         /\ Success(r) \in {200, 201, 302}
         /\ Level(r) \in 1..3
BY RoutesByName, RedirectPrograms, PersistencePrograms, IssuerPrograms
   DEF Services, Success, Level

\* Every program is a sequence of stages.
LEMMA ProgramFacts ==
  ASSUME NEW r \in Routes
  PROVE  /\ Len(Program(r)) \in 1..MaxLength
         /\ \A i \in 1..Len(Program(r)) : Program(r)[i] \in StageNames
<1>1. CASE r = "redirect"
  BY <1>1, StageNamesAre, RedirectPrograms DEF MaxLength
<1>2. CASE r = "populate"
  BY <1>2, StageNamesAre, RedirectPrograms DEF MaxLength
<1>3. CASE r = "lookup"
  BY <1>3, StageNamesAre, PersistencePrograms DEF MaxLength
<1>4. CASE r = "create"
  BY <1>4, StageNamesAre, PersistencePrograms DEF MaxLength
<1>5. CASE r = "health"
  BY <1>5, StageNamesAre, PersistencePrograms DEF MaxLength
<1>6. CASE r = "token"
  BY <1>6, StageNamesAre, IssuerPrograms DEF MaxLength
<1>7. CASE r = "publicKey"
  BY <1>7, StageNamesAre, IssuerPrograms DEF MaxLength
<1> QED BY <1>1, <1>2, <1>3, <1>4, <1>5, <1>6, <1>7, RoutesByName

\* The stages that call a service are in the routes that need it.
LEMMA CallerFacts ==
  ASSUME NEW r \in Routes, NEW i \in 1..Len(Program(r))
  PROVE  /\ Program(r)[i] = "idempotent" => r = "create"
         /\ Program(r)[i] \in {"lookup", "populate"} => Level(r) = 3
         /\ Program(r)[i] \in {"token", "key", "rekey"} => Level(r) \in 2..3
<1>1. CASE r = "redirect"
  BY <1>1, RedirectPrograms DEF Level
<1>2. CASE r = "populate"
  BY <1>2, RedirectPrograms DEF Level
<1>3. CASE r = "lookup"
  BY <1>3, PersistencePrograms DEF Level
<1>4. CASE r = "create"
  BY <1>4, PersistencePrograms DEF Level
<1>5. CASE r = "health"
  BY <1>5, PersistencePrograms DEF Level
<1>6. CASE r = "token"
  BY <1>6, IssuerPrograms DEF Level
<1>7. CASE r = "publicKey"
  BY <1>7, IssuerPrograms DEF Level
<1> QED BY <1>1, <1>2, <1>3, <1>4, <1>5, <1>6, <1>7, RoutesByName

\* Calls go down by a level at least.
LEMMA CallFacts ==
  ASSUME NEW r \in Routes, NEW i \in 1..Len(Program(r)),
         NEW c, c = Stages[Program(r)[i]].calls, c # "none"
  PROVE  c \in Routes /\ Level(c) < Level(r)
<1>1. Program(r)[i] \in StageNames
  BY ProgramFacts
<1>2. /\ c \in {"token", "publicKey", "lookup", "populate"}
      /\ c \in {"token", "publicKey"} =>
           Program(r)[i] \in {"token", "key", "rekey"}
      /\ c \in {"lookup", "populate"} =>
           Program(r)[i] \in {"lookup", "populate"}
  BY <1>1, StageFacts
<1>3. CASE c \in {"token", "publicKey"}
  BY <1>2, <1>3, CallerFacts, RoutesByName DEF Level
<1>4. CASE c \in {"lookup", "populate"}
  BY <1>2, <1>4, CallerFacts, RoutesByName DEF Level
<1> QED BY <1>2, <1>3, <1>4

(***************************************************************************)
(* The stacks.                                                             *)
(***************************************************************************)

Frame == [route : Routes, pos : 1..MaxLength]

\* What is left when the last handler has ended.
LEMMA Popped ==
  ASSUME NEW s \in Seq(Frame), Len(s) > 0
  PROVE  /\ Front(s) \in Seq(Frame)
         /\ Len(Front(s)) = Len(s) - 1
         /\ \A i \in 1..(Len(s) - 1) : Front(s)[i] = s[i]
<1> DEFINE n == Len(s) - 1
<1>1. n \in Nat /\ n + 1 = Len(s) /\ 1 \in Int /\ n \in Int
  BY LenProperties
<1>2. \A i \in 1..n : i \in 1..Len(s)
  BY <1>1
<1>3. \A i \in 1..n : s[i] \in Frame
  BY <1>2, ElementOfSeq
<1> HIDE DEF n
<1>4. /\ SubSeq(s, 1, n) \in Seq(Frame)
      /\ Len(SubSeq(s, 1, n)) = IF 1 <= n THEN n - 1 + 1 ELSE 0
      /\ \A i \in 1..(n - 1 + 1) : SubSeq(s, 1, n)[i] = s[1 + i - 1]
  BY <1>1, <1>3, SubSeqProperties
<1>5. Len(SubSeq(s, 1, n)) = n
  BY <1>1, <1>4
<1>6. \A i \in 1..n : SubSeq(s, 1, n)[i] = s[i]
  BY <1>1, <1>4
<1> QED BY <1>4, <1>5, <1>6 DEF n, Front

\* A call puts a handler on top.
LEMMA Pushed ==
  ASSUME NEW s \in Seq(Frame), NEW f \in Frame
  PROVE  /\ Append(s, f) \in Seq(Frame)
         /\ Len(Append(s, f)) = Len(s) + 1
         /\ \A i \in 1..Len(s) : Append(s, f)[i] = s[i]
         /\ Append(s, f)[Len(s) + 1] = f
OBVIOUS

Moved(s) == [s EXCEPT ![Len(s)].pos = @ + 1]

\* The last handler goes on to its next stage.
LEMMA MovedFacts ==
  ASSUME NEW s \in Seq(Frame), Len(s) > 0,
         s[Len(s)].pos < Len(Program(s[Len(s)].route)),
         NEW t, t = Moved(s)
  PROVE  /\ t \in Seq(Frame)
         /\ Len(t) = Len(s)
         /\ \A i \in 1..Len(s) : t[i].route = s[i].route
         /\ \A i \in 1..(Len(s) - 1) : t[i] = s[i]
         /\ t[Len(s)].pos = s[Len(s)].pos + 1
<1> DEFINE n == Len(s)
           f == [s[n] EXCEPT !.pos = @ + 1]
<1>1. n \in 1..Len(s) /\ s[n] \in Frame /\ n \in Nat
  OBVIOUS
<1>2. s[n].route \in Routes /\ s[n].pos \in 1..MaxLength
  BY <1>1 DEF Frame
<1>3. Len(Program(s[n].route)) \in 1..MaxLength
  BY <1>2, ProgramFacts
<1>4. s[n].pos + 1 \in 1..MaxLength
  <2>1. \A p, l \in 1..MaxLength : p < l => p + 1 \in 1..MaxLength
    BY DEF MaxLength
  <2> QED BY <1>2, <1>3, <2>1
<1>5. f \in Frame /\ f.route = s[n].route /\ f.pos = s[n].pos + 1
  BY <1>1, <1>4 DEF Frame
<1>6. t = [s EXCEPT ![n] = f]
  BY DEF Moved
<1> HIDE DEF f
<1>7. t \in Seq(Frame) /\ Len(t) = Len(s) /\ t[n] = f
      /\ \A i \in 1..Len(s) : i # n => t[i] = s[i]
  BY <1>1, <1>5, <1>6, ExceptSeq
<1> QED BY <1>1, <1>5, <1>7

\* A stack is empty when its length is 0.
LEMMA EmptyStack ==
  ASSUME NEW s \in Seq(Frame)
  PROVE  /\ s = <<>> <=> Len(s) = 0
         /\ Len(s) \in Nat
         /\ \A i \in 1..Len(s) : s[i] \in Frame
OBVIOUS

(***************************************************************************)
(* The inductive invariant.  TypeOK needs that calls go down by a level,   *)
(* ExitDropsNobody that no handler runs in a process that has not booted,  *)
(* and AnswersAreOwn that a 404 which is still on its way up was given by  *)
(* the lookup in the database.                                             *)
(***************************************************************************)

Types ==
  /\ stage \in [Services -> {"booting", "serving", "draining", "exited",
                             "failed"}]
  /\ opened \in [Services -> 0..3]
  /\ cut \in [Services -> BOOLEAN]
  /\ stack \in [Requests -> Seq(Frame)]
  /\ reply \in [Requests -> Statuses \cup {None, Lost}]
  /\ gone \in [Requests -> BOOLEAN]
  /\ finishing \in [Requests -> BOOLEAN]
  /\ refused \in [Requests -> [by : StageNames \cup {"none", "outage"},
                               depth : 0..MaxDepth]]

\* The handlers of q.
Handlers(q) ==
  \A i \in 1..Len(stack[q]) :
    /\ stack[q][i].pos <= Len(Program(stack[q][i].route))
    /\ i + Level(stack[q][i].route) <= MaxDepth + 1
    /\ stage[At(q, i)] # "booting"
    /\ stage[At(q, i)] = "exited" => Unwanted(q, i)

\* What else is known of q.
Rest(q) ==
  /\ stack[q] # <<>> => ~finishing[q]
  /\ stack[q] = <<>> => ~gone[q]
  /\ finishing[q] => stage["persistence"] \in {"serving", "draining"}
  /\ reply[q] = 404 => refused[q].by = "find"
  /\ stack[q] = <<>> /\ reply[q] \in {400, 401, 403, 429} =>
       /\ refused[q].depth = 1
       /\ refused[q].by = "outage" => reply[q] = 401

Inv == Types /\ \A q \in Requests : Handlers(q) /\ Rest(q)

\* Connections are kept open beyond their answer only while a service drains.
Kept ==
  /\ kept \in [Services -> Nat]
  /\ \A s \in Services : stage[s] # "draining" => kept[s] = 0

\* No more than MaxDepth handlers wait for each other.
LEMMA DepthBound ==
  ASSUME Inv, NEW q \in Requests
  PROVE  Len(stack[q]) \in Nat /\ Len(stack[q]) <= MaxDepth
<1>1. stack[q] \in Seq(Frame) /\ Handlers(q)
  BY DEF Inv, Types
<1>2. CASE Len(stack[q]) = 0
  BY <1>2 DEF MaxDepth
<1>3. CASE Len(stack[q]) > 0
  <2> DEFINE n == Len(stack[q])
  <2>1. n \in 1..n /\ n \in Nat /\ stack[q][n] \in Frame
    BY <1>1, <1>3
  <2>2. n + Level(stack[q][n].route) <= MaxDepth + 1
    BY <1>1, <2>1 DEF Handlers
  <2>3. Level(stack[q][n].route) \in 1..3
    BY <2>1, RouteFacts DEF Frame
  <2>4. \A m \in Nat, l \in 1..3 : m + l <= MaxDepth + 1 => m <= MaxDepth
    BY DEF MaxDepth
  <2> QED BY <2>1, <2>2, <2>3, <2>4
<1> QED BY <1>1, <1>2, <1>3, LenProperties

\* The invariant gives the three properties.
LEMMA InvGives == Inv /\ Kept => TypeOK /\ ExitDropsNobody /\ AnswersAreOwn
<1> SUFFICES ASSUME Inv, Kept PROVE TypeOK /\ ExitDropsNobody /\ AnswersAreOwn
  OBVIOUS
<1>1. \A q \in Requests : /\ stack[q] \in Seq(Frame)
                          /\ DOMAIN stack[q] = 1..Len(stack[q])
                          /\ Handlers(q) /\ Rest(q)
  BY LenProperties DEF Inv, Types
<1>2. TypeOK
  <2>1. \A q \in Requests : Len(stack[q]) <= MaxDepth
    BY DepthBound
  <2> QED BY <1>1, <2>1 DEF Inv, Kept, Types, TypeOK, Handlers, Frame
<1>3. ExitDropsNobody
  BY <1>1 DEF ExitDropsNobody, Handlers
<1>4. AnswersAreOwn
  BY <1>1 DEF AnswersAreOwn, Rest
<1> QED BY <1>2, <1>3, <1>4

\* Nothing has begun, so there is nothing to show but the types.
LEMMA InitInv == Init => Inv /\ Kept
BY EmptySeq DEF Init, Inv, Kept, Types, Handlers, Rest, None, NotRefused,
   MaxDepth, Services, Statuses

(***************************************************************************)
(* The steps of one request.                                               *)
(***************************************************************************)

USE DEF None, Lost

\* q alone may have changed.
Only(q) ==
  \A p \in Requests :
    p # q => /\ stack'[p] = stack[p] /\ reply'[p] = reply[p]
             /\ gone'[p] = gone[p] /\ finishing'[p] = finishing[p]
             /\ refused'[p] = refused[p]

\* It is enough to look at the request that has made the step.
LEMMA LocalStep ==
  ASSUME Inv, Types', stage' = stage, NEW q \in Requests, Only(q),
         Handlers(q)', Rest(q)'
  PROVE  Inv'
<1> SUFFICES ASSUME NEW p \in Requests, p # q
             PROVE  Handlers(p)' /\ Rest(p)'
  BY DEF Inv
<1>1. /\ stack'[p] = stack[p] /\ reply'[p] = reply[p] /\ gone'[p] = gone[p]
      /\ finishing'[p] = finishing[p] /\ refused'[p] = refused[p]
  BY DEF Only
<1>2. Handlers(p) /\ Rest(p)
  BY DEF Inv
<1>3. Handlers(p)'
  BY <1>1, <1>2 DEF Handlers, At, Unwanted, Dead
<1>4. Rest(p)'
  BY <1>1, <1>2 DEF Rest
<1> QED BY <1>3, <1>4

LEMMA Between ==
  \A n \in Nat : n > 0 => n \in 1..n /\ (n <= MaxDepth => n \in 1..MaxDepth)
BY DEF MaxDepth

\* What is known of the last handler.
LEMMA TopFacts ==
  ASSUME Inv, NEW q \in Requests, Depth(q) > 0
  PROVE  /\ stack[q] \in Seq(Frame) /\ Depth(q) \in 1..MaxDepth
         /\ Depth(q) = Len(stack[q])
         /\ Top(q) = stack[q][Depth(q)]
         /\ Top(q) \in Frame
         /\ Top(q).route \in Routes
         /\ Top(q).pos \in 1..Len(Program(Top(q).route))
         /\ Stage(q) \in StageNames
         /\ Depth(q) + Level(Top(q).route) <= MaxDepth + 1
         /\ At(q, Depth(q)) = ServiceOf(Top(q).route)
         /\ stage[At(q, Depth(q))] # "booting"
<1> DEFINE n == Len(stack[q])
<1>1. stack[q] \in Seq(Frame) /\ Handlers(q)
  BY DEF Inv, Types
<1>2. n \in Nat /\ n <= MaxDepth /\ n > 0 /\ Depth(q) = n
  BY DepthBound DEF Depth
<1> HIDE DEF n
<1>3. n \in 1..MaxDepth /\ n \in 1..Len(stack[q])
  BY <1>2, Between DEF n
<1>4. stack[q][n] \in Frame
  BY <1>1, <1>3, ElementOfSeq
<1>5. /\ stack[q][n].pos <= Len(Program(stack[q][n].route))
      /\ n + Level(stack[q][n].route) <= MaxDepth + 1
      /\ stage[At(q, n)] # "booting"
  BY <1>1, <1>3 DEF Handlers
<1>6. stack[q][n].route \in Routes /\ stack[q][n].pos \in 1..MaxLength
  BY <1>4 DEF Frame
<1>7. stack[q][n].pos \in 1..Len(Program(stack[q][n].route))
  <2>1. Len(Program(stack[q][n].route)) \in 1..MaxLength
    BY <1>6, ProgramFacts
  <2>2. \A p, l \in 1..MaxLength : p <= l => p \in 1..l
    BY DEF MaxLength
  <2> QED BY <1>5, <1>6, <2>1, <2>2
<1>8. Program(stack[q][n].route)[stack[q][n].pos] \in StageNames
  BY <1>6, <1>7, ProgramFacts
<1>9. Top(q) = stack[q][n] /\ n = Len(stack[q])
  BY <1>2 DEF Top, n
<1> QED BY <1>1, <1>2, <1>3, <1>4, <1>5, <1>6, <1>7, <1>8, <1>9 DEF Stage, At

\* The last handler of q has gone from its stack.
Pops(q) ==
  /\ Len(stack'[q]) = Len(stack[q]) - 1
  /\ \A i \in 1..(Len(stack[q]) - 1) : stack'[q][i] = stack[q][i]
  /\ Len(stack[q]) > 1 => gone'[q] = gone[q]
  /\ Len(stack[q]) = 1 => ~gone'[q]

\* The handlers that are left are what they were.
LEMMA PopKeepsHandlers ==
  ASSUME Inv, NEW q \in Requests, Depth(q) > 0, stage' = stage, Pops(q)
  PROVE  Handlers(q)'
<1> DEFINE n == Len(stack[q])
<1>1. n \in Nat /\ Handlers(q)
  BY LenProperties DEF Inv, Types
<1> SUFFICES ASSUME NEW i \in 1..(n - 1)
             PROVE  /\ stack'[q][i].pos <= Len(Program(stack'[q][i].route))
                    /\ i + Level(stack'[q][i].route) <= MaxDepth + 1
                    /\ stage'[At(q, i)'] # "booting"
                    /\ stage'[At(q, i)'] = "exited" => Unwanted(q, i)'
  BY DEF Pops, Handlers
<1>2. i \in 1..n /\ n > 1
  BY <1>1
<1>3. stack'[q][i] = stack[q][i] /\ At(q, i)' = At(q, i)
  BY DEF Pops, At
<1>4. Unwanted(q, i)' = Unwanted(q, i)
  <2>1. CASE i = 1
    BY <1>2, <2>1 DEF Unwanted, Pops
  <2>2. CASE i # 1
    <3>1. i - 1 \in 1..(n - 1)
      BY <2>2, <1>1
    <3>2. At(q, i - 1)' = At(q, i - 1)
      BY <3>1 DEF Pops, At
    <3> QED BY <2>2, <3>2 DEF Unwanted, Dead
  <2> QED BY <2>1, <2>2
<1> QED BY <1>1, <1>2, <1>3, <1>4 DEF Handlers

\* Once the handler of the client has gone, there is no client to hang up.
LEMMA HangUpKept ==
  ASSUME Types, NEW q \in Requests,
         gone' = [gone EXCEPT ![q] = @ /\ Depth(q) > 1]
  PROVE  /\ gone' \in [Requests -> BOOLEAN]
         /\ Depth(q) > 1 => gone'[q] = gone[q]
         /\ ~(Depth(q) > 1) => ~gone'[q]
<1> DEFINE more == Depth(q) > 1
<1>1. gone' = [gone EXCEPT ![q] = gone[q] /\ more]
  OBVIOUS
<1>2. gone \in [Requests -> BOOLEAN] /\ gone[q] \in BOOLEAN
  BY DEF Types
<1> HIDE DEF more
<1>3. CASE more
  <2>1. (gone[q] /\ more) = gone[q]
    BY <1>2, <1>3, Zenon
  <2>2. gone' = [gone EXCEPT ![q] = gone[q]]
    BY <1>1, <2>1, Zenon
  <2> QED BY <1>2, <1>3, <2>2 DEF more
<1>4. CASE ~more
  <2>1. (gone[q] /\ more) = FALSE
    BY <1>4, Zenon
  <2>2. gone' = [gone EXCEPT ![q] = FALSE]
    BY <1>1, <2>1, Zenon
  <2> QED BY <1>2, <1>4, <2>2 DEF more
<1> QED BY <1>3, <1>4

\* An answer takes the last handler from the stack, and only a creation leaves
\* something to finish.
LEMMA AnswerPops ==
  ASSUME Inv, NEW q \in Requests, Depth(q) > 0, ~Dead(At(q, Depth(q))),
         NEW status \in Statuses, Answer(q, status),
         refused' = refused \/ Refused(q) \/ Outage(q)
  PROVE  /\ Pops(q) /\ Only(q)
         /\ stack' \in [Requests -> Seq(Frame)]
         /\ stack'[q] = <<>> <=> Depth(q) = 1
         /\ reply'[q] \in {None, status}
         /\ reply' \in [Requests -> Statuses \cup {None, Lost}]
         /\ gone' \in [Requests -> BOOLEAN]
         /\ finishing' \in [Requests -> BOOLEAN]
         /\ finishing'[q] => /\ Depth(q) = 1 /\ ~gone[q]
                             /\ At(q, 1) = "persistence"
<1> DEFINE n == Len(stack[q])
<1>1. /\ stack[q] \in Seq(Frame) /\ Depth(q) = n /\ n \in Nat /\ n > 0
      /\ Types
  BY TopFacts, LenProperties DEF Inv, Types
<1>2. /\ Front(stack[q]) \in Seq(Frame)
      /\ Len(Front(stack[q])) = n - 1
      /\ \A i \in 1..(n - 1) : Front(stack[q])[i] = stack[q][i]
  BY <1>1, Popped
<1>3. stack' = [stack EXCEPT ![q] = Front(stack[q])]
  BY DEF Answer
<1>4. stack'[q] = Front(stack[q]) /\ stack' \in [Requests -> Seq(Frame)]
  BY <1>1, <1>2, <1>3 DEF Types
<1>5. /\ reply'[q] \in {None, status}
      /\ reply' \in [Requests -> Statuses \cup {None, Lost}]
  BY <1>1 DEF Answer, Types
<1>6. /\ gone' \in [Requests -> BOOLEAN]
      /\ n > 1 => gone'[q] = gone[q]
      /\ n = 1 => ~gone'[q]
  <2>1. gone' = [gone EXCEPT ![q] = @ /\ Depth(q) > 1]
    BY DEF Answer
  <2>2. n > 1 => Depth(q) > 1
    BY <1>1
  <2>3. n = 1 => ~(Depth(q) > 1)
    BY <1>1
  <2> QED BY <1>1, <2>1, <2>2, <2>3, HangUpKept
<1>7. /\ finishing' \in [Requests -> BOOLEAN]
      /\ finishing'[q] => n = 1 /\ Listens(q) /\ ~gone[q]
  <2>1. /\ finishing' = [finishing EXCEPT ![q] =
                           Depth(q) = 1 /\ Listens(q) /\ ~gone[q]]
        /\ finishing \in [Requests -> BOOLEAN]
    BY <1>1 DEF Answer, Types
  <2>2. (Depth(q) = 1 /\ Listens(q) /\ ~gone[q]) \in BOOLEAN
    OBVIOUS
  <2>3. /\ finishing' \in [Requests -> BOOLEAN]
        /\ finishing'[q] = (Depth(q) = 1 /\ Listens(q) /\ ~gone[q])
    BY <2>1, <2>2
  <2> QED BY <1>1, <2>3
<1>8. Listens(q) => At(q, Depth(q)) = "persistence"
  <2> SUFFICES ASSUME Listens(q) PROVE At(q, Depth(q)) = "persistence"
    OBVIOUS
  <2>1. PICK i \in 1..(Top(q).pos - 1) : Program(Top(q).route)[i] = "idempotent"
    BY DEF Listens
  <2>2. /\ Top(q).route \in Routes
        /\ Top(q).pos \in 1..Len(Program(Top(q).route))
        /\ Len(Program(Top(q).route)) \in 1..MaxLength
    BY TopFacts, ProgramFacts
  <2>3. i \in 1..Len(Program(Top(q).route))
    BY <2>2
  <2>4. Top(q).route = "create"
    BY <2>1, <2>2, <2>3, CallerFacts
  <2> QED BY <2>4, TopFacts, PersistencePrograms
<1>9. finishing'[q] => /\ Depth(q) = 1 /\ ~gone[q] /\ At(q, 1) = "persistence"
  BY <1>1, <1>7, <1>8
<1>10. stack'[q] = <<>> <=> n = 1
  <2>1. stack'[q] = <<>> <=> Len(Front(stack[q])) = 0
    BY <1>2, <1>4, EmptyStack
  <2> HIDE DEF n
  <2>2. n - 1 = 0 <=> n = 1
    BY <1>1
  <2> QED BY <1>2, <2>1, <2>2
<1>11. Only(q)
  BY <1>1 DEF Only, Answer, Types, Refused, Outage
<1>12. Pops(q)
  BY <1>2, <1>4, <1>6 DEF Pops
<1> QED BY <1>1, <1>4, <1>5, <1>6, <1>7, <1>9, <1>10, <1>11, <1>12

\* The last handler has not answered a 404, or a refusal to the client, that
\* is not its own.
LEMMA AnswerKeeps ==
  ASSUME Inv, NEW q \in Requests, Depth(q) > 0, ~Dead(At(q, Depth(q))),
         NEW status \in Statuses, Answer(q, status),
         UNCHANGED <<stage, opened, cut>>,
         refused' = refused \/ Refused(q) \/ Outage(q),
         status = 404 => refused'[q].by = "find",
         Depth(q) = 1 /\ status \in {400, 401, 403, 429} =>
           /\ refused'[q].depth = 1
           /\ refused'[q].by = "outage" => status = 401
  PROVE  Inv'
<1>1. /\ Stage(q) \in StageNames /\ Depth(q) \in 1..MaxDepth
      /\ stage[At(q, Depth(q))] # "booting"
      /\ Types /\ Len(stack[q]) = Depth(q) /\ Depth(q) \in Nat
  BY TopFacts, LenProperties DEF Inv, Types
<1>2. /\ Pops(q) /\ Only(q)
      /\ stack' \in [Requests -> Seq(Frame)]
      /\ stack'[q] = <<>> <=> Depth(q) = 1
      /\ reply'[q] \in {None, status}
      /\ reply' \in [Requests -> Statuses \cup {None, Lost}]
      /\ gone' \in [Requests -> BOOLEAN]
      /\ finishing' \in [Requests -> BOOLEAN]
      /\ finishing'[q] => Depth(q) = 1 /\ At(q, 1) = "persistence"
  BY AnswerPops
<1>3. refused' \in [Requests -> [by : StageNames \cup {"none", "outage"},
                                 depth : 0..MaxDepth]]
  <2>1. ASSUME NEW by \in StageNames \cup {"outage"}
        PROVE  [by |-> by, depth |-> Depth(q)] \in
                 [by : StageNames \cup {"none", "outage"}, depth : 0..MaxDepth]
    <3>1. 1..MaxDepth \subseteq 0..MaxDepth
      BY DEF MaxDepth
    <3> QED BY <1>1, <3>1
  <2>2. CASE refused' = refused
    BY <1>1, <2>2 DEF Types
  <2>3. CASE Refused(q)
    BY <1>1, <2>1, <2>3 DEF Types, Refused
  <2>4. CASE Outage(q)
    BY <1>1, <2>1, <2>4 DEF Types, Outage
  <2> QED BY <2>2, <2>3, <2>4
<1>4. Types'
  BY <1>1, <1>2, <1>3 DEF Types
<1>5. Handlers(q)'
  BY <1>2, PopKeepsHandlers
<1>6. Rest(q)'
  <2>1. finishing'[q] => stage'["persistence"] \in {"serving", "draining"}
    BY <1>1, <1>2 DEF Types, Services, Dead
  <2>2. stack'[q] = <<>> => ~gone'[q]
    BY <1>1, <1>2 DEF Pops
  <2>3. reply'[q] = 404 => refused'[q].by = "find"
    BY <1>2
  <2>4. stack'[q] = <<>> /\ reply'[q] \in {400, 401, 403, 429} =>
          /\ refused'[q].depth = 1
          /\ refused'[q].by = "outage" => reply'[q] = 401
    BY <1>2
  <2> QED BY <1>2, <2>1, <2>2, <2>3, <2>4 DEF Rest
<1> QED BY <1>2, <1>4, <1>5, <1>6, LocalStep

\* The last handler has gone on to its next stage, or has ended well.
LEMMA AdvanceKeeps ==
  ASSUME Inv, NEW q \in Requests, Depth(q) > 0, ~Dead(At(q, Depth(q))),
         Advance(q), UNCHANGED <<stage, opened, cut, refused>>
  PROVE  Inv'
<1> DEFINE n == Len(stack[q])
<1>1. /\ stack[q] \in Seq(Frame) /\ Depth(q) = n /\ n \in Nat /\ n > 0
      /\ Top(q) = stack[q][n]
      /\ Top(q).route \in Routes
      /\ Top(q).pos \in 1..Len(Program(Top(q).route))
      /\ Types /\ Handlers(q) /\ Rest(q)
  BY TopFacts, LenProperties DEF Inv, Types
<1>2. CASE AtEnd(q)
  <2> DEFINE status == Success(Top(q).route)
  <2>1. Answer(q, status) /\ status \in {200, 201, 302}
    BY <1>1, <1>2, RouteFacts DEF Advance
  <2> HIDE DEF status
  <2>2. status \in Statuses
    BY <2>1 DEF Statuses
  <2> QED BY <2>1, <2>2, AnswerKeeps
<1>3. CASE ~AtEnd(q)
  <2> DEFINE t == Moved(stack[q])
  <2>1. /\ stack' = [stack EXCEPT ![q][n].pos = @ + 1]
        /\ reply' = [reply EXCEPT ![q] = None]
        /\ UNCHANGED <<gone, finishing>>
    BY <1>1, <1>3 DEF Advance
  <2>2. Top(q).pos < Len(Program(Top(q).route))
    <3>1. Len(Program(Top(q).route)) \in 1..MaxLength
      BY <1>1, ProgramFacts
    <3> QED BY <1>1, <1>3, <3>1 DEF AtEnd
  <2>3. stack' = [stack EXCEPT ![q] = t]
    BY <2>1 DEF Moved
  <2>4. /\ t \in Seq(Frame) /\ Len(t) = n
        /\ \A i \in 1..n : t[i].route = stack[q][i].route
        /\ \A i \in 1..(n - 1) : t[i] = stack[q][i]
        /\ t[n].pos = stack[q][n].pos + 1
    <3>1. Len(stack[q]) > 0
          /\ stack[q][Len(stack[q])].pos
               < Len(Program(stack[q][Len(stack[q])].route))
      BY <1>1, <2>2
    <3> QED BY <1>1, <3>1, MovedFacts
  <2> HIDE DEF t
  <2>5. stack'[q] = t /\ stack' \in [Requests -> Seq(Frame)]
    BY <1>1, <2>3, <2>4 DEF Types
  <2>6. Types'
    BY <1>1, <2>1, <2>5 DEF Types
  <2>7. Only(q)
    BY <1>1, <2>1, <2>3 DEF Only, Types
  <2>8. Handlers(q)'
    <3> HIDE DEF n
    <3>1. Len(stack'[q]) = n /\ n = Len(stack[q])
      BY <2>4, <2>5 DEF n
    <3>2. \A i \in 1..n : At(q, i)' = At(q, i)
      BY <2>4, <2>5 DEF At
    <3> SUFFICES ASSUME NEW i \in 1..n
                 PROVE  /\ stack'[q][i].pos <= Len(Program(stack'[q][i].route))
                        /\ i + Level(stack'[q][i].route) <= MaxDepth + 1
                        /\ stage'[At(q, i)'] # "booting"
                        /\ stage'[At(q, i)'] = "exited" => Unwanted(q, i)'
      BY <3>1 DEF Handlers
    <3>3. /\ stack[q][i].pos <= Len(Program(stack[q][i].route))
          /\ i + Level(stack[q][i].route) <= MaxDepth + 1
          /\ stage[At(q, i)] # "booting"
          /\ stage[At(q, i)] = "exited" => Unwanted(q, i)
      BY <1>1, <3>1 DEF Handlers
    <3>4. stack'[q][i].route = stack[q][i].route /\ At(q, i)' = At(q, i)
      BY <2>4, <2>5, <3>2
    <3>5. Unwanted(q, i)' = Unwanted(q, i)
      <4>1. CASE i = 1
        BY <2>1, <4>1 DEF Unwanted
      <4>2. CASE i # 1
        <5>1. i - 1 \in 1..n
          BY <1>1, <4>2 DEF n
        <5> QED BY <3>2, <4>2, <5>1 DEF Unwanted, Dead
      <4> QED BY <4>1, <4>2
    <3>6. stack'[q][i].pos <= Len(Program(stack'[q][i].route))
      <4>1. CASE i = n
        <5>1. /\ Top(q).pos \in 1..MaxLength
              /\ Len(Program(Top(q).route)) \in 1..MaxLength
          BY TopFacts, ProgramFacts DEF Frame
        <5>2. \A p, l \in 1..MaxLength : p < l => p + 1 <= l
          BY DEF MaxLength
        <5> QED BY <1>1, <2>2, <2>4, <2>5, <3>4, <4>1, <5>1, <5>2
      <4>2. CASE i # n
        <5>1. i \in 1..(n - 1)
          BY <1>1, <4>2 DEF n
        <5> QED BY <2>4, <2>5, <3>3, <5>1
      <4> QED BY <4>1, <4>2
    <3> QED BY <3>3, <3>4, <3>5, <3>6
  <2>9. Rest(q)'
    <3>1. stack[q] # <<>> /\ stack'[q] # <<>>
      BY <1>1, <2>4, <2>5, EmptyStack
    <3>2. reply'[q] = 0
      BY <1>1, <2>1 DEF Types
    <3> QED BY <1>1, <2>1, <3>1, <3>2 DEF Rest
  <2> QED BY <2>6, <2>7, <2>8, <2>9, LocalStep
<1> QED BY <1>2, <1>3

\* A stage that passes the request on.
LEMMA PassKeeps == ASSUME Inv, NEW q \in Requests, Pass(q) PROVE Inv'
BY AdvanceKeeps DEF Pass, Runs

\* A stage that answers itself.
LEMMA RefuseKeeps == ASSUME Inv, NEW q \in Requests, Refuse(q) PROVE Inv'
<1>1. PICK status \in Stages[Stage(q)].answers : Answer(q, status)
  BY DEF Refuse
<1>2. Depth(q) > 0 /\ ~Dead(At(q, Depth(q)))
  BY DEF Refuse, Runs
<1>3. /\ Stage(q) \in StageNames /\ status \in Statuses
      /\ status = 404 => Stage(q) = "find"
      /\ Stage(q) # "outage"
  BY <1>1, <1>2, TopFacts, StageFacts DEF Statuses
<1>4. refused'[q] = [by |-> Stage(q), depth |-> Depth(q)]
  BY DEF Refuse, Refused, Inv, Types
<1> QED BY <1>1, <1>2, <1>3, <1>4, AnswerKeeps DEF Refuse

\* A stage that throws.
LEMMA ThrowKeeps == ASSUME Inv, NEW q \in Requests, Throw(q) PROVE Inv'
<1>1. 500 \in Statuses /\ 500 # 404 /\ 500 \notin {400, 401, 403, 429}
  BY DEF Statuses
<1> QED BY <1>1, AnswerKeeps DEF Throw, Runs

\* A caller that goes on with what it got.
LEMMA ReturnKeeps == ASSUME Inv, NEW q \in Requests, Return(q) PROVE Inv'
<1>1. Depth(q) > 0 /\ ~Dead(At(q, Depth(q)))
      /\ UNCHANGED <<stage, opened, cut>>
  BY DEF Return
<1>2. CASE reply[q] = 200
  BY <1>1, <1>2, AdvanceKeeps DEF Return
<1>3. CASE reply[q] # 200
  <2> DEFINE status == FailedCall(Top(q).route, Stage(q), reply[q])
  <2>1. /\ status \in {401, 404, 500}
        /\ status = 404 => reply[q] = 404
    BY DEF FailedCall
  <2>2. /\ Answer(q, status)
        /\ IF status = 401 THEN Outage(q) ELSE UNCHANGED refused
    BY <1>3 DEF Return
  <2> HIDE DEF status
  <2>3. status \in Statuses
    BY <2>1 DEF Statuses
  <2>4. Rest(q) /\ refused \in [Requests -> [by : StageNames \cup {"none", "outage"},
                                             depth : 0..MaxDepth]]
    BY DEF Inv, Types
  <2>5. CASE status = 401
    <3>1. Outage(q) /\ refused'[q].depth = Depth(q)
      BY <2>2, <2>4, <2>5 DEF Outage
    <3> QED BY <1>1, <2>2, <2>3, <2>5, <3>1, AnswerKeeps
  <2>6. CASE status # 401
    <3>1. refused' = refused /\ (status = 404 => refused'[q].by = "find")
      BY <2>1, <2>2, <2>4, <2>6 DEF Rest
    <3>2. status \notin {400, 401, 403, 429}
      BY <2>1, <2>6
    <3> QED BY <1>1, <2>2, <2>3, <3>1, <3>2, AnswerKeeps
  <2> QED BY <2>5, <2>6
<1> QED BY <1>2, <1>3

\* A caller is at work in the service of its route.
LEMMA CallKeeps == ASSUME Inv, NEW q \in Requests, Call(q) PROVE Inv'
<1> DEFINE n == Len(stack[q])
           route == Stages[Stage(q)].calls
           called == /\ Takes(ServiceOf(route))
                     /\ stack' = [stack EXCEPT ![q] = Append(@, NewFrame(route))]
                     /\ UNCHANGED reply
<1>1. /\ Depth(q) > 0 /\ ~Dead(At(q, Depth(q))) /\ route # "none"
      /\ UNCHANGED <<stage, opened, cut, gone, finishing, refused>>
      /\ \/ called
         \/ /\ reply' = [reply EXCEPT ![q] = Lost]
            /\ UNCHANGED <<stack, kept>>
  BY DEF Call, Runs, ReplyToRefused
<1>2. /\ stack[q] \in Seq(Frame) /\ Depth(q) = n /\ n \in Nat /\ n > 0
      /\ Top(q) = stack[q][n] /\ Top(q).route \in Routes
      /\ Top(q).pos \in 1..Len(Program(Top(q).route))
      /\ n + Level(Top(q).route) <= MaxDepth + 1
      /\ At(q, n) = ServiceOf(Top(q).route) /\ stage[At(q, n)] # "booting"
      /\ Types /\ Handlers(q) /\ Rest(q)
  BY <1>1, TopFacts, LenProperties DEF Inv, Types
<1>3. Stage(q) = Program(Top(q).route)[Top(q).pos]
  BY DEF Stage
<1> HIDE DEF n, called
<1>4. stack[q] # <<>>
  BY <1>2, EmptyStack DEF n
<1>5. CASE ~called
  <2>1. reply' = [reply EXCEPT ![q] = Lost] /\ stack' = stack
    BY <1>1, <1>5
  <2>2. Types'
    BY <1>1, <1>2, <2>1 DEF Types
  <2>3. Only(q)
    BY <1>1, <1>2, <2>1 DEF Only, Types
  <2>4. Handlers(q)'
    BY <1>1, <1>2, <2>1 DEF Handlers, At, Unwanted, Dead
  <2>5. Rest(q)'
    BY <1>1, <1>2, <1>4, <2>1 DEF Rest, Types
  <2> QED BY <1>1, <2>2, <2>3, <2>4, <2>5, LocalStep
<1>6. CASE called
  <2> DEFINE f == NewFrame(route)
  <2>1. route \in Routes /\ Level(route) < Level(Top(q).route)
    BY <1>1, <1>2, <1>3, CallFacts
  <2> HIDE DEF route
  <2>2. f \in Frame /\ f.route = route /\ f.pos = 1
    <3>1. 1 \in 1..MaxLength
      BY DEF MaxLength
    <3> QED BY <2>1, <3>1 DEF NewFrame, Frame
  <2>3. /\ stack' = [stack EXCEPT ![q] = Append(stack[q], f)]
        /\ reply' = reply
    BY <1>6 DEF called
  <2> HIDE DEF f
  <2> DEFINE t == Append(stack[q], f)
  <2>4. /\ t \in Seq(Frame)
        /\ Len(t) = n + 1
        /\ \A i \in 1..n : t[i] = stack[q][i]
        /\ t[n + 1] = f
    BY <1>2, <2>2, Pushed DEF n
  <2>5. /\ stack' \in [Requests -> Seq(Frame)]
        /\ stack'[q] = t
    BY <1>2, <2>3, <2>4 DEF Types
  <2> HIDE DEF t
  <2>6. Types'
    BY <1>1, <1>2, <2>3, <2>5 DEF Types
  <2>7. Only(q)
    BY <1>1, <1>2, <2>3 DEF Only, Types
  <2>8. \A i \in 1..n : stack'[q][i] = stack[q][i] /\ At(q, i)' = At(q, i)
    BY <2>4, <2>5 DEF At
  <2>9. /\ stack'[q][n + 1].route = route
        /\ stage[ServiceOf(route)] \in {"serving", "draining"}
    BY <1>6, <2>2, <2>4, <2>5 DEF called, Takes, Accepts
  <2>10. Handlers(q)'
    <3>1. Len(stack'[q]) = n + 1
      BY <2>4, <2>5
    <3> SUFFICES ASSUME NEW i \in 1..(n + 1)
                 PROVE  /\ stack'[q][i].pos <= Len(Program(stack'[q][i].route))
                        /\ i + Level(stack'[q][i].route) <= MaxDepth + 1
                        /\ stage'[At(q, i)'] # "booting"
                        /\ stage'[At(q, i)'] = "exited" => Unwanted(q, i)'
      BY <3>1 DEF Handlers
    <3>2. CASE i = n + 1
      <4>1. stack'[q][i] = f /\ At(q, i)' = ServiceOf(route)
        BY <2>4, <2>5, <2>9, <3>2 DEF At
      <4>2. f.pos <= Len(Program(f.route))
        <5>1. Len(Program(f.route)) \in 1..MaxLength
          BY <2>1, <2>2, ProgramFacts
        <5>2. \A l \in 1..MaxLength : 1 <= l
          BY DEF MaxLength
        <5> QED BY <2>2, <5>1, <5>2
      <4>3. n + 1 + Level(f.route) <= MaxDepth + 1
        <5>1. Level(route) \in 1..3 /\ Level(Top(q).route) \in 1..3
          BY <1>2, <2>1, RouteFacts
        <5> QED BY <1>2, <2>1, <2>2, <5>1 DEF MaxDepth
      <4> QED BY <1>1, <2>9, <3>2, <4>1, <4>2, <4>3
    <3>3. CASE i # n + 1
      <4>1. i \in 1..n
        BY <1>2, <3>3
      <4>2. /\ stack[q][i].pos <= Len(Program(stack[q][i].route))
            /\ i + Level(stack[q][i].route) <= MaxDepth + 1
            /\ stage[At(q, i)] # "booting"
            /\ stage[At(q, i)] = "exited" => Unwanted(q, i)
        BY <1>2, <4>1 DEF Handlers, n
      <4>3. Unwanted(q, i)' = Unwanted(q, i)
        <5>1. CASE i = 1
          BY <1>1, <5>1 DEF Unwanted
        <5>2. CASE i # 1
          <6>1. i - 1 \in 1..n
            BY <1>2, <4>1, <5>2
          <6> QED BY <1>1, <2>8, <5>2, <6>1 DEF Unwanted, Dead
        <5> QED BY <5>1, <5>2
      <4> QED BY <1>1, <2>8, <4>1, <4>2, <4>3
    <3> QED BY <3>2, <3>3
  <2>11. Rest(q)'
    <3>1. stack'[q] # <<>>
      BY <1>2, <2>4, <2>5, EmptyStack
    <3>2. ~finishing[q] /\ (reply[q] = 404 => refused[q].by = "find")
      BY <1>2, <1>4 DEF Rest
    <3> QED BY <1>1, <2>3, <3>1, <3>2 DEF Rest
  <2> QED BY <1>1, <2>6, <2>7, <2>10, <2>11, LocalStep
<1> QED BY <1>5, <1>6

\* A connection that breaks takes its handler from the stack.
LEMMA BreakPops ==
  ASSUME Inv, NEW q \in Requests, Break(q)
  PROVE  /\ Pops(q) /\ Only(q)
         /\ stack' \in [Requests -> Seq(Frame)]
         /\ stack'[q] = <<>> => Depth(q) = 1
         /\ gone' \in [Requests -> BOOLEAN]
<1> DEFINE n == Len(stack[q])
<1>1. /\ stack[q] \in Seq(Frame) /\ Depth(q) = n /\ n \in Nat /\ n > 0
      /\ Types
  BY TopFacts, LenProperties DEF Inv, Types, Break
<1>2. /\ Front(stack[q]) \in Seq(Frame)
      /\ Len(Front(stack[q])) = n - 1
      /\ \A i \in 1..(n - 1) : Front(stack[q])[i] = stack[q][i]
  BY <1>1, Popped
<1>3. stack' = [stack EXCEPT ![q] = Front(stack[q])]
      /\ UNCHANGED <<stage, opened, cut, finishing, refused>>
  BY DEF Break
<1>4. stack'[q] = Front(stack[q]) /\ stack' \in [Requests -> Seq(Frame)]
  BY <1>1, <1>2, <1>3 DEF Types
<1>5. /\ gone' \in [Requests -> BOOLEAN]
      /\ n > 1 => gone'[q] = gone[q]
      /\ n = 1 => ~gone'[q]
  <2>1. gone' = [gone EXCEPT ![q] = @ /\ Depth(q) > 1]
    BY DEF Break
  <2>2. n > 1 => Depth(q) > 1
    BY <1>1
  <2>3. n = 1 => ~(Depth(q) > 1)
    BY <1>1
  <2> QED BY <1>1, <2>1, <2>2, <2>3, HangUpKept
<1>6. stack'[q] = <<>> => n = 1
  <2>1. stack'[q] = <<>> => Len(Front(stack[q])) = 0
    BY <1>2, <1>4, EmptyStack
  <2> HIDE DEF n
  <2>2. n - 1 = 0 => n = 1
    BY <1>1
  <2> QED BY <1>2, <2>1, <2>2
<1>7. Only(q)
  BY <1>1 DEF Only, Break, Types
<1>8. Pops(q)
  BY <1>2, <1>4, <1>5 DEF Pops
<1> QED BY <1>1, <1>4, <1>5, <1>6, <1>7, <1>8

\* The connection of a handler breaks whose process has gone.
LEMMA BreakKeeps == ASSUME Inv, NEW q \in Requests, Break(q) PROVE Inv'
<1>1. /\ Types /\ Rest(q) /\ stack[q] \in Seq(Frame) /\ Depth(q) > 0
      /\ Len(stack[q]) = Depth(q)
  BY DEF Inv, Types, Break, Depth
<1>2. /\ Pops(q) /\ Only(q)
      /\ stack' \in [Requests -> Seq(Frame)]
      /\ stack'[q] = <<>> => Depth(q) = 1
      /\ gone' \in [Requests -> BOOLEAN]
      /\ UNCHANGED <<stage, opened, cut, finishing, refused>>
  BY BreakPops DEF Break
<1>3. /\ reply'[q] \in {None, Lost}
      /\ reply' \in [Requests -> Statuses \cup {None, Lost}]
  BY <1>1 DEF Break, Types
<1>4. Types'
  BY <1>1, <1>2, <1>3 DEF Types
<1>5. Handlers(q)'
  BY <1>1, <1>2, PopKeepsHandlers
<1>6. Rest(q)'
  <2>1. ~finishing[q]
    BY <1>1, EmptyStack DEF Rest
  <2>2. reply'[q] # 404 /\ reply'[q] \notin {400, 401, 403, 429}
    BY <1>3
  <2>3. stack'[q] = <<>> => ~gone'[q]
    BY <1>1, <1>2 DEF Pops
  <2> QED BY <1>2, <2>1, <2>2, <2>3 DEF Rest
<1> QED BY <1>2, <1>4, <1>5, <1>6, LocalStep

\* A client sends a request, gets its answer or hangs up, or a listener ends.
LEMMA ClientKeeps ==
  ASSUME Inv, NEW q \in Requests,
         \/ \E route \in Entries : Begin(q, route)
         \/ Receive(q) \/ HangUp(q) \/ Finish(q)
  PROVE  Inv'
<1>1. Types /\ Handlers(q) /\ Rest(q) /\ stack[q] \in Seq(Frame)
  BY DEF Inv, Types
<1>2. ASSUME NEW route \in Entries, Begin(q, route) PROVE Inv'
  <2> DEFINE f == NewFrame(route)
  <2>1. route \in Routes /\ Level(route) \in 1..3
        /\ Len(Program(route)) \in 1..MaxLength
    BY RouteFacts, ProgramFacts, EntriesAssumption
  <2>2. f \in Frame /\ f.route = route /\ f.pos = 1
    <3>1. 1 \in 1..MaxLength
      BY DEF MaxLength
    <3> QED BY <2>1, <3>1 DEF NewFrame, Frame
  <2>3. /\ stack' = [stack EXCEPT ![q] = <<f>>]
        /\ UNCHANGED <<stage, opened, cut, reply, gone, finishing, refused>>
        /\ reply[q] = None /\ ~finishing[q]
        /\ stage[ServiceOf(route)] \in {"serving", "draining"}
    BY <1>2 DEF Begin, Takes, Accepts
  <2> HIDE DEF f
  <2>4. <<f>> \in Seq(Frame) /\ Len(<<f>>) = 1 /\ <<f>>[1] = f
    BY <2>2
  <2>5. stack'[q] = <<f>> /\ stack' \in [Requests -> Seq(Frame)]
    BY <1>1, <2>3, <2>4 DEF Types
  <2>6. Types'
    BY <1>1, <2>3, <2>5 DEF Types
  <2>7. Only(q)
    BY <1>1, <2>3 DEF Only, Types
  <2>8. Handlers(q)'
    <3>1. \A i \in 1..Len(stack'[q]) : i = 1
      BY <2>4, <2>5
    <3>2. stack'[q][1] = f /\ At(q, 1)' = ServiceOf(route)
      BY <2>2, <2>4, <2>5 DEF At
    <3>3. f.pos <= Len(Program(f.route)) /\ 1 + Level(f.route) <= MaxDepth + 1
      <4>1. /\ Len(Program(f.route)) \in 1..MaxLength
            /\ Level(f.route) \in 1..3
        BY <2>1, <2>2
      <4>2. /\ \A l \in 1..MaxLength : 1 <= l
            /\ \A v \in 1..3 : 1 + v <= MaxDepth + 1
        BY DEF MaxLength, MaxDepth
      <4> QED BY <2>2, <4>1, <4>2
    <3>4. \A i \in 1..Len(stack'[q]) :
            /\ stack'[q][i].pos <= Len(Program(stack'[q][i].route))
            /\ i + Level(stack'[q][i].route) <= MaxDepth + 1
            /\ stage'[At(q, i)'] # "booting"
            /\ stage'[At(q, i)'] # "exited"
      BY <2>3, <3>1, <3>2, <3>3
    <3> QED BY <3>4 DEF Handlers
  <2>9. Rest(q)'
    BY <2>3, <2>4, <2>5 DEF Rest
  <2> QED BY <2>3, <2>6, <2>7, <2>8, <2>9, LocalStep
<1>3. CASE Receive(q)
  <2>1. /\ stack[q] = <<>> /\ reply' = [reply EXCEPT ![q] = None]
        /\ refused' = [refused EXCEPT ![q] = NotRefused]
        /\ UNCHANGED <<stage, opened, cut, stack, gone, finishing>>
    BY <1>3 DEF Receive
  <2>2. NotRefused \in [by : StageNames \cup {"none", "outage"}, depth : 0..MaxDepth]
    BY DEF NotRefused, MaxDepth
  <2>3. Types'
    BY <1>1, <2>1, <2>2 DEF Types
  <2>4. Only(q)
    BY <1>1, <2>1 DEF Only, Types
  <2>5. Handlers(q)'
    BY <1>1, <2>1 DEF Handlers, At, Unwanted, Dead
  <2>6. Rest(q)'
    BY <1>1, <2>1 DEF Rest, Types
  <2> QED BY <2>1, <2>3, <2>4, <2>5, <2>6, LocalStep
<1>4. CASE HangUp(q)
  <2>1. /\ stack[q] # <<>> /\ gone' = [gone EXCEPT ![q] = TRUE]
        /\ UNCHANGED <<stage, opened, cut, stack, reply, finishing, refused>>
    BY <1>4 DEF HangUp
  <2>2. Types' /\ gone'[q]
    BY <1>1, <2>1 DEF Types
  <2>3. Only(q)
    BY <1>1, <2>1 DEF Only, Types
  <2>4. \A i \in 1..Len(stack[q]) : Unwanted(q, i) => Unwanted(q, i)'
    BY <2>1, <2>2 DEF Unwanted, At, Dead
  <2>5. Handlers(q)'
    BY <1>1, <2>1, <2>4 DEF Handlers, At
  <2>6. Rest(q)'
    BY <1>1, <2>1 DEF Rest
  <2> QED BY <2>1, <2>2, <2>3, <2>5, <2>6, LocalStep
<1>5. CASE Finish(q)
  <2>1. /\ finishing' = [finishing EXCEPT ![q] = FALSE]
        /\ UNCHANGED <<stage, opened, cut, stack, reply, gone, refused>>
    BY <1>5 DEF Finish
  <2>2. Types' /\ ~finishing'[q]
    BY <1>1, <2>1 DEF Types
  <2>3. Only(q)
    BY <1>1, <2>1 DEF Only, Types
  <2>4. Handlers(q)'
    BY <1>1, <2>1 DEF Handlers, At, Unwanted, Dead
  <2>5. Rest(q)'
    BY <1>1, <2>1, <2>2 DEF Rest
  <2> QED BY <2>1, <2>2, <2>3, <2>4, <2>5, LocalStep
<1> QED BY <1>2, <1>3, <1>4, <1>5

(***************************************************************************)
(* The steps of the server processes.                                      *)
(***************************************************************************)

\* A process only goes on in its life, and exits only if nobody waits for it.
LEMMA ServiceStep ==
  ASSUME Inv, Types', UNCHANGED <<stack, reply, gone, refused>>,
         \A q \in Requests :
           finishing'[q] =>
             finishing[q] /\ stage'["persistence"] \in {"serving", "draining"},
         \A s \in Services :
           /\ stage[s] # "booting" => stage'[s] # "booting"
           /\ Dead(s) => Dead(s)'
           /\ stage'[s] = "exited" => stage[s] = "exited" \/ Drained(s)
  PROVE  Inv'
<1> SUFFICES ASSUME NEW q \in Requests PROVE Handlers(q)' /\ Rest(q)'
  BY DEF Inv
<1>1. /\ Handlers(q) /\ Rest(q) /\ stack[q] \in Seq(Frame)
      /\ DOMAIN stack[q] = 1..Len(stack[q])
      /\ stack' = stack
  BY LenProperties DEF Inv, Types
<1>2. Rest(q)'
  BY <1>1 DEF Rest
<1>3. ASSUME NEW i \in 1..Len(stack[q])
      PROVE  /\ stage'[At(q, i)] # "booting"
             /\ stage'[At(q, i)] = "exited" => Unwanted(q, i)'
  <2>0. \A j \in 1..Len(stack[q]) : stack[q][j].route \in Routes
    <3>1. \A j \in 1..Len(stack[q]) : stack[q][j] \in Frame
      BY <1>1, EmptyStack
    <3> QED BY <3>1 DEF Frame
  <2>1. stack[q][i].route \in Routes
    BY <2>0
  <2>2. At(q, i) \in Services /\ stage[At(q, i)] # "booting"
    BY <1>1, <2>1, RouteFacts DEF At, Handlers
  <2>3. stage'[At(q, i)] = "exited" => Unwanted(q, i)
    BY <1>1, <2>2 DEF Handlers, Drained, WaitsFor
  <2>4. Unwanted(q, i) => Unwanted(q, i)'
    <3>1. CASE i = 1
      BY <3>1 DEF Unwanted
    <3>2. CASE i # 1
      <4>1. i - 1 \in 1..Len(stack[q])
        BY <1>1, <3>2, LenProperties
      <4>2. stack[q][i - 1].route \in Routes
        BY <2>0, <4>1
      <4>3. At(q, i - 1) \in Services /\ At(q, i - 1)' = At(q, i - 1)
        BY <1>1, <4>2, RouteFacts DEF At
      <4> QED BY <3>2, <4>3 DEF Unwanted
    <3> QED BY <3>1, <3>2
  <2> QED BY <2>2, <2>3, <2>4
<1>4. Handlers(q)'
  BY <1>1, <1>3 DEF Handlers, At
<1> QED BY <1>2, <1>4

\* Every service opens something, and no more than three resources.
LEMMA BootFacts == ASSUME NEW s \in Services PROVE Boot(s) \in 1..3
<1>1. CASE s = "persistence"
  BY <1>1 DEF Boot, Resources, PersistenceResources
<1>2. CASE s = "redirect"
  BY <1>2 DEF Boot, Resources, RedirectResources
<1>3. CASE s = "issuer"
  BY <1>3 DEF Boot, Resources, IssuerResources
<1> QED BY <1>1, <1>2, <1>3 DEF Services

\* A process boots, stops, exits or dies.
LEMMA ServiceKeeps ==
  ASSUME Inv, NEW s \in Services,
         Open(s) \/ Listen(s) \/ BootFails(s) \/ Stop(s) \/ Exit(s) \/ Crash(s)
  PROVE  Inv'
<1>1. Types /\ \A q \in Requests : Rest(q)
  BY DEF Inv
<1>2. \A q \in Requests :
        finishing[q] => stage["persistence"] \in {"serving", "draining"}
  BY <1>1 DEF Rest
<1>3. CASE Open(s)
  <2>1. opened[s] < 3
    <3>1. opened[s] \in 0..3 /\ Boot(s) \in 1..3 /\ opened[s] < Boot(s)
      BY <1>1, <1>3, BootFacts DEF Open, Types
    <3> QED BY <3>1
  <2>2. /\ opened' = [opened EXCEPT ![s] = @ + 1]
        /\ UNCHANGED <<stage, cut, flow>>
    BY <1>3 DEF Open
  <2>3. Types'
    <3>1. opened[s] \in 0..3
      BY <1>1 DEF Types
    <3>2. opened[s] + 1 \in 0..3
      BY <2>1, <3>1
    <3> QED BY <1>1, <2>2, <3>2 DEF Types, flow
  <2> QED BY <1>2, <2>2, <2>3, ServiceStep DEF flow, Dead
<1>4. CASE Listen(s)
  <2>1. /\ stage[s] = "booting" /\ stage' = [stage EXCEPT ![s] = "serving"]
        /\ UNCHANGED <<opened, cut, flow>>
    BY <1>4 DEF Listen, Moves
  <2>2. Types'
    BY <1>1, <2>1 DEF Types, flow
  <2> QED BY <1>1, <1>2, <2>1, <2>2, ServiceStep DEF flow, Dead, Types
<1>5. CASE BootFails(s)
  <2>1. /\ stage[s] = "booting" /\ stage' = [stage EXCEPT ![s] = "failed"]
        /\ UNCHANGED <<opened, cut, flow>>
    BY <1>5 DEF BootFails, Moves
  <2>2. Types'
    BY <1>1, <2>1 DEF Types, flow
  <2> QED BY <1>1, <1>2, <2>1, <2>2, ServiceStep DEF flow, Dead, Types
<1>6. CASE Stop(s)
  <2>1. /\ stage[s] = "serving" /\ stage' = [stage EXCEPT ![s] = "draining"]
        /\ UNCHANGED <<opened, cut, flow>>
    BY <1>6 DEF Stop, Moves
  <2>2. Types'
    BY <1>1, <2>1 DEF Types, flow
  <2> QED BY <1>1, <1>2, <2>1, <2>2, ServiceStep DEF flow, Dead, Types
<1>7. CASE Exit(s)
  <2>1. /\ stage[s] = "draining" /\ stage' = [stage EXCEPT ![s] = "exited"]
        /\ Drained(s)
        /\ cut' = [cut EXCEPT ![s] = \E q \in Requests : LeftOver(s, q)]
        /\ finishing' = [q \in Requests |-> finishing[q] /\ s # "persistence"]
        /\ UNCHANGED <<opened, stack, reply, gone, refused>>
    BY <1>7 DEF Exit, Moves
  <2>2. Types'
    BY <1>1, <2>1 DEF Types
  <2>3. ASSUME NEW q \in Requests, finishing'[q]
        PROVE  finishing[q] /\ stage'["persistence"] \in {"serving", "draining"}
    <3>1. finishing[q] /\ s # "persistence"
      BY <2>1, <2>3
    <3>2. stage'["persistence"] = stage["persistence"]
      BY <1>1, <2>1, <3>1 DEF Types
    <3> QED BY <1>2, <3>1, <3>2
  <2>4. ASSUME NEW r \in Services
        PROVE  /\ stage[r] # "booting" => stage'[r] # "booting"
               /\ Dead(r) => Dead(r)'
               /\ stage'[r] = "exited" => stage[r] = "exited" \/ Drained(r)
    BY <1>1, <2>1 DEF Types, Dead
  <2> QED BY <2>1, <2>2, <2>3, <2>4, ServiceStep
<1>8. CASE Crash(s)
  <2>1. /\ stage[s] \in {"serving", "draining"}
        /\ stage' = [stage EXCEPT ![s] = "failed"]
        /\ finishing' = [q \in Requests |-> finishing[q] /\ s # "persistence"]
        /\ UNCHANGED <<opened, cut, stack, reply, gone, refused>>
    BY <1>8 DEF Crash
  <2>2. Types'
    BY <1>1, <2>1 DEF Types
  <2>3. ASSUME NEW q \in Requests, finishing'[q]
        PROVE  finishing[q] /\ stage'["persistence"] \in {"serving", "draining"}
    <3>1. finishing[q] /\ s # "persistence"
      BY <2>1, <2>3
    <3>2. stage'["persistence"] = stage["persistence"]
      BY <1>1, <2>1, <3>1 DEF Types
    <3> QED BY <1>2, <3>1, <3>2
  <2>4. ASSUME NEW r \in Services
        PROVE  /\ stage[r] # "booting" => stage'[r] # "booting"
               /\ Dead(r) => Dead(r)'
               /\ stage'[r] = "exited" => stage[r] = "exited" \/ Drained(r)
    BY <1>1, <2>1 DEF Types, Dead
  <2> QED BY <2>1, <2>2, <2>3, <2>4, ServiceStep
<1> QED BY <1>3, <1>4, <1>5, <1>6, <1>7, <1>8

\* Every step keeps the invariant.
LEMMA NextInv == Inv /\ [Next]_vars => Inv'
<1> SUFFICES ASSUME Inv, [Next]_vars PROVE Inv'
  OBVIOUS
<1>1. CASE UNCHANGED vars
  <2>1. /\ UNCHANGED <<stage, opened, cut, stack>>
        /\ UNCHANGED <<reply, gone, finishing, refused>>
    BY <1>1 DEF vars
  <2>2. Types'
    BY <2>1 DEF Inv, Types
  <2>3. ASSUME NEW q \in Requests PROVE Handlers(q)' /\ Rest(q)'
    <3>1. Handlers(q) /\ Rest(q)
      BY DEF Inv
    <3>2. Handlers(q)'
      BY <2>1, <3>1 DEF Handlers, At, Unwanted, Dead
    <3>3. Rest(q)'
      BY <2>1, <3>1 DEF Rest
    <3> QED BY <3>2, <3>3
  <2> QED BY <2>2, <2>3 DEF Inv
<1>2. ASSUME NEW q \in Requests, Step(q) PROVE Inv'
  BY <1>2, PassKeeps, RefuseKeeps, ThrowKeeps, CallKeeps, ReturnKeeps,
     BreakKeeps DEF Step
<1>3. ASSUME NEW q \in Requests,
             \/ \E route \in Entries : Begin(q, route)
             \/ Receive(q) \/ HangUp(q) \/ Finish(q)
      PROVE  Inv'
  BY <1>3, ClientKeeps
<1>4. ASSUME NEW s \in Services,
             \/ Open(s) \/ Listen(s) \/ BootFails(s) \/ Stop(s) \/ Exit(s)
             \/ Crash(s)
      PROVE  Inv'
  BY <1>4, ServiceKeeps
<1>5. ASSUME NEW s \in Services, CloseKept(s) PROVE Inv'
  <2>1. /\ UNCHANGED <<stack, reply, gone, finishing, refused>>
        /\ UNCHANGED <<stage, opened, cut>>
    BY <1>5 DEF CloseKept, flow
  <2>2. Types' /\ Types /\ \A q \in Requests : Rest(q)
    BY <2>1 DEF Inv, Types
  <2> QED BY <2>1, <2>2, ServiceStep DEF Dead, Rest
<1> QED BY <1>1, <1>2, <1>3, <1>4, <1>5 DEF Next

THEOREM InvHolds == Spec => []Inv
BY InitInv, NextInv, PTL DEF Spec

\* The last handler answers or goes on, and keeps its connection at most when
\* its service drains.
LEMMA AnswerKept ==
  ASSUME Inv, Kept, NEW q \in Requests, Depth(q) > 0, stage' = stage,
         kept' = kept \/ Keeps(q)
  PROVE  Kept'
<1>1. At(q, Depth(q)) \in Services
  BY TopFacts, RouteFacts
<1> QED BY <1>1 DEF Kept, Keeps

\* A request that comes on a connection which was kept uses it up.
LEMMA TakesKept ==
  ASSUME Kept, NEW s \in Services, Takes(s), stage' = stage
  PROVE  Kept'
BY DEF Kept, Takes

\* The steps of a request keep connections only while a service drains.
LEMMA StepKept == ASSUME Inv, Kept, NEW q \in Requests, Step(q) PROVE Kept'
<1>1. CASE Pass(q) \/ Refuse(q) \/ Throw(q) \/ Return(q)
  <2>1. Depth(q) > 0 /\ stage' = stage /\ (kept' = kept \/ Keeps(q))
    BY <1>1 DEF Pass, Refuse, Throw, Return, Runs, Advance, Answer
  <2> QED BY <2>1, AnswerKept
<1>2. CASE Call(q)
  <2> DEFINE route == Stages[Stage(q)].calls
  <2>1. /\ Depth(q) > 0 /\ stage' = stage /\ route # "none"
        /\ kept' = kept \/ Takes(ServiceOf(route))
    BY <1>2 DEF Call, Runs
  <2>2. /\ Top(q).route \in Routes
        /\ Top(q).pos \in 1..Len(Program(Top(q).route))
        /\ Stage(q) = Program(Top(q).route)[Top(q).pos]
    BY <2>1, TopFacts DEF Stage
  <2>3. ServiceOf(route) \in Services
    BY <2>1, <2>2, CallFacts, RouteFacts
  <2> HIDE DEF route
  <2>4. CASE kept' = kept
    BY <2>1, <2>4 DEF Kept
  <2> QED BY <2>1, <2>3, <2>4, TakesKept
<1>3. CASE Break(q)
  BY <1>3 DEF Break, Kept
<1> QED BY <1>1, <1>2, <1>3 DEF Step

\* Every step keeps what is known of the connections.
LEMMA NextKept == Inv /\ Kept /\ [Next]_vars => Kept'
<1> SUFFICES ASSUME Inv, Kept, [Next]_vars PROVE Kept'
  OBVIOUS
<1>1. CASE UNCHANGED vars
  BY <1>1 DEF vars, Kept
<1>2. ASSUME NEW q \in Requests, Step(q) PROVE Kept'
  BY <1>2, StepKept
<1>3. ASSUME NEW q \in Requests, NEW route \in Entries, Begin(q, route)
      PROVE  Kept'
  <2>1. ServiceOf(route) \in Services
    BY EntriesAssumption, RouteFacts
  <2> QED BY <1>3, <2>1, TakesKept DEF Begin
<1>4. ASSUME NEW q \in Requests, Receive(q) \/ HangUp(q) \/ Finish(q)
      PROVE  Kept'
  BY <1>4 DEF Receive, HangUp, Finish, Kept
<1>5. ASSUME NEW s \in Services,
             \/ Open(s) \/ Listen(s) \/ BootFails(s) \/ Stop(s)
             \/ CloseKept(s) \/ Exit(s) \/ Crash(s)
      PROVE  Kept'
  <2>1. Types
    BY DEF Inv
  <2>2. CASE Open(s)
    BY <2>2 DEF Open, Kept
  <2>3. CASE Listen(s) \/ BootFails(s)
    BY <2>1, <2>3 DEF Listen, BootFails, Moves, Kept, Types
  <2>4. CASE Stop(s)
    BY <2>1, <2>4 DEF Stop, Moves, Kept, Types
  <2>5. CASE CloseKept(s)
    BY <2>5 DEF CloseKept, Kept
  <2>6. CASE Exit(s)
    BY <2>1, <2>6 DEF Exit, Moves, Drained, Kept, Types
  <2>7. CASE Crash(s)
    BY <2>1, <2>7 DEF Crash, Kept, Types
  <2> QED BY <1>5, <2>2, <2>3, <2>4, <2>5, <2>6, <2>7
<1> QED BY <1>1, <1>2, <1>3, <1>4, <1>5 DEF Next

\* Connections are kept only while a service drains.
THEOREM KeptHolds == Spec => []Kept
BY InitInv, InvHolds, NextKept, PTL DEF Spec

\* The types, and that no more than MaxDepth handlers wait for each other.
THEOREM TypeCorrect == Spec => []TypeOK
<1>1. Inv /\ Kept => TypeOK
  BY InvGives
<1> QED BY <1>1, InvHolds, KeptHolds, PTL

\* An orderly exit cuts off only handlers nobody waits for.
THEOREM ExitsDropNobody == Spec => []ExitDropsNobody
<1>1. Inv /\ Kept => ExitDropsNobody
  BY InvGives
<1> QED BY <1>1, InvHolds, KeptHolds, PTL

\* Refusals are the own ones of the service that was asked.
THEOREM AnswersAreTheirOwn == Spec => []AnswersAreOwn
<1>1. Inv /\ Kept => AnswersAreOwn
  BY InvGives
<1> QED BY <1>1, InvHolds, KeptHolds, PTL

(***************************************************************************)
(* RequestFlow implements Lifecycle.                                       *)
(***************************************************************************)

work == [c \in Conns |-> WorkOf(c[1], c[2])]

\* At first nothing is done for anybody.
LEMMA LifeInit == Init => Life!Init
<1> SUFFICES ASSUME Init PROVE Life!Init
  OBVIOUS
<1>1. \A c \in Conns : WorkOf(c[1], c[2]) = <<"free", "none">>
  <2> SUFFICES ASSUME NEW q \in Requests, NEW i \in 1..MaxDepth
               PROVE  WorkOf(q, i) = <<"free", "none">>
    BY DEF Conns
  <2>1. stack[q] = <<>> /\ finishing[q] = FALSE
    BY DEF Init
  <2>2. Depth(q) = 0 /\ i > 0
    BY <2>1 DEF Depth, MaxDepth
  <2> QED BY <2>1, <2>2 DEF WorkOf
<1> QED BY <1>1 DEF Init, Life!Init, Life!Free

\* What is known of one connection.
LEMMA WorkIs ==
  ASSUME NEW q \in Requests, NEW i \in 1..MaxDepth
  PROVE  <<q, i>> \in Conns /\ work[<<q, i>>] = WorkOf(q, i)
BY DEF Conns, work

\* Nothing changes for any connection.
LEMMA SameWork ==
  ASSUME \A q \in Requests : \A i \in 1..MaxDepth : WorkOf(q, i)' = WorkOf(q, i)
  PROVE  work' = work
<1>1. \A c \in Conns : c[1] \in Requests /\ c[2] \in 1..MaxDepth
  BY DEF Conns
<1>2. \A c \in Conns : WorkOf(c[1], c[2])' = WorkOf(c[1], c[2])
  BY <1>1
<1> QED BY <1>2 DEF work

\* Something changes for one connection.
LEMMA OneWork ==
  ASSUME NEW q \in Requests, NEW n \in 1..MaxDepth, NEW w, WorkOf(q, n)' = w,
         \A p \in Requests : \A i \in 1..MaxDepth :
           p # q \/ i # n => WorkOf(p, i)' = WorkOf(p, i)
  PROVE  work' = [work EXCEPT ![<<q, n>>] = w]
<1>1. \A c \in Conns : /\ c[1] \in Requests /\ c[2] \in 1..MaxDepth
                       /\ c = <<c[1], c[2]>>
  BY DEF Conns
<1>2. \A c \in Conns : WorkOf(c[1], c[2])' =
                         IF c = <<q, n>> THEN w ELSE WorkOf(c[1], c[2])
  BY <1>1
<1>3. work' = [c \in Conns |-> WorkOf(c[1], c[2])']
  BY DEF work
<1>4. work = [c \in Conns |-> WorkOf(c[1], c[2])]
  BY DEF work
<1> QED BY <1>2, <1>3, <1>4

\* What is done for the other requests is what it was.
LEMMA OtherWork ==
  ASSUME NEW q \in Requests, Only(q), stage' = stage,
         NEW p \in Requests, p # q, NEW i \in 1..MaxDepth
  PROVE  WorkOf(p, i)' = WorkOf(p, i)
BY DEF Only, WorkOf, Depth, At, Dead, Unwanted

KeepsOne(s) ==
  kept' = IF stage[s] = "draining" THEN [kept EXCEPT ![s] = @ + 1] ELSE kept

\* The steps of Lifecycle that change the work for one connection.
LEMMA LifeMoves ==
  ASSUME NEW c \in Conns, NEW s \in Services, UNCHANGED <<stage, opened, cut>>,
         \/ work' = work /\ kept' = kept
         \/ /\ work[c] = <<"free", "none">> /\ Takes(s)
            /\ work' = [work EXCEPT ![c] = <<"busy", s>>]
         \/ /\ work[c] = <<"busy", s>> /\ KeepsOne(s)
            /\ work' = [work EXCEPT ![c] = <<"free", "none">>]
         \/ /\ work[c] = <<"busy", s>> /\ KeepsOne(s)
            /\ work' = [work EXCEPT ![c] = <<"finishing", work[c][2]>>]
         \/ /\ work[c][1] \in {"abandoned", "finishing"} /\ kept' = kept
            /\ work' = [work EXCEPT ![c] = <<"free", "none">>]
         \/ /\ work[c][1] = "busy" /\ kept' = kept
            /\ work' = [work EXCEPT ![c] = <<"abandoned", work[c][2]>>]
  PROVE  [Life!Next]_(Life!vars)
<1>1. CASE work' = work /\ kept' = kept
  BY <1>1 DEF work, Life!vars
<1>2. CASE /\ work[c] = <<"free", "none">> /\ Takes(s)
           /\ work' = [work EXCEPT ![c] = <<"busy", s>>]
  <2>1. Life!Accept(c, s)
    BY <1>2 DEF Life!Accept, Life!Free, work, Takes, Accepts
  <2> QED BY <2>1 DEF Life!Next
<1>3. CASE /\ work[c] = <<"busy", s>> /\ KeepsOne(s)
           /\ work' = [work EXCEPT ![c] = <<"free", "none">>]
  <2>1. work[c][1] = "busy" /\ work[c][2] = s
    BY <1>3
  <2>2. kept' = IF stage[work[c][2]] = "draining"
                  THEN [kept EXCEPT ![work[c][2]] = @ + 1] ELSE kept
    BY <1>3, <2>1 DEF KeepsOne
  <2>3. Life!Respond(c)
    BY <1>3, <2>1, <2>2 DEF Life!Respond, Life!Free, work
  <2> QED BY <2>3 DEF Life!Next
<1>4. CASE /\ work[c][1] \in {"abandoned", "finishing"} /\ kept' = kept
           /\ work' = [work EXCEPT ![c] = <<"free", "none">>]
  <2>1. Life!Settle(c)
    BY <1>4 DEF Life!Settle, Life!Free, work
  <2> QED BY <2>1 DEF Life!Next
<1>5. CASE /\ work[c] = <<"busy", s>> /\ KeepsOne(s)
           /\ work' = [work EXCEPT ![c] = <<"finishing", work[c][2]>>]
  <2>1. work[c][1] = "busy" /\ work[c][2] = s
    BY <1>5
  <2>2. kept' = IF stage[work[c][2]] = "draining"
                  THEN [kept EXCEPT ![work[c][2]] = @ + 1] ELSE kept
    BY <1>5, <2>1 DEF KeepsOne
  <2>3. Life!Respond(c)
    BY <1>5, <2>1, <2>2 DEF Life!Respond, work
  <2> QED BY <2>3 DEF Life!Next
<1>6. CASE /\ work[c][1] = "busy" /\ kept' = kept
           /\ work' = [work EXCEPT ![c] = <<"abandoned", work[c][2]>>]
  <2>1. Life!Abandon(c)
    BY <1>6 DEF Life!Abandon, work
  <2> QED BY <2>1 DEF Life!Next
<1> QED BY <1>1, <1>2, <1>3, <1>4, <1>5, <1>6

\* When the last handler has gone, only its connection is concerned.
LEMMA PopWork ==
  ASSUME Inv, NEW q \in Requests, NEW n, n = Depth(q), n > 0,
         Pops(q), Only(q), stage' = stage
  PROVE  /\ \A p \in Requests : \A i \in 1..MaxDepth :
              p # q \/ i # n => WorkOf(p, i)' = WorkOf(p, i)
         /\ WorkOf(q, n)' =
              IF n = 1 /\ finishing'[q] THEN <<"finishing", "persistence">>
                                        ELSE <<"free", "none">>
<1>1. Len(stack[q]) = n /\ n \in 1..MaxDepth /\ n \in Nat
  BY TopFacts, LenProperties
<1>2. Depth(q)' = n - 1
  BY <1>1 DEF Pops, Depth
<1>3. ASSUME NEW i \in 1..MaxDepth, i # n PROVE WorkOf(q, i)' = WorkOf(q, i)
  <2>1. CASE i < n
    <3>1. ~(i > n - 1) /\ ~(i > n) /\ i \in 1..(n - 1) /\ n > 1
      BY <1>1, <2>1 DEF MaxDepth
    <3>2. At(q, i)' = At(q, i)
      BY <1>1, <3>1 DEF At, Pops
    <3>3. Unwanted(q, i)' = Unwanted(q, i)
      <4>1. CASE i = 1
        BY <1>1, <3>1, <4>1 DEF Unwanted, Pops
      <4>2. CASE i # 1
        <5>1. i - 1 \in 1..(n - 1)
          BY <1>1, <3>1, <4>2
        <5>2. At(q, i - 1)' = At(q, i - 1)
          BY <1>1, <5>1 DEF At, Pops
        <5> QED BY <4>2, <5>2 DEF Unwanted, Dead
      <4> QED BY <4>1, <4>2
    <3> QED BY <1>2, <3>1, <3>2, <3>3 DEF WorkOf, Dead
  <2>2. CASE ~(i < n)
    <3>1. i > n - 1 /\ i > n /\ i # 1
      BY <1>1, <1>3, <2>2 DEF MaxDepth
    <3> QED BY <1>1, <1>2, <3>1 DEF WorkOf
  <2> QED BY <2>1, <2>2
<1>4. WorkOf(q, n)' = IF n = 1 /\ finishing'[q]
                        THEN <<"finishing", "persistence">>
                        ELSE <<"free", "none">>
  <2>1. n > n - 1
    BY <1>1
  <2> QED BY <1>2, <2>1 DEF WorkOf
<1> QED BY <1>1, <1>3, <1>4, OtherWork

\* The work of a handler that is there, and of one that is not.
LEMMA WorkFacts ==
  ASSUME Inv, NEW q \in Requests, NEW i \in 1..MaxDepth
  PROVE  /\ i <= Depth(q) /\ Dead(At(q, i)) => WorkOf(q, i) = <<"free", "none">>
         /\ i <= Depth(q) /\ ~Dead(At(q, i)) /\ Unwanted(q, i) =>
              WorkOf(q, i) = <<"abandoned", At(q, i)>>
         /\ i <= Depth(q) /\ ~Dead(At(q, i)) /\ ~Unwanted(q, i) =>
              WorkOf(q, i) = <<"busy", At(q, i)>>
         /\ i > Depth(q) /\ ~(i = 1 /\ finishing[q]) =>
              WorkOf(q, i) = <<"free", "none">>
         /\ i > Depth(q) /\ i = 1 /\ finishing[q] =>
              WorkOf(q, i) = <<"finishing", "persistence">>
<1>1. Depth(q) \in Nat /\ i \in Nat
  BY DepthBound DEF Depth, MaxDepth
<1>2. i <= Depth(q) <=> ~(i > Depth(q))
  BY <1>1
<1> QED BY <1>2 DEF WorkOf

\* An answer ends the work of the last handler.
LEMMA LifeAnswer ==
  ASSUME Inv, NEW q \in Requests, Depth(q) > 0, ~Dead(At(q, Depth(q))),
         NEW status \in Statuses, Answer(q, status),
         UNCHANGED <<stage, opened, cut>>, refused' = refused \/ Refused(q) \/ Outage(q)
  PROVE  [Life!Next]_(Life!vars)
<1> PICK n : n = Depth(q)
  OBVIOUS
<1> PICK w : w = IF n = 1 /\ finishing'[q] THEN <<"finishing", "persistence">>
                                           ELSE <<"free", "none">>
  OBVIOUS
<1>1. /\ n \in 1..MaxDepth /\ n <= Depth(q) /\ n > 0 /\ n = Depth(q)
      /\ At(q, n) \in Services
  BY TopFacts, RouteFacts, DepthBound
<1>2. /\ Pops(q) /\ Only(q)
      /\ finishing'[q] => n = 1 /\ ~gone[q] /\ At(q, 1) = "persistence"
  BY AnswerPops
<1>3. /\ WorkOf(q, n)' = w
      /\ \A p \in Requests : \A i \in 1..MaxDepth :
           p # q \/ i # n => WorkOf(p, i)' = WorkOf(p, i)
  BY <1>1, <1>2, PopWork
<1> PICK c : c = <<q, n>>
  OBVIOUS
<1>4. work' = [work EXCEPT ![c] = w]
  BY <1>1, <1>3, OneWork
<1>5. c \in Conns /\ work[c] = WorkOf(q, n)
  BY <1>1, WorkIs
<1>6. ~Dead(At(q, n))
  BY <1>1
<1>7. WorkOf(q, n) \in {<<"busy", At(q, n)>>, <<"abandoned", At(q, n)>>}
  BY <1>1, <1>6, WorkFacts
<1>8. CASE n = 1 /\ finishing'[q]
  <2>1. ~Unwanted(q, n) /\ At(q, n) = "persistence"
    BY <1>2, <1>8 DEF Unwanted
  <2>2. WorkOf(q, n) = <<"busy", "persistence">>
    BY <1>1, <1>6, <2>1, WorkFacts
  <2>3. w = <<"finishing", "persistence">>
    BY <1>8
  <2>4. work[c] = <<"busy", At(q, n)>> /\ work[c][2] = "persistence"
    BY <1>5, <2>1, <2>2
  <2>5. work' = [work EXCEPT ![c] = <<"finishing", work[c][2]>>]
    BY <1>4, <2>3, <2>4
  <2>6. KeepsOne(At(q, n))
    BY <1>1, <2>1 DEF Answer, Keeps, KeepsOne
  <2> QED BY <1>1, <1>5, <2>4, <2>5, <2>6, LifeMoves
<1>9. CASE ~(n = 1 /\ finishing'[q])
  <2>1. w = <<"free", "none">>
    BY <1>9
  <2>2. CASE Unwanted(q, n)
    <3>1. work[c] = <<"abandoned", At(q, n)>> /\ kept' = kept
      BY <1>1, <1>5, <1>6, <2>2, WorkFacts DEF Answer, Keeps
    <3>2. work[c][1] \in {"abandoned", "finishing"}
      BY <3>1
    <3> QED BY <1>1, <1>4, <1>5, <2>1, <3>1, <3>2, LifeMoves
  <2>3. CASE ~Unwanted(q, n)
    <3>1. work[c] = <<"busy", At(q, n)>> /\ KeepsOne(At(q, n))
      BY <1>1, <1>5, <1>6, <2>3, WorkFacts DEF Answer, Keeps, KeepsOne
    <3> QED BY <1>1, <1>4, <1>5, <2>1, <3>1, LifeMoves
  <2> QED BY <2>2, <2>3
<1> QED BY <1>8, <1>9

\* A handler that goes on to its next stage is as busy as before.
LEMMA LifeAdvance ==
  ASSUME Inv, NEW q \in Requests, Depth(q) > 0, ~Dead(At(q, Depth(q))),
         Advance(q), UNCHANGED <<stage, opened, cut, refused>>
  PROVE  [Life!Next]_(Life!vars)
<1>1. CASE AtEnd(q)
  <2> DEFINE status == Success(Top(q).route)
  <2>1. Answer(q, status) /\ status \in {200, 201, 302}
    BY <1>1, TopFacts, RouteFacts DEF Advance
  <2> HIDE DEF status
  <2>2. status \in Statuses
    BY <2>1 DEF Statuses
  <2> QED BY <2>1, <2>2, LifeAnswer
<1>2. CASE ~AtEnd(q)
  <2> DEFINE n == Depth(q)
             t == Moved(stack[q])
  <2>1. /\ stack' = [stack EXCEPT ![q][n].pos = @ + 1]
        /\ reply' = [reply EXCEPT ![q] = None]
        /\ UNCHANGED <<gone, finishing, kept>>
    BY <1>2 DEF Advance
  <2>2. /\ stack[q] \in Seq(Frame) /\ n = Len(stack[q]) /\ n > 0
        /\ Top(q) = stack[q][n] /\ Types
    BY TopFacts DEF Inv
  <2>3. stack' = [stack EXCEPT ![q] = t]
    BY <2>1, <2>2 DEF Moved
  <2>4. stack[q][n].pos < Len(Program(stack[q][n].route))
    <3>1. /\ Len(Program(Top(q).route)) \in 1..MaxLength
          /\ Top(q).pos \in 1..Len(Program(Top(q).route))
      BY TopFacts, ProgramFacts
    <3> QED BY <1>2, <2>2, <3>1 DEF AtEnd
  <2>5. Len(t) = n /\ \A i \in 1..n : t[i].route = stack[q][i].route
    BY <2>2, <2>4, MovedFacts
  <2> HIDE DEF t
  <2>6. stack'[q] = t /\ n \in Nat
    BY <2>2, <2>3, LenProperties DEF Types
  <2>7. Only(q)
    BY <2>1, <2>2, <2>3 DEF Only, Types
  <2>8. Depth(q)' = Depth(q) /\ \A i \in 1..n : At(q, i)' = At(q, i)
    BY <2>5, <2>6 DEF Depth, At
  <2> HIDE DEF n
  <2>9. ASSUME NEW i \in 1..MaxDepth PROVE WorkOf(q, i)' = WorkOf(q, i)
    <3>1. CASE i > Depth(q)
      BY <2>1, <2>8, <3>1 DEF WorkOf
    <3>2. CASE ~(i > Depth(q))
      <4>1. i \in 1..n /\ (i # 1 => i - 1 \in 1..n)
        BY <2>6, <3>2 DEF n, MaxDepth
      <4>2. At(q, i)' = At(q, i) /\ Unwanted(q, i)' = Unwanted(q, i)
        BY <2>1, <2>8, <4>1 DEF Unwanted, Dead
      <4> QED BY <2>8, <3>2, <4>2 DEF WorkOf, Dead
    <3> QED BY <3>1, <3>2
  <2>10. work' = work
    BY <2>7, <2>9, OtherWork, SameWork
  <2> QED BY <2>1, <2>10 DEF work, Life!vars
<1> QED BY <1>1, <1>2

\* A call that is accepted is work for a new connection of the callee.
LEMMA LifeCall ==
  ASSUME Inv, NEW q \in Requests, Call(q) PROVE [Life!Next]_(Life!vars)
<1> DEFINE route == Stages[Stage(q)].calls
           called == /\ Takes(ServiceOf(route))
                     /\ stack' = [stack EXCEPT ![q] = Append(@, NewFrame(route))]
                     /\ UNCHANGED reply
<1>1. /\ Depth(q) > 0 /\ ~Dead(At(q, Depth(q))) /\ route # "none"
      /\ UNCHANGED <<stage, opened, cut, gone, finishing, refused>>
      /\ \/ called
         \/ /\ reply' = [reply EXCEPT ![q] = Lost]
            /\ UNCHANGED <<stack, kept>>
  BY DEF Call, Runs, ReplyToRefused
<1>2. PICK n : n = Depth(q)
  OBVIOUS
<1>3. /\ stack[q] \in Seq(Frame) /\ n = Len(stack[q]) /\ n \in Nat /\ n > 0
      /\ Top(q).route \in Routes
      /\ Top(q).pos \in 1..Len(Program(Top(q).route)) /\ Types
      /\ Stage(q) = Program(Top(q).route)[Top(q).pos]
  BY <1>1, <1>2, TopFacts, LenProperties DEF Inv, Types, Stage
<1>4. route \in Routes
  BY <1>1, <1>3, CallFacts
<1>5. Inv'
  BY CallKeeps
<1> HIDE DEF route, called
<1>6. CASE ~called
  <2>1. stack' = stack /\ gone' = gone /\ finishing' = finishing /\ stage' = stage
        /\ kept' = kept
    BY <1>1, <1>6
  <2>2. \A p \in Requests : \A i \in 1..MaxDepth : WorkOf(p, i)' = WorkOf(p, i)
    BY <2>1 DEF WorkOf, Depth, At, Dead, Unwanted
  <2>3. work' = work
    BY <2>2, SameWork
  <2> QED BY <1>1, <2>1, <2>3 DEF work, Life!vars
<1>7. CASE called
  <2>1. PICK f : f = NewFrame(route)
    OBVIOUS
  <2>2. f \in Frame /\ f.route = route
    <3>1. 1 \in 1..MaxLength
      BY DEF MaxLength
    <3> QED BY <1>4, <2>1, <3>1 DEF NewFrame, Frame
  <2>3. stack' = [stack EXCEPT ![q] = Append(stack[q], f)] /\ reply' = reply
    BY <1>7, <2>1 DEF called
  <2>4. PICK t : t = Append(stack[q], f)
    OBVIOUS
  <2>5. /\ t \in Seq(Frame) /\ Len(t) = n + 1
        /\ \A i \in 1..n : t[i] = stack[q][i]
        /\ t[n + 1] = f
    BY <1>3, <2>2, <2>4, Pushed
  <2>6. stack'[q] = t
    BY <1>3, <2>3, <2>4 DEF Types
  <2>7. PICK m : m = n + 1
    OBVIOUS
  <2>8. m \in 1..MaxDepth /\ ~(m > m) /\ m # 1 /\ m > n
    <3>1. Len(stack'[q]) \in Nat /\ Len(stack'[q]) <= MaxDepth
      <4>1. (Len(stack[q]) \in Nat /\ Len(stack[q]) <= MaxDepth)'
        BY <1>5, DepthBound, PTL
      <4> QED BY <4>1
    <3>2. \A k \in Nat : k > 0 /\ k + 1 <= MaxDepth =>
            /\ k + 1 \in 1..MaxDepth /\ ~(k + 1 > k + 1) /\ k + 1 # 1
            /\ k + 1 > k
      BY DEF MaxDepth
    <3>3. n + 1 <= MaxDepth
      BY <2>5, <2>6, <3>1
    <3> QED BY <1>3, <2>7, <3>2, <3>3
  <2>9. Depth(q)' = m
    BY <2>5, <2>6, <2>7 DEF Depth
  <2>10. /\ At(q, m)' = ServiceOf(route) /\ Takes(ServiceOf(route))
         /\ stage[ServiceOf(route)] \in {"serving", "draining"}
    BY <1>7, <2>2, <2>5, <2>6, <2>7 DEF At, called, Takes, Accepts
  <2>11. \A i \in 1..n : At(q, i)' = At(q, i)
    BY <2>5, <2>6 DEF At
  <2>12. Only(q)
    BY <1>1, <1>3, <2>3 DEF Only, Types
  <2>13. WorkOf(q, m)' = <<"busy", ServiceOf(route)>>
    <3>1. ~Unwanted(q, m)'
      <4>1. m - 1 = n /\ n \in 1..n
        BY <1>3, <2>7
      <4>2. At(q, m - 1)' = At(q, n)
        BY <2>11, <4>1
      <4> QED BY <1>1, <1>2, <2>8, <4>2 DEF Unwanted, Dead
    <3>2. ~Dead(At(q, m))'
      BY <1>1, <2>10 DEF Dead
    <3> QED BY <2>8, <2>9, <2>10, <3>1, <3>2 DEF WorkOf
  <2>14. WorkOf(q, m) = <<"free", "none">>
    BY <1>2, <2>8 DEF WorkOf
  <2>15. ASSUME NEW i \in 1..MaxDepth, i # m PROVE WorkOf(q, i)' = WorkOf(q, i)
    <3>1. CASE i <= n
      <4>1. i \in 1..n /\ (i # 1 => i - 1 \in 1..n) /\ ~(i > n) /\ ~(i > m)
        BY <1>3, <2>7, <3>1 DEF MaxDepth
      <4>2. At(q, i)' = At(q, i) /\ Unwanted(q, i)' = Unwanted(q, i)
        BY <1>1, <2>11, <4>1 DEF Unwanted, Dead
      <4> QED BY <1>1, <1>2, <2>9, <4>1, <4>2 DEF WorkOf, Dead
    <3>2. CASE ~(i <= n)
      <4>1. i > n /\ i > m /\ i # 1
        BY <1>3, <2>7, <2>15, <3>2 DEF MaxDepth
      <4> QED BY <1>2, <2>9, <4>1 DEF WorkOf
    <3> QED BY <3>1, <3>2
  <2>16. PICK c : c = <<q, m>>
    OBVIOUS
  <2>17. work' = [work EXCEPT ![c] = <<"busy", ServiceOf(route)>>]
    <3>1. PICK w : w = <<"busy", ServiceOf(route)>>
      OBVIOUS
    <3> QED BY <1>1, <2>8, <2>12, <2>13, <2>15, <2>16, <3>1, OtherWork, OneWork
  <2>18. c \in Conns /\ work[c] = <<"free", "none">>
    BY <2>8, <2>14, <2>16, WorkIs
  <2> QED BY <1>1, <1>4, <2>10, <2>17, <2>18, RouteFacts, LifeMoves
<1> QED BY <1>6, <1>7

\* A broken connection ends no work: the process had ended it.
LEMMA LifeBreak ==
  ASSUME Inv, NEW q \in Requests, Break(q) PROVE [Life!Next]_(Life!vars)
<1>1. PICK n : n = Depth(q)
  OBVIOUS
<1>2. /\ Pops(q) /\ Only(q) /\ n > 0 /\ Dead(At(q, n))
      /\ UNCHANGED <<stage, opened, cut, finishing, refused, kept>>
      /\ stack[q] \in Seq(Frame) /\ n = Len(stack[q]) /\ Rest(q)
      /\ n \in 1..MaxDepth
  BY <1>1, BreakPops, TopFacts DEF Break, Inv
<1>3. ~finishing[q] /\ ~finishing'[q]
  BY <1>2, EmptyStack DEF Rest
<1>4. WorkOf(q, n)' = <<"free", "none">>
      /\ \A p \in Requests : \A i \in 1..MaxDepth :
           p # q \/ i # n => WorkOf(p, i)' = WorkOf(p, i)
  BY <1>1, <1>2, <1>3, PopWork
<1>5. WorkOf(q, n) = <<"free", "none">>
  <2>1. \A k \in 1..MaxDepth : k <= k
    BY DEF MaxDepth
  <2> QED BY <1>1, <1>2, <2>1, WorkFacts
<1>6. work' = work
  BY <1>4, <1>5, SameWork
<1> QED BY <1>2, <1>6 DEF work, Life!vars

\* Every step of a request is one of Lifecycle or changes nothing there.
LEMMA LifeStep ==
  ASSUME Inv, NEW q \in Requests, Step(q) PROVE [Life!Next]_(Life!vars)
<1>1. CASE Pass(q)
  BY <1>1, LifeAdvance DEF Pass, Runs
<1>2. CASE Refuse(q)
  <2>1. PICK status \in Stages[Stage(q)].answers : Answer(q, status)
    BY <1>2 DEF Refuse
  <2>2. status \in Statuses
    BY <1>2, TopFacts, StageFacts DEF Statuses, Refuse, Runs
  <2> QED BY <1>2, <2>1, <2>2, LifeAnswer DEF Refuse, Runs
<1>3. CASE Throw(q)
  <2>1. 500 \in Statuses
    BY DEF Statuses
  <2> QED BY <1>3, <2>1, LifeAnswer DEF Throw, Runs
<1>4. CASE Call(q)
  BY <1>4, LifeCall
<1>5. CASE Return(q)
  <2>1. Depth(q) > 0 /\ ~Dead(At(q, Depth(q))) /\ UNCHANGED <<stage, opened, cut>>
    BY <1>5 DEF Return
  <2>2. CASE reply[q] = 200
    BY <1>5, <2>1, <2>2, LifeAdvance DEF Return
  <2>3. CASE reply[q] # 200
    <3>1. PICK status : status = FailedCall(Top(q).route, Stage(q), reply[q])
      OBVIOUS
    <3>2. status \in Statuses
      BY <3>1 DEF FailedCall, Statuses
    <3>3. /\ Answer(q, status)
          /\ IF status = 401 THEN Outage(q) ELSE UNCHANGED refused
      BY <1>5, <2>3, <3>1 DEF Return
    <3> QED BY <2>1, <3>2, <3>3, LifeAnswer
  <2> QED BY <2>2, <2>3
<1>6. CASE Break(q)
  BY <1>6, LifeBreak
<1> QED BY <1>1, <1>2, <1>3, <1>4, <1>5, <1>6 DEF Step

\* A request comes, its client gets the answer or hangs up, a listener ends.
LEMMA LifeClient ==
  ASSUME Inv, NEW q \in Requests,
         \/ \E route \in Entries : Begin(q, route)
         \/ Receive(q) \/ HangUp(q) \/ Finish(q)
  PROVE  [Life!Next]_(Life!vars)
<1>1. /\ Types /\ Handlers(q) /\ Rest(q) /\ stack[q] \in Seq(Frame)
      /\ 1 \in 1..MaxDepth /\ \A i \in 1..MaxDepth : i # 1 => i > 1
      /\ \A i \in 1..MaxDepth : i > 0
  BY DEF Inv, Types, MaxDepth
<1>2. PICK c : c = <<q, 1>>
  OBVIOUS
<1>3. c \in Conns /\ work[c] = WorkOf(q, 1)
  BY <1>1, <1>2, WorkIs
<1>4. ASSUME NEW route \in Entries, Begin(q, route)
      PROVE  [Life!Next]_(Life!vars)
  <2>1. PICK f : f = NewFrame(route)
    OBVIOUS
  <2>2. /\ stack[q] = <<>> /\ ~finishing[q] /\ Takes(ServiceOf(route))
        /\ stage[ServiceOf(route)] \in {"serving", "draining"}
        /\ stack' = [stack EXCEPT ![q] = <<f>>] /\ f.route = route
        /\ UNCHANGED <<stage, opened, cut, reply, gone, finishing, refused>>
    BY <1>4, <2>1 DEF Begin, Takes, Accepts, NewFrame
  <2>3. stack'[q] = <<f>> /\ Only(q)
    BY <1>1, <2>2 DEF Types, Only
  <2>4. Depth(q) = 0 /\ Depth(q)' = 1
    BY <2>2, <2>3 DEF Depth
  <2>5. At(q, 1)' = ServiceOf(route) /\ ~gone[q]
    BY <1>1, <2>2, <2>3 DEF At, Rest
  <2>6. WorkOf(q, 1) = <<"free", "none">>
        /\ WorkOf(q, 1)' = <<"busy", ServiceOf(route)>>
    BY <2>2, <2>4, <2>5 DEF WorkOf, Unwanted, Dead
  <2>7. ASSUME NEW i \in 1..MaxDepth, i # 1 PROVE WorkOf(q, i)' = WorkOf(q, i)
    BY <1>1, <2>4, <2>7 DEF WorkOf
  <2>8. work' = [work EXCEPT ![c] = <<"busy", ServiceOf(route)>>]
    <3>1. PICK w : w = <<"busy", ServiceOf(route)>>
      OBVIOUS
    <3> QED BY <1>1, <1>2, <2>2, <2>3, <2>6, <2>7, <3>1, OtherWork, OneWork
  <2>9. ServiceOf(route) \in Services
    BY EntriesAssumption, RouteFacts
  <2> QED BY <1>3, <2>2, <2>6, <2>8, <2>9, LifeMoves
<1>5. CASE Receive(q)
  <2>1. UNCHANGED <<stage, opened, cut, stack, gone, finishing, kept>>
    BY <1>5 DEF Receive
  <2>2. \A p \in Requests : \A i \in 1..MaxDepth : WorkOf(p, i)' = WorkOf(p, i)
    BY <2>1 DEF WorkOf, Depth, At, Dead, Unwanted
  <2>3. work' = work
    BY <2>2, SameWork
  <2> QED BY <2>1, <2>3 DEF work, Life!vars
<1>6. CASE HangUp(q)
  <2>1. /\ stack[q] # <<>> /\ ~gone[q] /\ gone' = [gone EXCEPT ![q] = TRUE]
        /\ UNCHANGED <<stage, opened, cut, stack, reply, finishing, refused, kept>>
    BY <1>6 DEF HangUp
  <2>2. gone'[q] /\ Only(q)
    BY <1>1, <2>1 DEF Types, Only
  <2>3. ASSUME NEW i \in 1..MaxDepth, i # 1 PROVE WorkOf(q, i)' = WorkOf(q, i)
    BY <2>1, <2>3 DEF WorkOf, Depth, At, Dead, Unwanted
  <2>4. 1 <= Depth(q) /\ ~(1 > Depth(q))
    <3>1. Len(stack[q]) \in Nat /\ Len(stack[q]) # 0
      BY <1>1, <2>1, EmptyStack
    <3> QED BY <3>1 DEF Depth
  <2>5. At(q, 1)' = At(q, 1) /\ Depth(q)' = Depth(q) /\ stage' = stage
    BY <2>1 DEF At, Depth
  <2>6. CASE Dead(At(q, 1))
    <3>1. WorkOf(q, 1)' = WorkOf(q, 1)
      BY <2>4, <2>5, <2>6 DEF WorkOf, Dead
    <3>2. work' = work
      BY <2>2, <2>3, <2>5, <3>1, OtherWork, SameWork
    <3> QED BY <2>1, <3>2 DEF work, Life!vars
  <2>7. CASE ~Dead(At(q, 1))
    <3>1. WorkOf(q, 1) = <<"busy", At(q, 1)>>
      BY <2>1, <2>4, <2>7 DEF WorkOf, Unwanted
    <3>2. WorkOf(q, 1)' = <<"abandoned", At(q, 1)>>
      BY <2>2, <2>4, <2>5, <2>7 DEF WorkOf, Unwanted, Dead
    <3>3. PICK w : w = <<"abandoned", At(q, 1)>>
      OBVIOUS
    <3>4. work' = [work EXCEPT ![c] = w]
      BY <1>1, <1>2, <2>2, <2>3, <2>5, <3>2, <3>3, OtherWork, OneWork
    <3>5. work[c][1] = "busy" /\ work[c][2] = At(q, 1)
      BY <1>3, <3>1
    <3>6. work' = [work EXCEPT ![c] = <<"abandoned", work[c][2]>>]
      BY <3>3, <3>4, <3>5
    <3>7. "issuer" \in Services
      BY DEF Services
    <3> QED BY <1>3, <2>1, <3>5, <3>6, <3>7, LifeMoves
  <2> QED BY <2>6, <2>7
<1>7. CASE Finish(q)
  <2>1. /\ finishing[q] /\ finishing' = [finishing EXCEPT ![q] = FALSE]
        /\ UNCHANGED <<stage, opened, cut, stack, reply, gone, refused, kept>>
    BY <1>7 DEF Finish
  <2>2. ~finishing'[q] /\ Only(q)
    BY <1>1, <2>1 DEF Types, Only
  <2>3. Depth(q) = 0 /\ Depth(q)' = 0
    BY <1>1, <2>1 DEF Rest, Depth
  <2>4. WorkOf(q, 1) = <<"finishing", "persistence">>
        /\ WorkOf(q, 1)' = <<"free", "none">>
    BY <2>1, <2>2, <2>3 DEF WorkOf
  <2>5. ASSUME NEW i \in 1..MaxDepth, i # 1 PROVE WorkOf(q, i)' = WorkOf(q, i)
    BY <1>1, <2>3, <2>5 DEF WorkOf
  <2>6. PICK w : w = <<"free", "none">>
    OBVIOUS
  <2>7. work' = [work EXCEPT ![c] = w]
    BY <1>1, <1>2, <2>1, <2>2, <2>4, <2>5, <2>6, OtherWork, OneWork
  <2>8. work[c][1] = "finishing" /\ "issuer" \in Services
    BY <1>3, <2>4 DEF Services
  <2> QED BY <1>3, <2>1, <2>6, <2>7, <2>8, LifeMoves
<1> QED BY <1>4, <1>5, <1>6, <1>7

\* The connections whose clients are handlers of s.
CalledBy(s) ==
  {c \in Conns : /\ c[2] > 1 /\ c[2] <= Depth(c[1])
                 /\ At(c[1], c[2] - 1) = s}

\* When the process of s is gone, its work is, and what it waits for has lost
\* its client.
LEMMA DeathWork ==
  ASSUME Inv, NEW s \in Services, ~Dead(s),
         UNCHANGED <<stack, gone>>,
         stage' \in [Services -> {"booting", "serving", "draining", "exited",
                                  "failed"}],
         Dead(s)',
         \A r \in Services : r # s => stage'[r] = stage[r],
         \A q \in Requests : finishing'[q] <=> finishing[q] /\ s # "persistence"
  PROVE  work' = [c \in Conns |->
                    IF work[c][2] = s THEN <<"free", "none">>
                    ELSE IF c \in CalledBy(s) /\ work[c][1] = "busy"
                           THEN <<"abandoned", work[c][2]>>
                           ELSE work[c]]
<1>1. ASSUME NEW q \in Requests, NEW i \in 1..MaxDepth, NEW w, w = WorkOf(q, i)
      PROVE  WorkOf(q, i)' =
               IF w[2] = s THEN <<"free", "none">>
               ELSE IF <<q, i>> \in CalledBy(s) /\ w[1] = "busy"
                      THEN <<"abandoned", w[2]>>
                      ELSE w
  <2>1. /\ stack[q] \in Seq(Frame) /\ Depth(q)' = Depth(q)
        /\ \A j \in 1..MaxDepth : At(q, j)' = At(q, j)
        /\ Depth(q) \in Nat /\ Depth(q) = Len(stack[q]) /\ i \in Nat /\ i > 0
    BY DepthBound DEF Inv, Types, Depth, At, MaxDepth
  <2>2. "none" \notin Services
    BY DEF Services
  <2>3. CASE i > Depth(q)
    <3>1. <<q, i>> \notin CalledBy(s)
      BY <2>1, <2>3 DEF CalledBy
    <3>2. CASE i = 1 /\ finishing[q]
      <4>1. w = <<"finishing", "persistence">>
        BY <1>1, <2>3, <3>2 DEF WorkOf
      <4>2. CASE s = "persistence"
        BY <2>1, <2>3, <4>1, <4>2 DEF WorkOf
      <4>3. CASE s # "persistence"
        BY <2>1, <2>3, <3>1, <3>2, <4>1, <4>3 DEF WorkOf
      <4> QED BY <4>2, <4>3
    <3>3. CASE ~(i = 1 /\ finishing[q])
      <4>1. w = <<"free", "none">>
        BY <1>1, <2>3, <3>3 DEF WorkOf
      <4>2. WorkOf(q, i)' = <<"free", "none">>
        BY <2>1, <2>3, <3>3 DEF WorkOf
      <4> QED BY <2>2, <3>1, <4>1, <4>2
    <3> QED BY <3>2, <3>3
  <2>4. CASE ~(i > Depth(q))
    <3>1. i \in 1..Len(stack[q]) /\ i <= Depth(q) /\ (i # 1 => i > 1)
      BY <2>1, <2>4
    <3>2. \A j \in 1..Len(stack[q]) : At(q, j) \in Services
      <4>1. \A j \in 1..Len(stack[q]) : stack[q][j].route \in Routes
        BY <2>1, EmptyStack DEF Frame
      <4> QED BY <4>1, RouteFacts DEF At
    <3>3. \A j \in 1..Len(stack[q]) :
            Dead(At(q, j))' <=> Dead(At(q, j)) \/ At(q, j) = s
      <4> SUFFICES ASSUME NEW j \in 1..Len(stack[q])
                   PROVE  Dead(At(q, j))' <=> Dead(At(q, j)) \/ At(q, j) = s
        OBVIOUS
      <4>1. At(q, j)' = At(q, j) /\ At(q, j) \in Services
        BY <3>2 DEF At
      <4>2. CASE At(q, j) = s
        BY <4>1, <4>2 DEF Dead
      <4>3. CASE At(q, j) # s
        BY <4>1, <4>3 DEF Dead
      <4> QED BY <4>2, <4>3
    <3>4. Unwanted(q, i)' <=> Unwanted(q, i) \/ <<q, i>> \in CalledBy(s)
      <4>1. CASE i = 1
        <5>1. <<q, i>> \notin CalledBy(s)
          BY <4>1 DEF CalledBy
        <5> QED BY <4>1, <5>1 DEF Unwanted
      <4>2. CASE i # 1
        <5>1. i - 1 \in 1..Len(stack[q])
          BY <2>1, <3>1, <4>2
        <5>2. <<q, i>> \in CalledBy(s) <=> At(q, i - 1) = s
          BY <3>1, <4>2 DEF CalledBy, Conns
        <5> QED BY <3>3, <4>2, <5>1, <5>2 DEF Unwanted
      <4> QED BY <4>1, <4>2
    <3>5. CASE Dead(At(q, i))
      <4>1. w = <<"free", "none">> /\ WorkOf(q, i)' = <<"free", "none">>
        BY <1>1, <2>1, <2>4, <3>1, <3>3, <3>5 DEF WorkOf
      <4> QED BY <2>2, <4>1
    <3>6. CASE ~Dead(At(q, i)) /\ At(q, i) = s
      <4>1. w[2] = s
        BY <1>1, <2>4, <3>6 DEF WorkOf
      <4>2. WorkOf(q, i)' = <<"free", "none">>
        BY <2>1, <2>4, <3>1, <3>3, <3>6 DEF WorkOf
      <4> QED BY <4>1, <4>2
    <3>7. CASE ~Dead(At(q, i)) /\ At(q, i) # s
      <4>1. w = <<IF Unwanted(q, i) THEN "abandoned" ELSE "busy", At(q, i)>>
        BY <1>1, <2>4, <3>7 DEF WorkOf
      <4>2. WorkOf(q, i)' =
              <<IF Unwanted(q, i)' THEN "abandoned" ELSE "busy", At(q, i)>>
        BY <2>1, <2>4, <3>1, <3>3, <3>7 DEF WorkOf
      <4> QED BY <3>4, <3>7, <4>1, <4>2
    <3> QED BY <3>5, <3>6, <3>7
  <2> QED BY <2>3, <2>4
<1>2. \A c \in Conns : /\ c[1] \in Requests /\ c[2] \in 1..MaxDepth
                       /\ c = <<c[1], c[2]>>
  BY DEF Conns
<1>3. \A c \in Conns : work[c] = WorkOf(c[1], c[2])
  BY DEF work
<1>4. work' = [c \in Conns |-> WorkOf(c[1], c[2])']
  BY DEF work
<1>5. ASSUME NEW c \in Conns
      PROVE  WorkOf(c[1], c[2])' =
               IF work[c][2] = s THEN <<"free", "none">>
               ELSE IF c \in CalledBy(s) /\ work[c][1] = "busy"
                      THEN <<"abandoned", work[c][2]>>
                      ELSE work[c]
  BY <1>1, <1>2, <1>3
<1> QED BY <1>4, <1>5

\* What an exit cuts off is work for some connection.
LEMMA LeftOverWork ==
  ASSUME Inv, NEW s \in Services, ~Dead(s)
  PROVE  (\E q \in Requests : LeftOver(s, q)) <=> (\E c \in Conns : work[c][2] = s)
<1>1. \A q \in Requests : \A i \in 1..MaxDepth :
        <<q, i>> \in Conns /\ work[<<q, i>>] = WorkOf(q, i)
  BY WorkIs
<1>2. \A c \in Conns : /\ c[1] \in Requests /\ c[2] \in 1..MaxDepth
                       /\ work[c] = WorkOf(c[1], c[2])
  BY DEF Conns, work
<1>3. ASSUME NEW q \in Requests, LeftOver(s, q)
      PROVE  \E c \in Conns : work[c][2] = s
  <2>1. /\ stack[q] \in Seq(Frame) /\ Rest(q) /\ Depth(q) = Len(stack[q])
        /\ Depth(q) \in Nat /\ Depth(q) <= MaxDepth
        /\ DOMAIN stack[q] = 1..Len(stack[q])
    BY DepthBound, LenProperties DEF Inv, Types, Depth
  <2>2. ASSUME NEW i \in DOMAIN stack[q], At(q, i) = s
        PROVE  \E c \in Conns : work[c][2] = s
    <3>1. i \in 1..MaxDepth /\ ~(i > Depth(q))
      BY <2>1 DEF MaxDepth
    <3>2. WorkOf(q, i)[2] = s
      BY <2>2, <3>1 DEF WorkOf
    <3> QED BY <1>1, <3>1, <3>2
  <2>3. CASE s = "persistence" /\ finishing[q]
    <3>1. Depth(q) = 0 /\ 1 \in 1..MaxDepth
      BY <2>1, <2>3 DEF Rest, MaxDepth
    <3>2. WorkOf(q, 1)[2] = s
      BY <2>3, <3>1 DEF WorkOf
    <3> QED BY <1>1, <3>1, <3>2
  <2> QED BY <1>3, <2>2, <2>3 DEF LeftOver
<1>4. ASSUME NEW c \in Conns, work[c][2] = s
      PROVE  \E q \in Requests : LeftOver(s, q)
  <2>1. PICK q \in Requests, i \in 1..MaxDepth : WorkOf(q, i)[2] = s
    BY <1>2, <1>4
  <2>2. "none" \notin Services
    BY DEF Services
  <2>3. CASE i > Depth(q)
    <3>1. finishing[q] /\ s = "persistence"
      BY <2>1, <2>2, <2>3 DEF WorkOf
    <3> QED BY <3>1 DEF LeftOver
  <2>4. CASE ~(i > Depth(q))
    <3>1. At(q, i) = s
      BY <2>1, <2>2, <2>4 DEF WorkOf
    <3>2. i \in DOMAIN stack[q]
      <4>1. /\ stack[q] \in Seq(Frame) /\ Depth(q) = Len(stack[q])
            /\ Depth(q) \in Nat /\ DOMAIN stack[q] = 1..Len(stack[q])
        BY DepthBound, LenProperties DEF Inv, Types, Depth
      <4> QED BY <2>4, <4>1 DEF MaxDepth
    <3> QED BY <3>1, <3>2 DEF LeftOver
  <2> QED BY <2>3, <2>4
<1> QED BY <1>3, <1>4

\* Nobody waits for a service that has drained.
LEMMA DrainedWork ==
  ASSUME Inv, NEW s \in Services, Drained(s), NEW c \in Conns
  PROVE  work[c] # <<"busy", s>>
<1>1. /\ c[1] \in Requests /\ c[2] \in 1..MaxDepth
      /\ work[c] = WorkOf(c[1], c[2])
  BY DEF Conns, work
<1>2. ASSUME NEW q \in Requests, NEW i \in 1..MaxDepth,
             WorkOf(q, i) = <<"busy", s>>
      PROVE  FALSE
  <2>1. ~(i > Depth(q)) /\ At(q, i) = s /\ ~Unwanted(q, i)
    BY <1>2 DEF WorkOf
  <2>2. i \in DOMAIN stack[q]
    <3>1. /\ stack[q] \in Seq(Frame) /\ Depth(q) = Len(stack[q])
          /\ Depth(q) \in Nat /\ DOMAIN stack[q] = 1..Len(stack[q])
      BY DepthBound, LenProperties DEF Inv, Types, Depth
    <3> QED BY <2>1, <3>1 DEF MaxDepth
  <2> QED BY <2>1, <2>2 DEF Drained, WaitsFor
<1> QED BY <1>1, <1>2

\* A process goes on in its life as Lifecycle says.
LEMMA LifeService ==
  ASSUME Inv, Kept, NEW s \in Services,
         Open(s) \/ Listen(s) \/ BootFails(s) \/ Stop(s) \/ Exit(s) \/ Crash(s)
  PROVE  [Life!Next]_(Life!vars)
<1>1. Types /\ \A q \in Requests : Rest(q)
  BY DEF Inv
<1>2. ASSUME \A r \in Services : Dead(r)' <=> Dead(r),
             UNCHANGED <<stack, gone, finishing>>
      PROVE  work' = work
  <2>1. ASSUME NEW q \in Requests, NEW i \in 1..MaxDepth
        PROVE  WorkOf(q, i)' = WorkOf(q, i)
    <3>1. /\ stack[q] \in Seq(Frame) /\ Depth(q)' = Depth(q)
          /\ Depth(q) \in Nat /\ Depth(q) = Len(stack[q])
          /\ \A j \in Int : At(q, j)' = At(q, j)
      BY <1>1, <1>2, DepthBound DEF Types, Depth, At
    <3>2. CASE i > Depth(q)
      BY <1>2, <3>1, <3>2 DEF WorkOf
    <3>3. CASE ~(i > Depth(q))
      <4>1. i \in 1..Len(stack[q]) /\ (i # 1 => i - 1 \in 1..Len(stack[q]))
            /\ i \in Int /\ i - 1 \in Int
        BY <3>1, <3>3 DEF MaxDepth
      <4>2. \A j \in 1..Len(stack[q]) : At(q, j) \in Services
        <5>1. \A j \in 1..Len(stack[q]) : stack[q][j].route \in Routes
          BY <3>1, EmptyStack DEF Frame
        <5> QED BY <5>1, RouteFacts DEF At
      <4>3. \A j \in 1..Len(stack[q]) : Dead(At(q, j))' <=> Dead(At(q, j))
        <5> SUFFICES ASSUME NEW j \in 1..Len(stack[q])
                     PROVE  Dead(At(q, j))' <=> Dead(At(q, j))
          OBVIOUS
        <5>1. At(q, j)' = At(q, j) /\ At(q, j) \in Services
          BY <1>2, <4>2 DEF At
        <5>2. Dead(At(q, j))' <=> stage'[At(q, j)] \in {"exited", "failed"}
          BY <5>1 DEF Dead
        <5> QED BY <1>2, <5>1, <5>2 DEF Dead
      <4>4. Unwanted(q, i)' <=> Unwanted(q, i)
        BY <1>2, <4>1, <4>3 DEF Unwanted
      <4> QED BY <3>1, <3>3, <4>1, <4>3, <4>4 DEF WorkOf
    <3> QED BY <3>2, <3>3
  <2> QED BY <2>1, SameWork
<1>3. CASE Open(s)
  <2>1. /\ stage[s] = "booting" /\ opened[s] < Boot(s)
        /\ opened' = [opened EXCEPT ![s] = @ + 1]
        /\ UNCHANGED <<stage, cut, kept, flow>>
    BY <1>3 DEF Open
  <2>2. work' = work
    BY <1>2, <2>1 DEF Dead, flow
  <2>3. Life!Open(s)
    BY <2>1, <2>2 DEF Life!Open, work
  <2> QED BY <2>3 DEF Life!Next
<1>4. CASE Listen(s)
  <2>1. /\ opened[s] = Boot(s) /\ stage[s] = "booting"
        /\ stage' = [stage EXCEPT ![s] = "serving"]
        /\ UNCHANGED <<opened, cut, kept, flow>>
    BY <1>4 DEF Listen, Moves
  <2>2. work' = work
    BY <1>1, <1>2, <2>1 DEF Dead, flow, Types
  <2>3. Life!Listen(s)
    BY <2>1, <2>2 DEF Life!Listen, Life!Moves, work
  <2> QED BY <2>3 DEF Life!Next
<1>5. CASE Stop(s)
  <2>1. /\ stage[s] = "serving" /\ stage' = [stage EXCEPT ![s] = "draining"]
        /\ UNCHANGED <<opened, cut, kept, flow>>
    BY <1>5 DEF Stop, Moves
  <2>2. work' = work
    BY <1>1, <1>2, <2>1 DEF Dead, flow, Types
  <2>3. Life!Stop(s)
    BY <2>1, <2>2 DEF Life!Stop, Life!Moves, work
  <2> QED BY <2>3 DEF Life!Next
<1>6. ASSUME /\ stage[s] \in {"booting", "serving", "draining"}
             /\ stage' = [stage EXCEPT ![s] = "failed"]
             /\ kept' = [kept EXCEPT ![s] = 0]
             /\ UNCHANGED <<opened, cut, stack, gone>>
             /\ \A q \in Requests :
                  finishing'[q] <=> finishing[q] /\ s # "persistence"
      PROVE  [Life!Next]_(Life!vars)
  <2>1. /\ ~Dead(s) /\ Dead(s)' /\ \A r \in Services : r # s => stage'[r] = stage[r]
        /\ stage' \in [Services -> {"booting", "serving", "draining", "exited",
                                    "failed"}]
    BY <1>1, <1>6 DEF Dead, Types
  <2>2. work' = [c \in Conns |->
                   IF work[c][2] = s THEN <<"free", "none">>
                   ELSE IF c \in CalledBy(s) /\ work[c][1] = "busy"
                          THEN <<"abandoned", work[c][2]>>
                          ELSE work[c]]
    BY <1>6, <2>1, DeathWork
  <2>3. CalledBy(s) \in SUBSET Conns
    BY DEF CalledBy
  <2>4. Life!Fail(s)
    BY <1>6, <2>2, <2>3 DEF Life!Fail, Life!Free, work
  <2> QED BY <2>4 DEF Life!Next
<1>7. CASE BootFails(s)
  <2>1. /\ stage[s] = "booting" /\ stage' = [stage EXCEPT ![s] = "failed"]
        /\ UNCHANGED <<opened, cut, kept, flow>>
    BY <1>7 DEF BootFails, Moves
  <2>2. \A q \in Requests : finishing'[q] <=> finishing[q] /\ s # "persistence"
    BY <1>1, <2>1 DEF Rest, flow
  <2>3. kept' = [kept EXCEPT ![s] = 0]
    BY <2>1 DEF Kept
  <2> QED BY <1>6, <2>1, <2>2, <2>3 DEF flow
<1>8. CASE Crash(s)
  <2>1. /\ stage[s] \in {"serving", "draining"}
        /\ stage' = [stage EXCEPT ![s] = "failed"]
        /\ finishing' = [q \in Requests |-> finishing[q] /\ s # "persistence"]
        /\ kept' = [kept EXCEPT ![s] = 0]
        /\ UNCHANGED <<opened, cut, stack, reply, gone, refused>>
    BY <1>8 DEF Crash
  <2>2. \A q \in Requests : finishing'[q] <=> finishing[q] /\ s # "persistence"
    BY <2>1
  <2> QED BY <1>6, <2>1, <2>2
<1>9. CASE Exit(s)
  <2>1. /\ stage[s] = "draining" /\ stage' = [stage EXCEPT ![s] = "exited"]
        /\ Drained(s)
        /\ cut' = [cut EXCEPT ![s] = \E q \in Requests : LeftOver(s, q)]
        /\ finishing' = [q \in Requests |-> finishing[q] /\ s # "persistence"]
        /\ UNCHANGED <<opened, stack, reply, gone, refused, kept>>
    BY <1>9 DEF Exit, Moves
  <2>2. /\ ~Dead(s) /\ Dead(s)' /\ \A r \in Services : r # s => stage'[r] = stage[r]
        /\ stage' \in [Services -> {"booting", "serving", "draining", "exited",
                                    "failed"}]
        /\ \A q \in Requests : finishing'[q] <=> finishing[q] /\ s # "persistence"
    BY <1>1, <2>1 DEF Dead, Types
  <2>3. work' = [c \in Conns |->
                   IF work[c][2] = s THEN <<"free", "none">>
                   ELSE IF c \in CalledBy(s) /\ work[c][1] = "busy"
                          THEN <<"abandoned", work[c][2]>>
                          ELSE work[c]]
    BY <2>1, <2>2, DeathWork
  <2>4. CalledBy(s) \in SUBSET Conns
    BY DEF CalledBy
  <2>5. \A c \in Conns : work[c] # <<"busy", s>>
    BY <2>1, DrainedWork
  <2>6. cut' = [cut EXCEPT ![s] = \E c \in Conns : work[c][2] = s]
    <3>1. (\E q \in Requests : LeftOver(s, q)) = (\E c \in Conns : work[c][2] = s)
      BY <2>2, LeftOverWork
    <3> QED BY <2>1, <3>1, Zenon
  <2>7. Life!Exit(s)
    BY <2>1, <2>3, <2>4, <2>5, <2>6 DEF Drained, Life!Exit, Life!Moves, Life!Free, work
  <2> QED BY <2>7 DEF Life!Next
<1> QED BY <1>3, <1>4, <1>5, <1>7, <1>8, <1>9

\* RequestFlow implements Lifecycle, for any number of requests.
THEOREM KeepsToLifecycle == Spec => ImplementsLifecycle
<1>1. Inv /\ Kept /\ [Next]_vars => [Life!Next]_(Life!vars)
  <2> SUFFICES ASSUME Inv, Kept, [Next]_vars PROVE [Life!Next]_(Life!vars)
    OBVIOUS
  <2>1. CASE UNCHANGED vars
    BY <2>1 DEF vars, Life!vars, WorkOf, Depth, At, Dead, Unwanted
  <2>2. ASSUME NEW q \in Requests, Step(q) PROVE [Life!Next]_(Life!vars)
    BY <2>2, LifeStep
  <2>3. ASSUME NEW q \in Requests,
               \/ \E route \in Entries : Begin(q, route)
               \/ Receive(q) \/ HangUp(q) \/ Finish(q)
        PROVE  [Life!Next]_(Life!vars)
    BY <2>3, LifeClient
  <2>4. ASSUME NEW s \in Services,
               \/ Open(s) \/ Listen(s) \/ BootFails(s) \/ Stop(s) \/ Exit(s)
               \/ Crash(s)
        PROVE  [Life!Next]_(Life!vars)
    BY <2>4, LifeService
  <2>5. ASSUME NEW s \in Services, CloseKept(s) PROVE [Life!Next]_(Life!vars)
    <3>1. work' = work
      BY <2>5 DEF CloseKept, flow, work, WorkOf, Depth, At, Dead, Unwanted
    <3>2. Life!Close(s)
      BY <2>5, <3>1 DEF CloseKept, Life!Close, work
    <3> QED BY <3>2 DEF Life!Next
  <2> QED BY <2>1, <2>2, <2>3, <2>4, <2>5 DEF Next
<1> QED BY <1>1, LifeInit, InvHolds, KeptHolds, PTL DEF Spec, ImplementsLifecycle, Life!Spec
===============================================================================
