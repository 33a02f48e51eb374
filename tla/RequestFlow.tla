------------------------------ MODULE RequestFlow ------------------------------
(***************************************************************************)
(* The three services together: how a request runs through the middlewares *)
(* and handlers of its route, how it calls routes of other services and    *)
(* waits for them, how the caller maps their answers, and how the server   *)
(* processes boot, stop and die meanwhile.                                 *)
(*                                                                         *)
(* What a stage decides (whether a URL is stored, a token is valid or a    *)
(* limit is reached) is left open here; the other modules model it, and    *)
(* RedirectGate how long a request waits in the gate.  Calls have no       *)
(* timeout, and nothing is called again.                                   *)
(*                                                                         *)
(* No action uses an operator marked "A slip": it is a plausible mistake   *)
(* in the definition that follows it, kept to show what would notice it.   *)
(***************************************************************************)
EXTENDS Integers, Sequences

CONSTANTS
  Requests,   \* slots for requests of clients; a slot is used again
  Entries,    \* the routes clients use
  Env         \* crash: a process may die; hangup: a client may not wait

Services == {"redirect", "persistence", "issuer"}

(* What the services open before they listen, in the order of their        *)
(* compositions.                                                           *)

PersistenceResources == <<"database", "redis", "telemetry">>
RedirectResources == <<"telemetry", "redis">>
IssuerResources == <<"telemetry">>

Resources(s) == CASE s = "persistence" -> PersistenceResources
                  [] s = "redirect"    -> RedirectResources
                  [] OTHER             -> IssuerResources

Boot(s) == Len(Resources(s))

\* The settings without a default: where the others are, and the key pair.
PersistenceSettings == {"database", "redis", "redirect", "issuer"}
RedirectSettings == {"redis", "persistence", "issuer"}
IssuerSettings == {"issuerName", "privateKey", "publicKey"}

Settings(s) == CASE s = "persistence" -> PersistenceSettings
                 [] s = "redirect"    -> RedirectSettings
                 [] OTHER             -> IssuerSettings

(* The stages a request runs through: the answers a stage may give itself  *)
(* instead of passing the request on, whether it may throw, which the      *)
(* error handler answers with a 500, and the route of another service it   *)
(* calls.  A call may be spared when its answer is cached.                 *)

Plain(answers, throws) ==
  [answers |-> answers, throws |-> throws, calls |-> "none", spared |-> TRUE]

Caller(answers, throws, route) ==
  [answers |-> answers, throws |-> throws, calls |-> route, spared |-> FALSE]

Spared(stg) == [stg EXCEPT !.spared = TRUE]

ReceiveStage == Plain({}, TRUE)        \* express.json and withObservability
Checked == Plain({400}, FALSE)         \* withZodValidation
CodeStage == Plain({}, FALSE)          \* any path segment is a short code
KeyParamStage == Checked
WriteStage == Checked
PayloadStage == Checked
HeadersStage == Checked
ClaimsStage == Checked
ScopeStage == Plain({}, FALSE)         \* withScopedService
GateStage == Plain({429}, FALSE)       \* withConcurrentLimiting
LimitStage == Plain({429}, TRUE)       \* withMovingWindowRateLimiting
CacheStage == Plain({302}, TRUE)       \* a hit is the answer
FillStage == Plain({}, TRUE)
TokenStage == Spared(Caller({}, TRUE, "token"))
LookupStage == Caller({}, TRUE, "lookup")
PopulateStage == Caller({}, TRUE, "populate")
IdempotentStage == Plain({201}, TRUE)  \* a stored result is the answer
InsertStage == Plain({}, TRUE)
FindStage == Plain({404}, TRUE)
SignStage == Plain({}, TRUE)
ReadStage == Plain({}, TRUE)           \* the issuer's public key
ReportStage == Plain({}, FALSE)        \* healthCheck

\* withServiceAuthentication looks for the issuer's key, and for a newer one
\* if the token does not fit; then it judges the caller.
KeyStage == Spared(Caller({401}, FALSE, "publicKey"))
RekeyStage == Spared(Caller({401, 403}, FALSE, "publicKey"))

Stages ==
  [receive |-> ReceiveStage, code |-> CodeStage, keyParam |-> KeyParamStage,
   write |-> WriteStage, payload |-> PayloadStage, headers |-> HeadersStage,
   claims |-> ClaimsStage, scope |-> ScopeStage, gate |-> GateStage,
   limit |-> LimitStage, cache |-> CacheStage, fill |-> FillStage,
   token |-> TokenStage, lookup |-> LookupStage, populate |-> PopulateStage,
   idempotent |-> IdempotentStage, insert |-> InsertStage,
   find |-> FindStage, sign |-> SignStage, read |-> ReadStage,
   report |-> ReportStage, key |-> KeyStage, rekey |-> RekeyStage]

StageNames == DOMAIN Stages

(* The routes of the services, and the status at the end of each.          *)

RedirectRoutes ==
  [redirect |-> <<"receive", "code", "gate", "cache", "token", "lookup",
                  "fill">>,
   populate |-> <<"receive", "key", "rekey", "write", "fill">>]

PersistenceRoutes ==
  [lookup |-> <<"receive", "limit", "key", "rekey", "keyParam", "scope",
                "find">>,
   create |-> <<"receive", "limit", "key", "rekey", "payload", "headers",
                "idempotent", "scope", "insert", "token", "populate">>,
   health |-> <<"receive", "limit", "report">>]

IssuerRoutes ==
  [token     |-> <<"receive", "claims", "sign">>,
   publicKey |-> <<"receive", "read">>]

\* The service whose base URL a client of the route is made with.
ServiceOf(route) ==
  CASE route \in DOMAIN RedirectRoutes    -> "redirect"
    [] route \in DOMAIN PersistenceRoutes -> "persistence"
    [] OTHER                              -> "issuer"

Program(route) ==
  CASE ServiceOf(route) = "redirect"    -> RedirectRoutes[route]
    [] ServiceOf(route) = "persistence" -> PersistenceRoutes[route]
    [] OTHER                            -> IssuerRoutes[route]

Routes == DOMAIN RedirectRoutes \cup DOMAIN PersistenceRoutes
            \cup DOMAIN IssuerRoutes

ASSUME EntriesAssumption == Entries \subseteq Routes

Success(route) ==
  CASE route = "redirect" -> 302 [] route = "create" -> 201 [] OTHER -> 200

None == 0
Lost == -1       \* the connection was refused or has broken
Statuses == {200, 201, 302, 400, 401, 403, 404, 429, 500}

\* A slip: the redirect controller does not look at the status of the error.
FailedCallAsMissing(route, stg, status) ==
  CASE stg \in {"key", "rekey"}                    -> 401
    [] route = "redirect"                          -> 404
    [] OTHER                                       -> 500

\* What a caller answers when a call has not brought a 200.
FailedCall(route, stg, status) ==
  CASE stg \in {"key", "rekey"}                    -> 401
    [] route = "redirect" /\ status = 404          -> 404
    [] OTHER                                       -> 500

VARIABLES
  stage, opened, cut,   \* as in Lifecycle
  stack,      \* stack[q]: the handlers at work for q, each called by the one
              \* before it: their routes and positions in its Program
  reply,      \* reply[q]: what the last handler of q, or its client, has just
              \* got from the one it waits for
  gone,       \* gone[q]: the client of q has hung up
  finishing,  \* finishing[q]: the 'finish' listener of a creation is at work
  refused,    \* history: the stage that refused q last, or "outage" when it
              \* could not ask the issuer, and its depth
  kept        \* kept[s]: connections of s that were busy when it was told to
              \* stop, and are open after the answer; who holds them is left
              \* open

flow == <<stack, reply, gone, finishing, refused>>
vars == <<stage, opened, cut, stack, reply, gone, finishing, refused, kept>>

MaxDepth == 3     \* of handlers that wait for each other
MaxLength == 11   \* of a route

\* The types of the variables; no call nests deeper than the routes tell.
TypeOK ==
  /\ stage \in [Services -> {"booting", "serving", "draining", "exited",
                             "failed"}]
  /\ opened \in [Services -> 0..3]
  /\ cut \in [Services -> BOOLEAN]
  /\ stack \in [Requests -> Seq([route : Routes, pos : 1..MaxLength])]
  /\ \A q \in Requests :
       /\ Len(stack[q]) <= MaxDepth
       /\ \A i \in DOMAIN stack[q] :
            stack[q][i].pos <= Len(Program(stack[q][i].route))
  /\ reply \in [Requests -> Statuses \cup {None, Lost}]
  /\ gone \in [Requests -> BOOLEAN]
  /\ finishing \in [Requests -> BOOLEAN]
  /\ refused \in [Requests -> [by : StageNames \cup {"none", "outage"},
                               depth : 0..MaxDepth]]
  /\ kept \in [Services -> Nat]

NotRefused == [by |-> "none", depth |-> 0]

Init ==
  /\ stage = [s \in Services |-> "booting"]
  /\ opened = [s \in Services |-> 0]
  /\ cut = [s \in Services |-> FALSE]
  /\ stack = [q \in Requests |-> <<>>]
  /\ reply = [q \in Requests |-> None]
  /\ gone = [q \in Requests |-> FALSE]
  /\ finishing = [q \in Requests |-> FALSE]
  /\ refused = [q \in Requests |-> NotRefused]
  /\ kept = [s \in Services |-> 0]

-------------------------------------------------------------------------------
(* The handlers.                                                           *)

Depth(q) == Len(stack[q])
Top(q) == stack[q][Depth(q)]
Stage(q) == Program(Top(q).route)[Top(q).pos]
At(q, i) == ServiceOf(stack[q][i].route)
Dead(s) == stage[s] \in {"exited", "failed"}

\* Nobody waits for handler i of q: the process of its caller is gone, or the
\* client is.
Unwanted(q, i) == IF i = 1 THEN gone[q] ELSE Dead(At(q, i - 1))

\* The last handler of q is at work, and does not wait for a call.
Runs(q) == Depth(q) > 0 /\ ~Dead(At(q, Depth(q))) /\ reply[q] = None

Front(seq) == SubSeq(seq, 1, Len(seq) - 1)

\* The request waits for a slot of the gate, which only another request can
\* give up: RedirectGate models when it gets one, and that it may never do.
Queues(q) == Runs(q) /\ Stage(q) = "gate"

\* A slip: a service takes connections until it exits.
AcceptsUntilExit(s) == stage[s] \in {"serving", "draining"}

\* A new connection is taken.
Accepts(s) == stage[s] = "serving"

\* A request comes on a new connection, or on one that was busy when the
\* service was told to stop: server.close only ends the idle ones.
Takes(s) ==
  \/ Accepts(s) /\ UNCHANGED kept
  \/ /\ stage[s] = "draining" /\ kept[s] > 0
     /\ kept' = [kept EXCEPT ![s] = @ - 1]

\* The connection of the last handler stays open when it has answered.
Keeps(q) ==
  LET s == At(q, Depth(q))
  IN  kept' = IF stage[s] = "draining" /\ ~Unwanted(q, Depth(q))
                THEN [kept EXCEPT ![s] = @ + 1] ELSE kept

NewFrame(route) == [route |-> route, pos |-> 1]

\* A client sends a request.
Begin(q, route) ==
  /\ stack[q] = <<>> /\ reply[q] = None /\ ~finishing[q]
  /\ Takes(ServiceOf(route))
  /\ stack' = [stack EXCEPT ![q] = <<NewFrame(route)>>]
  /\ UNCHANGED <<stage, opened, cut, reply, gone, finishing, refused>>

\* withIdempotentResults has passed the creation on, and listens to 'finish'.
Listens(q) == \E i \in 1..(Top(q).pos - 1) :
                 Program(Top(q).route)[i] = "idempotent"

\* The last handler ends with a status, which its caller or client gets if
\* there still is one.
Answer(q, status) ==
  /\ stack' = [stack EXCEPT ![q] = Front(@)]
  /\ reply' = [reply EXCEPT ![q] =
                 IF Unwanted(q, Depth(q)) THEN None ELSE status]
  /\ gone' = [gone EXCEPT ![q] = @ /\ Depth(q) > 1]
  /\ finishing' = [finishing EXCEPT ![q] =
                     Depth(q) = 1 /\ Listens(q) /\ ~gone[q]]
  /\ Keeps(q)

\* A slip: the end of the route is missed by one.
AtEndLate(q) == Top(q).pos > Len(Program(Top(q).route))

AtEnd(q) == Top(q).pos = Len(Program(Top(q).route))

Advance(q) ==
  IF AtEnd(q)
    THEN Answer(q, Success(Top(q).route))
    ELSE /\ stack' = [stack EXCEPT ![q][Depth(q)].pos = @ + 1]
         /\ reply' = [reply EXCEPT ![q] = None]
         /\ UNCHANGED <<gone, finishing, kept>>

\* The stage at work answers itself.
Refused(q) ==
  refused' = [refused EXCEPT ![q] = [by |-> Stage(q), depth |-> Depth(q)]]

\* The stage at work answers 401 although it has judged nobody: the issuer has
\* not given it a key.
Outage(q) ==
  refused' = [refused EXCEPT ![q] = [by |-> "outage", depth |-> Depth(q)]]

Pass(q) ==
  /\ Runs(q)
  /\ Stages[Stage(q)].spared
  /\ Advance(q)
  /\ UNCHANGED <<stage, opened, cut, refused>>

Refuse(q) ==
  /\ Runs(q)
  /\ \E status \in Stages[Stage(q)].answers : Answer(q, status)
  /\ Refused(q)
  /\ UNCHANGED <<stage, opened, cut>>

Throw(q) ==
  /\ Runs(q)
  /\ Stages[Stage(q)].throws
  /\ Answer(q, 500)
  /\ UNCHANGED <<stage, opened, cut, refused>>

\* A caller has the base URL of the service from its configuration.
Knows(s, callee) == callee \in Settings(s)

\* fetch rejects when nobody listens, and the span around it hands that on.
ReplyToRefused == Lost

Call(q) ==
  /\ Runs(q)
  /\ Stages[Stage(q)].calls # "none"
  /\ LET route == Stages[Stage(q)].calls
         callee == ServiceOf(route)
         known == Knows(At(q, Depth(q)), callee)
     IN  \/ /\ known /\ Takes(callee)
            /\ stack' = [stack EXCEPT ![q] = Append(@, NewFrame(route))]
            /\ UNCHANGED reply
         \/ /\ ~known \/ ~Accepts(callee)
            /\ reply' = [reply EXCEPT ![q] = ReplyToRefused]
            /\ UNCHANGED <<stack, kept>>
  /\ UNCHANGED <<stage, opened, cut, gone, finishing, refused>>

\* A slip: a call that has failed is made again.
ReturnOrRetry(q) ==
  /\ Depth(q) > 0 /\ ~Dead(At(q, Depth(q))) /\ reply[q] # None
  /\ IF reply[q] = 200
       THEN Advance(q)
       ELSE /\ reply' = [reply EXCEPT ![q] = None]
            /\ UNCHANGED <<stack, gone, finishing, kept>>
  /\ UNCHANGED <<stage, opened, cut, refused>>

\* The caller goes on with the answer it got.
Return(q) ==
  /\ Depth(q) > 0 /\ ~Dead(At(q, Depth(q))) /\ reply[q] # None
  /\ IF reply[q] = 200
       THEN Advance(q) /\ UNCHANGED refused
       ELSE LET status == FailedCall(Top(q).route, Stage(q), reply[q])
            IN  /\ Answer(q, status)
                /\ IF status = 401 THEN Outage(q) ELSE UNCHANGED refused
  /\ UNCHANGED <<stage, opened, cut>>

\* A handler whose process has gone answers nothing: its connection breaks.
Break(q) ==
  /\ Depth(q) > 0 /\ Dead(At(q, Depth(q)))
  /\ stack' = [stack EXCEPT ![q] = Front(@)]
  /\ reply' = [reply EXCEPT ![q] =
                 IF Unwanted(q, Depth(q)) THEN None ELSE Lost]
  /\ gone' = [gone EXCEPT ![q] = @ /\ Depth(q) > 1]
  /\ UNCHANGED <<stage, opened, cut, finishing, refused, kept>>

\* The client gets its answer, or learns that the connection broke.
Receive(q) ==
  /\ stack[q] = <<>> /\ reply[q] # None
  /\ reply' = [reply EXCEPT ![q] = None]
  /\ refused' = [refused EXCEPT ![q] = NotRefused]
  /\ UNCHANGED <<stage, opened, cut, stack, gone, finishing, kept>>

HangUp(q) ==
  /\ "hangup" \in Env
  /\ stack[q] # <<>> /\ ~gone[q]
  /\ gone' = [gone EXCEPT ![q] = TRUE]
  /\ UNCHANGED <<stage, opened, cut, stack, reply, finishing, refused, kept>>

\* The lock is released and the result stored.
Finish(q) ==
  /\ finishing[q]
  /\ finishing' = [finishing EXCEPT ![q] = FALSE]
  /\ UNCHANGED <<stage, opened, cut, stack, reply, gone, refused, kept>>

-------------------------------------------------------------------------------
(* The server processes.                                                   *)

Moves(s, from, to) == stage[s] = from /\ stage' = [stage EXCEPT ![s] = to]

\* The next resource is connected or started.
Open(s) ==
  /\ stage[s] = "booting" /\ opened[s] < Boot(s)
  /\ opened' = [opened EXCEPT ![s] = @ + 1]
  /\ UNCHANGED <<stage, cut, kept, flow>>

Listen(s) ==
  /\ opened[s] = Boot(s)
  /\ Moves(s, "booting", "serving")
  /\ UNCHANGED <<opened, cut, kept, flow>>

\* The configuration is checked before anything is opened.
Misconfigured(s) == Settings(s) # {} /\ opened[s] = 0

\* Telemetry exports to the console or to whatever collector there may be, and
\* nothing waits for it.
StartsAnyhow == {"telemetry"}

\* Nor does a Redis that is not there end a process: the client, which is
\* made without a strategy of its own, tries again for ever.
Retried == {"redis"}

CannotConnect(s) ==
  /\ opened[s] < Boot(s)
  /\ Resources(s)[opened[s] + 1] \notin StartsAnyhow \cup Retried

PortTaken(s) == opened[s] = Boot(s)

BootFails(s) ==
  /\ Misconfigured(s) \/ CannotConnect(s) \/ PortTaken(s)
  /\ Moves(s, "booting", "failed")
  /\ UNCHANGED <<opened, cut, kept, flow>>

\* SIGTERM or SIGINT: server.close stops the listening.  Further signals
\* only wait for the same 'close'.
Stop(s) ==
  /\ Moves(s, "serving", "draining")
  /\ UNCHANGED <<opened, cut, kept, flow>>

WaitsFor(s, q) == \E i \in DOMAIN stack[q] : At(q, i) = s /\ ~Unwanted(q, i)

\* A slip: only the requests of clients are waited for, not those of services.
DrainedOfClients(s) ==
  /\ kept[s] = 0
  /\ \A q \in Requests : Depth(q) > 0 => At(q, 1) # s \/ Unwanted(q, 1)

\* All connections have ended.
Drained(s) == kept[s] = 0 /\ \A q \in Requests : ~WaitsFor(s, q)

\* A connection that a draining service has kept open is idle for longer than
\* keepAliveTimeout, or its other end closes it.
CloseKept(s) ==
  /\ kept[s] > 0
  /\ kept' = [kept EXCEPT ![s] = @ - 1]
  /\ UNCHANGED <<stage, opened, cut, flow>>

\* What s does although no connection is left: handlers whose client hung up,
\* and 'finish' listeners, which only creations have.
LeftOver(s, q) ==
  \/ \E i \in DOMAIN stack[q] : At(q, i) = s
  \/ s = "persistence" /\ finishing[q]

\* 'close' starts the cleanup, and calls the callback that exits the process
\* as soon as the cleanup waits for the first time: what is left is lost.
Exit(s) ==
  /\ Moves(s, "draining", "exited")
  /\ Drained(s)
  /\ cut' = [cut EXCEPT ![s] = \E q \in Requests : LeftOver(s, q)]
  /\ finishing' = [q \in Requests |-> finishing[q] /\ s # "persistence"]
  /\ UNCHANGED <<opened, stack, reply, gone, refused, kept>>

Crash(s) ==
  /\ "crash" \in Env
  /\ stage[s] \in {"serving", "draining"}
  /\ stage' = [stage EXCEPT ![s] = "failed"]
  /\ finishing' = [q \in Requests |-> finishing[q] /\ s # "persistence"]
  /\ kept' = [kept EXCEPT ![s] = 0]
  /\ UNCHANGED <<opened, cut, stack, reply, gone, refused>>

\* What goes on for q once it has begun.
Step(q) ==
  Pass(q) \/ Refuse(q) \/ Throw(q) \/ Call(q) \/ Return(q) \/ Break(q)

Next ==
  \/ \E q \in Requests :
       \/ \E route \in Entries : Begin(q, route)
       \/ Step(q) \/ Receive(q) \/ HangUp(q) \/ Finish(q)
  \/ \E s \in Services :
       \/ Open(s) \/ Listen(s) \/ BootFails(s) \/ Stop(s) \/ CloseKept(s)
       \/ Exit(s) \/ Crash(s)

Spec == Init /\ [][Next]_vars

\* Every stage but the gate settles, every broken connection is noticed, idle
\* connections end, and a server with no connection left emits 'close'.
FairSpec ==
  /\ Spec
  /\ \A q \in Requests : WF_vars(Step(q) /\ ~Queues(q))
  /\ \A s \in Services : WF_vars(CloseKept(s)) /\ WF_vars(Exit(s))

-------------------------------------------------------------------------------
(* Properties.                                                             *)

\* The connections: one for each handler a request may need.
Conns == Requests \X (1..MaxDepth)

WorkOf(q, i) ==
  IF i > Depth(q)
    THEN IF i = 1 /\ finishing[q] THEN <<"finishing", "persistence">>
                                  ELSE <<"free", "none">>
    ELSE IF Dead(At(q, i)) THEN <<"free", "none">>
    ELSE <<IF Unwanted(q, i) THEN "abandoned" ELSE "busy", At(q, i)>>

Life == INSTANCE Lifecycle WITH work <- [c \in Conns |-> WorkOf(c[1], c[2])]

\* Whatever the requests do, each process keeps to the life of a service:
\* nested calls are taken only while it serves, and it exits in order only
\* when nobody waits for any handler of it, at whatever depth.
ImplementsLifecycle == Life!Spec

\* A handler that an orderly exit has cut off had lost its client before.
ExitDropsNobody ==
  \A q \in Requests : \A i \in DOMAIN stack[q] :
    stage[At(q, i)] = "exited" => Unwanted(q, i)

\* A client is told of missing URLs, missing rights or limits only by the
\* service it asked, not because a call that service made was refused; but a
\* 404 means that the persistence service did look the URL up in vain, and a
\* 401 may mean that the service asked could not reach the issuer.
AnswersAreOwn ==
  \A q \in Requests :
    stack[q] = <<>> /\ reply[q] \in {400, 401, 403, 404, 429} =>
      IF reply[q] = 404
        THEN refused[q].by = "find"
        ELSE /\ refused[q].depth = 1
             /\ refused[q].by = "outage" => reply[q] = 401

\* What is left of handler i of q, at most: two steps for each stage to come,
\* one less when it has called, has its reply or is dead.
Left(q, i) ==
  IF i > Depth(q) THEN 0
  ELSE 2 * (Len(Program(stack[q][i].route)) - stack[q][i].pos)
         + IF i < Depth(q) \/ reply[q] # None \/ Dead(At(q, i)) THEN 1 ELSE 2

\* What is left of q: a step of a handler outweighs all that those it calls
\* may do.
Weight == 2 * MaxLength + 1
StepsLeft(q) == Weight * Weight * Left(q, 1) + Weight * Left(q, 2) + Left(q, 3)

\* The steps of a request run out: whatever the other requests and the
\* processes do meanwhile, every step of it leaves less to do, however deep
\* calls nest and whichever of them fail, and nothing ever leaves more.
StepsRunOut ==
  [][\A q \in Requests : stack[q] # <<>> =>
       /\ StepsLeft(q)' <= StepsLeft(q)
       /\ <<stack[q], reply[q]>>' # <<stack[q], reply[q]>> =>
            StepsLeft(q)' < StepsLeft(q)]_vars

\* Every request ends, although calls have no timeout: with an answer, or
\* because its process is gone.  Only in the gate it may stay; once past it,
\* it ends, and that is what RedirectGate takes for granted of the handlers
\* that hold a slot.
EveryRequestEnds ==
  \A q \in Requests : stack[q] # <<>> ~> stack[q] = <<>> \/ Queues(q)

\* A client waits for a handler of s that waits in the gate.
Held(s) == \E q \in Requests : Queues(q) /\ WaitsFor(s, q)

\* A request comes on a connection that s has kept open.
Reuses(s) == kept'[s] < kept[s] /\ stack' # stack

\* A service that is told to stop does stop, unless requests keep coming on
\* connections it had before, or, in the redirect service alone, a client
\* waits in the gate.
DrainEnds ==
  \A s \in Services :
    <>[](stage[s] = "draining") =>
      (s = "redirect" /\ []<>Held(s)) \/ []<><<Reuses(s)>>_vars

\* An orderly exit leaves no work unfinished.  The code does not keep this:
\* the callback of server.close exits while 'finish' listeners are at work.
GracefulExit == \A s \in Services : ~cut[s]
===============================================================================
