------------------------------- MODULE Lifecycle -------------------------------
(***************************************************************************)
(* What the processes of the three services promise, whatever their        *)
(* requests do: a service takes connections only after it has opened its   *)
(* resources and before it is told to stop, takes requests then only on    *)
(* connections that were busy, and exits in order only when none of its    *)
(* clients waits any more and no such connection is left.  RequestFlow     *)
(* implements this module.                                                 *)
(***************************************************************************)
EXTENDS Integers

CONSTANTS
  Conns,     \* requests that are served; one is used again when it is free
  Services,
  Boot(_)    \* Boot(s): how many resources s opens before it listens

VARIABLES
  stage,     \* stage[s]: booting, serving, draining (told to stop), exited
             \* (in order), failed
  opened,    \* opened[s]: how many of its resources s has opened
  work,      \* work[c]: what is done for request c, and by which service
  cut,       \* history: cut[s]: s has exited in order with work unfinished
  kept       \* kept[s]: connections of s that were busy when it was told to
             \* stop, and are open and idle now

vars == <<stage, opened, work, cut, kept>>

Free == <<"free", "none">>

\* Work somebody waits for, work whose client has gone, and what is left to
\* do after the response.
Work == {Free} \cup ({"busy", "abandoned", "finishing"} \X Services)

Init ==
  /\ stage = [s \in Services |-> "booting"]
  /\ opened = [s \in Services |-> 0]
  /\ work = [c \in Conns |-> Free]
  /\ cut = [s \in Services |-> FALSE]
  /\ kept = [s \in Services |-> 0]

Moves(s, from, to) == stage[s] = from /\ stage' = [stage EXCEPT ![s] = to]

Open(s) ==
  /\ stage[s] = "booting" /\ opened[s] < Boot(s)
  /\ opened' = [opened EXCEPT ![s] = @ + 1]
  /\ UNCHANGED <<stage, work, cut, kept>>

Listen(s) ==
  /\ opened[s] = Boot(s)
  /\ Moves(s, "booting", "serving")
  /\ UNCHANGED <<opened, work, cut, kept>>

Stop(s) ==
  /\ Moves(s, "serving", "draining")
  /\ UNCHANGED <<opened, work, cut, kept>>

\* The process fails to start, or dies: its work is gone, and whoever was
\* waited for by that work has lost a client.
Fail(s) ==
  /\ stage[s] \notin {"exited", "failed"}
  /\ stage' = [stage EXCEPT ![s] = "failed"]
  /\ \E L \in SUBSET Conns :
       work' = [c \in Conns |->
                  IF work[c][2] = s THEN Free
                  ELSE IF c \in L /\ work[c][1] = "busy"
                         THEN <<"abandoned", work[c][2]>>
                         ELSE work[c]]
  /\ kept' = [kept EXCEPT ![s] = 0]
  /\ UNCHANGED <<opened, cut>>

Exit(s) ==
  /\ Moves(s, "draining", "exited")
  /\ kept[s] = 0
  /\ \A c \in Conns : work[c] # <<"busy", s>>
  /\ \E L \in SUBSET Conns :
       work' = [c \in Conns |->
                  IF work[c][2] = s THEN Free
                  ELSE IF c \in L /\ work[c][1] = "busy"
                         THEN <<"abandoned", work[c][2]>>
                         ELSE work[c]]
  /\ cut' = [cut EXCEPT ![s] = \E c \in Conns : work[c][2] = s]
  /\ UNCHANGED <<opened, kept>>

\* A request comes on a new connection, or on one that has been kept.
Accept(c, s) ==
  /\ work[c] = Free
  /\ work' = [work EXCEPT ![c] = <<"busy", s>>]
  /\ \/ stage[s] = "serving" /\ UNCHANGED kept
     \/ /\ stage[s] = "draining" /\ kept[s] > 0
        /\ kept' = [kept EXCEPT ![s] = @ - 1]
  /\ UNCHANGED <<stage, opened, cut>>

\* The response ends the work, or leaves a 'finish' listener something to do.
\* A service that drains keeps the connection.
Respond(c) ==
  /\ work[c][1] = "busy"
  /\ \/ work' = [work EXCEPT ![c] = Free]
     \/ work' = [work EXCEPT ![c] = <<"finishing", work[c][2]>>]
  /\ LET s == work[c][2]
     IN  kept' = IF stage[s] = "draining" THEN [kept EXCEPT ![s] = @ + 1]
                                         ELSE kept
  /\ UNCHANGED <<stage, opened, cut>>

\* A connection that was kept ends.
Close(s) ==
  /\ kept[s] > 0
  /\ kept' = [kept EXCEPT ![s] = @ - 1]
  /\ UNCHANGED <<stage, opened, work, cut>>

Abandon(c) ==
  /\ work[c][1] = "busy"
  /\ work' = [work EXCEPT ![c] = <<"abandoned", work[c][2]>>]
  /\ UNCHANGED <<stage, opened, cut, kept>>

Settle(c) ==
  /\ work[c][1] \in {"abandoned", "finishing"}
  /\ work' = [work EXCEPT ![c] = Free]
  /\ UNCHANGED <<stage, opened, cut, kept>>

Next ==
  \/ \E s \in Services :
       Open(s) \/ Listen(s) \/ Stop(s) \/ Fail(s) \/ Exit(s) \/ Close(s)
  \/ \E c \in Conns :
       \/ Respond(c) \/ Abandon(c) \/ Settle(c)
       \/ \E s \in Services : Accept(c, s)

Spec == Init /\ [][Next]_vars
===============================================================================
