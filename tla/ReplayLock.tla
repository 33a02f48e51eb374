------------------------------ MODULE ReplayLock ------------------------------
(***************************************************************************)
(* What idempotent creation promises, without saying how: a request enters *)
(* at once and only when there is room for its key; room that is lost with *)
(* a request comes back only when the lock of the key, held by nobody, is  *)
(* forgotten; a request makes at most one result, and none if a result of  *)
(* its key was stored when it came; a result is stored after its request   *)
(* has left.  IdempotentCreate implements this module.                     *)
(***************************************************************************)
EXTENDS Integers, FiniteSets

CONSTANTS
  Requests,
  Keys,
  KeyOf,   \* KeyOf[r]: the key of request r
  Room     \* how many requests of one key may be inside at a time

VARIABLES
  phase,   \* phase[r]: where r is
  made,    \* made[r]: r has made a result
  due,     \* due[r]: a result of r's key was stored when r came
  lost,    \* lost[k]: the room for key k that nobody gives back
  stored   \* stored[k]: a result of key k is stored

vars == <<phase, made, due, lost, stored>>

Init ==
  /\ phase = [r \in Requests |-> "new"]
  /\ made = [r \in Requests |-> FALSE]
  /\ due = [r \in Requests |-> FALSE]
  /\ lost = [k \in Keys |-> 0]
  /\ stored = [k \in Keys |-> FALSE]

Goes(r, from, to) == phase[r] = from /\ phase' = [phase EXCEPT ![r] = to]

Inside(k) == {r \in Requests : KeyOf[r] = k /\ phase[r] = "inside"}
HasRoom(k) == Cardinality(Inside(k)) + lost[k] < Room

Lose(k) == lost' = [lost EXCEPT ![k] = @ + 1]

Come(r) ==
  /\ Goes(r, "new", "waiting")
  /\ due' = [due EXCEPT ![r] = stored[KeyOf[r]]]
  /\ UNCHANGED <<made, lost, stored>>

Enter(r) ==
  /\ Goes(r, "waiting", "inside")
  /\ HasRoom(KeyOf[r])
  /\ UNCHANGED <<made, due, lost, stored>>

\* A request gives up, and may have taken room without knowing it.
GiveUp(r) ==
  /\ Goes(r, "waiting", "gone")
  /\ \/ HasRoom(KeyOf[r]) /\ Lose(KeyOf[r])
     \/ UNCHANGED lost
  /\ UNCHANGED <<made, due, stored>>

Make(r) ==
  /\ phase[r] = "inside" /\ ~made[r] /\ ~due[r]
  /\ made' = [made EXCEPT ![r] = TRUE]
  /\ UNCHANGED <<phase, due, lost, stored>>

Leave(r) ==
  /\ Goes(r, "inside", IF made[r] THEN "storing" ELSE "gone")
  /\ UNCHANGED <<made, due, lost, stored>>

Store(r) ==
  /\ Goes(r, "storing", "gone")
  /\ stored' = [stored EXCEPT ![KeyOf[r]] = TRUE]
  /\ UNCHANGED <<made, due, lost>>

\* A request is lost inside, or before its result is stored.
Die(r) ==
  /\ \/ Goes(r, "inside", "gone") /\ Lose(KeyOf[r])
     \/ Goes(r, "storing", "gone") /\ UNCHANGED lost
  /\ UNCHANGED <<made, due, stored>>

Forget(k) ==
  /\ Inside(k) = {}
  /\ lost' = [lost EXCEPT ![k] = 0]
  /\ UNCHANGED <<phase, made, due, stored>>

Next ==
  \/ \E r \in Requests :
       \/ Come(r) \/ Enter(r) \/ GiveUp(r) \/ Make(r) \/ Leave(r) \/ Store(r)
       \/ Die(r)
  \/ \E k \in Keys : Forget(k)

Spec == Init /\ [][Next]_vars
===============================================================================
