------------------------------- MODULE UrlStore -------------------------------
(***************************************************************************)
(* What the URL shortener promises its clients, without saying how: once a *)
(* short key has been handed out for a URL, the key is bound to that URL   *)
(* for good, and whoever asks for it afterwards is sent to that URL or is  *)
(* told that the service failed; it is never told that the key is unknown  *)
(* and is never sent elsewhere.  WriteThrough implements this module.      *)
(***************************************************************************)
CONSTANTS
  Keys,       \* short keys
  Urls,       \* original URLs
  Readers,    \* slots for requests for a redirect
  NoKey,      \* no key
  NoUrl,      \* no URL
  NotFound,   \* the 404 answer
  Failed      \* any other error answer

VARIABLES
  published,  \* published[k]: the URL whose creator was answered with key k
  wants,      \* wants[r]: the key r is waiting for, or NoKey
  due,        \* due[r]: what had been published under wants[r] when r asked
  answer      \* answer[r]: the last answer r got, or NoUrl

vars == <<published, wants, due, answer>>

Answers == Urls \cup {NotFound, Failed}

Init ==
  /\ published = [k \in Keys |-> NoUrl]
  /\ wants = [r \in Readers |-> NoKey]
  /\ due = [r \in Readers |-> NoUrl]
  /\ answer = [r \in Readers |-> NoUrl]

\* A creator is told its key.
Publish(k, u) ==
  /\ published[k] = NoUrl
  /\ published' = [published EXCEPT ![k] = u]
  /\ UNCHANGED <<wants, due, answer>>

Ask(r, k) ==
  /\ wants[r] = NoKey
  /\ wants' = [wants EXCEPT ![r] = k]
  /\ due' = [due EXCEPT ![r] = published[k]]
  /\ answer' = [answer EXCEPT ![r] = NoUrl]
  /\ UNCHANGED published

\* A question about a published key is answered by its URL or by a failure.
Reply(r, a) ==
  /\ wants[r] # NoKey
  /\ due[r] # NoUrl => a \in {due[r], Failed}
  /\ wants' = [wants EXCEPT ![r] = NoKey]
  /\ answer' = [answer EXCEPT ![r] = a]
  /\ UNCHANGED <<published, due>>

Next ==
  \/ \E k \in Keys, u \in Urls : Publish(k, u)
  \/ \E r \in Readers, k \in Keys : Ask(r, k)
  \/ \E r \in Readers, a \in Answers : Reply(r, a)

Spec == Init /\ [][Next]_vars
===============================================================================
