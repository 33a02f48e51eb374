-------------------------- MODULE MCIdempotentCreate --------------------------
(* Small instances of IdempotentCreate for TLC.                            *)
EXTENDS IdempotentCreateProofs, TLC
CONSTANTS a1, a2, a3, ka, i1, i2, i3

MCRequests == {a1, a2, a3}

\* Three repetitions of one request, and one request per connection.
MCSameKey == [r \in MCRequests |-> ka]
MCSeparate == a1 :> i1 @@ a2 :> i2 @@ a3 :> i3

\* All requests in one process.
MCShared == [r \in MCRequests |-> i1]
===============================================================================
