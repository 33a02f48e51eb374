---------------------------- MODULE MCServiceTokens ----------------------------
(* Small instances of ServiceTokens for TLC.                               *)
EXTENDS ServiceTokensProofs, TLC
CONSTANTS c1, c2, redirect, persistence, v1, v2

\* Redirects that miss the cache at the same time.
MCClientOf == [c \in Calls |-> redirect]
MCServerOf == [c \in Calls |-> persistence]

\* AUTH_ALLOWED_CALLERS by default.
MCAllowedCallers == redirect :> {persistence} @@ persistence :> {redirect}

\* The key id is changed with the third key pair, but forgotten with the second.
MCKidOf == <<v1, v1, v2>>
===============================================================================
