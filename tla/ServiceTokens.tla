----------------------------- MODULE ServiceTokens -----------------------------
(***************************************************************************)
(* Authentication between the services.  A call is made with a token from  *)
(* the token cache of the calling service (issuer-token.service.ts), which *)
(* shares one request to the issuer among all callers that need a new one. *)
(* The called service verifies it with a public key from its key cache,    *)
(* which it refreshes from the issuer when a key id is unknown or a        *)
(* signature does not match (withServiceAuthentication.ts).  The issuer    *)
(* signs with the key pair it was started with; a restart may change it.   *)
(*                                                                         *)
(* The n-th key pair of the issuer is the number n.  KidOf[n], its key id, *)
(* is configured separately (ISSUER_KEY_ID, "v1" by default), so two key   *)
(* pairs may have the same id.  Env names what may happen:                 *)
(*   rotate   the issuer is restarted with a new key pair                  *)
(*   issuer   a request to the issuer fails                                *)
(*   restart  a service is restarted                                       *)
(*   retry    calls go through withRetryOnUnauthorized, as no route does   *)
(*            yet; without it, through getToken only                       *)
(* No action uses an operator marked "A slip": it is a plausible mistake   *)
(* in the definition that follows it, kept to show what would notice it.   *)
(***************************************************************************)
EXTENDS Integers

CONSTANTS
  Services,
  Calls,               \* slots for calls between services, used again
  ClientOf, ServerOf,  \* ClientOf[c] calls ServerOf[c]
  AllowedCallers,      \* AllowedCallers[s]: AUTH_ALLOWED_CALLERS; {} means all
  Kids, KidOf,         \* key ids; KidOf[n]: the id of the n-th key pair
  MaxKey,              \* bound: the number of key pairs
  MaxTime,             \* bound: the clock stops there
  ttlSeconds, refreshSkewSeconds,
  NoToken, NoCall,
  Env

KeyPairs == 1..MaxKey
NoKey == 0

ASSUME CallsAssumption ==
  /\ ClientOf \in [Calls -> Services]
  /\ ServerOf \in [Calls -> Services]
  /\ AllowedCallers \in [Services -> SUBSET Services]
  /\ NoCall \notin Calls
ASSUME KeysAssumption == MaxKey \in Nat \ {0} /\ KidOf \in [KeyPairs -> Kids]
ASSUME TimesAssumption ==
  /\ MaxTime \in Nat
  /\ ttlSeconds \in Nat \ {0}
  /\ refreshSkewSeconds \in Nat
ASSUME EnvAssumption == Env \subseteq {"rotate", "issuer", "restart", "retry"}

\* A signed token: the key pair and the exp claim.  No service changes one.
Token == [key : KeyPairs, exp : Nat]
ASSUME NoTokenAssumption == NoToken \notin Token

May(f) == f \in Env

VARIABLES
  now,          \* seconds; the services agree on the time
  issuerKey,    \* the key pair of the issuer
  rotated,      \* history: when issuerKey was put in place
  cachedToken,  \* cachedToken[s], its cachedExpiresAt included, or NoToken
  inFlight,     \* inFlight[s]: the call that made inFlightTokenRequest
  keyCache,     \* keyCache[s][k]: the key pair cached for key id k, or NoKey
  pc,           \* pc[c]: how far call c got
  token,        \* token[c]: the token c carries, or NoToken
  key,          \* key[c]: the public key c is verified with, or NoKey
  tried,        \* tried[c]: c is on its second attempt
  outcome,      \* outcome[c]: the answer to c, or "none"
  took          \* history: when c looked for a token, or when the request
                \* it shares was made

issuerVars == <<now, issuerKey, rotated>>
clientVars == <<cachedToken, inFlight, tried, took>>
serverVars == <<keyCache, key>>
vars == <<issuerVars, clientVars, serverVars, pc, token, outcome>>

\* waiting for a token; waiting for a public key; the service verifies
Asking == {"asking", "signed"}
Fetching == {"resolving", "resolved", "refreshing", "refreshed"}
Verifying == {"verifying", "rechecking"}

\* The answers: 2xx, 401 with the reason the service logs, 403, none.
Unauthorized == {"invalid_signature", "expired", "bad_claims"}
Outcomes == {"none", "ok", "forbidden", "failed"} \cup Unauthorized

\* The types of the variables; a call that is verified carries a token.
TypeOK ==
  /\ now \in Nat /\ rotated \in 0..now
  /\ issuerKey \in KeyPairs
  /\ cachedToken \in [Services -> Token \cup {NoToken}]
  /\ inFlight \in [Services -> Calls \cup {NoCall}]
  /\ keyCache \in [Services -> [Kids -> KeyPairs \cup {NoKey}]]
  /\ pc \in [Calls -> {"idle", "joined", "calling", "answered"}
                      \cup Asking \cup Fetching \cup Verifying]
  /\ token \in [Calls -> Token \cup {NoToken}]
  /\ key \in [Calls -> KeyPairs \cup {NoKey}]
  /\ tried \in [Calls -> BOOLEAN]
  /\ outcome \in [Calls -> Outcomes]
  /\ took \in [Calls -> Nat]
  /\ \A c \in Calls :
       /\ pc[c] \in {"signed", "calling"} \cup Fetching \cup Verifying =>
            token[c] \in Token
       /\ pc[c] \in {"resolved", "refreshed"} \cup Verifying =>
            key[c] \in KeyPairs

Init ==
  /\ now = 0
  /\ issuerKey = 1
  /\ rotated = 0
  /\ cachedToken = [s \in Services |-> NoToken]
  /\ inFlight = [s \in Services |-> NoCall]
  /\ keyCache = [s \in Services |-> [k \in Kids |-> NoKey]]
  /\ pc = [c \in Calls |-> "idle"]
  /\ token = [c \in Calls |-> NoToken]
  /\ key = [c \in Calls |-> NoKey]
  /\ tried = [c \in Calls |-> FALSE]
  /\ outcome = [c \in Calls |-> "none"]
  /\ took = [c \in Calls |-> 0]

-------------------------------------------------------------------------------
(* The calling service.                                                    *)

\* A slip: the skew is forgotten.
IsValidTokenUntilExpiry(t) == t # NoToken /\ t.exp - now >= 0

IsValidToken(t) == t # NoToken /\ t.exp - now > refreshSkewSeconds

\* A slip: the promise is not kept, so nobody can share it.
RequestedAlone(c) == UNCHANGED inFlight

Requested(c) == inFlight' = [inFlight EXCEPT ![ClientOf[c]] = c]

\* getToken up to its first await; t is the cached token at that moment.
GetToken(c, t) ==
  \/ /\ IsValidToken(t)
     /\ pc' = [pc EXCEPT ![c] = "calling"]
     /\ token' = [token EXCEPT ![c] = t]
     /\ took' = [took EXCEPT ![c] = now]
     /\ UNCHANGED inFlight
  \/ /\ ~IsValidToken(t)
     /\ inFlight[ClientOf[c]] # NoCall
     /\ pc' = [pc EXCEPT ![c] = "joined"]
     /\ token' = [token EXCEPT ![c] = NoToken]
     /\ took' = [took EXCEPT ![c] = took[inFlight[ClientOf[c]]]]
     /\ UNCHANGED inFlight
  \/ /\ ~IsValidToken(t)
     /\ inFlight[ClientOf[c]] = NoCall
     /\ pc' = [pc EXCEPT ![c] = "asking"]
     /\ Requested(c)
     /\ token' = [token EXCEPT ![c] = NoToken]
     /\ took' = [took EXCEPT ![c] = now]

Start(c) ==
  /\ pc[c] = "idle"
  /\ GetToken(c, cachedToken[ClientOf[c]])
  /\ UNCHANGED <<issuerVars, serverVars, cachedToken, tried, outcome>>

\* The calls that await the request of c: c and those that joined it.
Sharing(c) ==
  {c} \cup {d \in Calls : pc[d] = "joined" /\ ClientOf[d] = ClientOf[c]}

Settled(c) == inFlight' = [inFlight EXCEPT ![ClientOf[c]] = NoCall]

\* A slip: a call that joined keeps what it had.
ReceivedByOwner(c, d) == IF d = c THEN token[c] ELSE token[d]

\* What d receives when the request of c settles.
Received(c, d) == token[c]

\* The token arrives: it is cached, and everybody who awaits it calls.
TokenArrives(c) ==
  /\ pc[c] = "signed"
  /\ cachedToken' = [cachedToken EXCEPT ![ClientOf[c]] = token[c]]
  /\ Settled(c)
  /\ pc' = [d \in Calls |-> IF d \in Sharing(c) THEN "calling" ELSE pc[d]]
  /\ token' = [d \in Calls |->
                 IF d \in Sharing(c) THEN Received(c, d) ELSE token[d]]
  /\ UNCHANGED <<issuerVars, serverVars, tried, outcome, took>>

\* The request fails: everybody who awaits it fails.
TokenFails(c) ==
  /\ May("issuer")
  /\ pc[c] \in Asking
  /\ Settled(c)
  /\ pc' = [d \in Calls |-> IF d \in Sharing(c) THEN "answered" ELSE pc[d]]
  /\ outcome' = [d \in Calls |->
                   IF d \in Sharing(c) THEN "failed" ELSE outcome[d]]
  /\ UNCHANGED <<issuerVars, serverVars, cachedToken, tried, token, took>>

\* A slip: a second refusal is tried again, too.
RetriesAlways(c) == May("retry") /\ outcome[c] \in Unauthorized

Retries(c) == May("retry") /\ outcome[c] \in Unauthorized /\ ~tried[c]

\* A 401: clearToken, whoever's token is cached by now, and getToken again.
Retry(c) ==
  /\ pc[c] = "answered"
  /\ Retries(c)
  /\ cachedToken' = [cachedToken EXCEPT ![ClientOf[c]] = NoToken]
  /\ GetToken(c, NoToken)
  /\ tried' = [tried EXCEPT ![c] = TRUE]
  /\ outcome' = [outcome EXCEPT ![c] = "none"]
  /\ UNCHANGED <<issuerVars, serverVars>>

\* Any other answer is returned or thrown, and the slot is free again.
Return(c) ==
  /\ pc[c] = "answered"
  /\ ~Retries(c)
  /\ pc' = [pc EXCEPT ![c] = "idle"]
  /\ token' = [token EXCEPT ![c] = NoToken]
  /\ tried' = [tried EXCEPT ![c] = FALSE]
  /\ outcome' = [outcome EXCEPT ![c] = "none"]
  /\ took' = [took EXCEPT ![c] = 0]
  /\ UNCHANGED <<issuerVars, serverVars, cachedToken, inFlight>>

-------------------------------------------------------------------------------
(* The issuer.                                                             *)

\* issueToken.
Issued == [key |-> issuerKey, exp |-> now + ttlSeconds]

\* POST /auth/token.
Sign(c) ==
  /\ pc[c] = "asking"
  /\ token' = [token EXCEPT ![c] = Issued]
  /\ pc' = [pc EXCEPT ![c] = "signed"]
  /\ UNCHANGED <<issuerVars, clientVars, serverVars, outcome>>

\* GET /auth/public-key.
Publish(c) ==
  /\ \/ pc[c] = "resolving" /\ pc' = [pc EXCEPT ![c] = "resolved"]
     \/ pc[c] = "refreshing" /\ pc' = [pc EXCEPT ![c] = "refreshed"]
  /\ key' = [key EXCEPT ![c] = issuerKey]
  /\ UNCHANGED <<issuerVars, clientVars, keyCache, token, outcome>>

Rotate ==
  /\ May("rotate")
  /\ issuerKey < MaxKey
  /\ issuerKey' = issuerKey + 1
  /\ rotated' = now
  /\ UNCHANGED <<now, clientVars, serverVars, pc, token, outcome>>

-------------------------------------------------------------------------------
(* The called service.                                                     *)

Kid(c) == KidOf[token[c].key]
CachedKey(c) == keyCache[ServerOf[c]][Kid(c)]

Answer(c, o) ==
  /\ pc' = [pc EXCEPT ![c] = "answered"]
  /\ outcome' = [outcome EXCEPT ![c] = o]
  /\ key' = [key EXCEPT ![c] = NoKey]

\* _resolveKey with the key in the cache.
FindKey(c) ==
  /\ pc[c] = "calling"
  /\ CachedKey(c) # NoKey
  /\ key' = [key EXCEPT ![c] = CachedKey(c)]
  /\ pc' = [pc EXCEPT ![c] = "verifying"]
  /\ UNCHANGED <<issuerVars, clientVars, keyCache, token, outcome>>

\* _resolveKey without it.
MissKey(c) ==
  /\ pc[c] = "calling"
  /\ CachedKey(c) = NoKey
  /\ pc' = [pc EXCEPT ![c] = "resolving"]
  /\ UNCHANGED <<issuerVars, clientVars, serverVars, token, outcome>>

\* keyCache.set, under the id that came with the key.
Cached(c) == [keyCache EXCEPT ![ServerOf[c]][KidOf[key[c]]] = key[c]]

\* _fetchAndCacheKey returns the key asked for.
TakeKey(c) ==
  /\ \/ pc[c] = "resolved" /\ pc' = [pc EXCEPT ![c] = "verifying"]
     \/ pc[c] = "refreshed" /\ pc' = [pc EXCEPT ![c] = "rechecking"]
  /\ KidOf[key[c]] = Kid(c)
  /\ keyCache' = Cached(c)
  /\ UNCHANGED <<issuerVars, clientVars, key, token, outcome>>

\* _fetchAndCacheKey returns a key with another id: it is cached, too.
TakeOtherKey(c) ==
  /\ pc[c] \in {"resolved", "refreshed"}
  /\ KidOf[key[c]] # Kid(c)
  /\ keyCache' = Cached(c)
  /\ Answer(c, "invalid_signature")
  /\ UNCHANGED <<issuerVars, clientVars, token>>

KeyFails(c) ==
  /\ May("issuer")
  /\ pc[c] \in Fetching
  /\ Answer(c, "bad_claims")
  /\ UNCHANGED <<issuerVars, clientVars, keyCache, token>>

Matches(c) == key[c] = token[c].key

\* A slip: exp is not looked at.
UnexpiredUnchecked(c) == TRUE

Unexpired(c) == token[c].exp > now

IsAllowed(c) ==
  \/ AllowedCallers[ServerOf[c]] = {}
  \/ ClientOf[c] \in AllowedCallers[ServerOf[c]]

\* jwtVerify succeeds: the caller, whose X-Service-Id is its sub, is let in
\* if the policy allows it.
Admit(c) ==
  /\ pc[c] \in Verifying
  /\ Matches(c) /\ Unexpired(c)
  /\ Answer(c, IF IsAllowed(c) THEN "ok" ELSE "forbidden")
  /\ UNCHANGED <<issuerVars, clientVars, keyCache, token>>

\* jwtVerify finds the signature right and the token expired.
RefuseExpired(c) ==
  /\ pc[c] \in Verifying
  /\ Matches(c) /\ ~Unexpired(c)
  /\ Answer(c, "expired")
  /\ UNCHANGED <<issuerVars, clientVars, keyCache, token>>

\* A slip: a signature that does not match is refused at once.
AfterMismatchRefuse(c) == Answer(c, "invalid_signature")

\* The first mismatch leads to a new key.
AfterMismatch(c) ==
  /\ pc' = [pc EXCEPT ![c] = "refreshing"]
  /\ key' = [key EXCEPT ![c] = NoKey]
  /\ UNCHANGED outcome

\* keyCache.delete, whichever key is cached under that id by now.
Mismatch(c) ==
  /\ pc[c] = "verifying"
  /\ ~Matches(c)
  /\ keyCache' = [keyCache EXCEPT ![ServerOf[c]][Kid(c)] = NoKey]
  /\ AfterMismatch(c)
  /\ UNCHANGED <<issuerVars, clientVars, token>>

MismatchAgain(c) ==
  /\ pc[c] = "rechecking"
  /\ ~Matches(c)
  /\ Answer(c, "invalid_signature")
  /\ UNCHANGED <<issuerVars, clientVars, keyCache, token>>

\* The LRU cache drops a key: it holds two, for five minutes.
DropKey(s, k) ==
  /\ keyCache[s][k] # NoKey
  /\ keyCache' = [keyCache EXCEPT ![s][k] = NoKey]
  /\ UNCHANGED <<issuerVars, clientVars, key, pc, token, outcome>>

-------------------------------------------------------------------------------
\* A service restarts: its caches are gone, so are its calls, and the calls
\* it was verifying fail.
Restart(s) ==
  LET mine(c) == ClientOf[c] = s
      served(c) == ServerOf[c] = s /\ pc[c] \in Fetching \cup Verifying
  IN
  /\ May("restart")
  /\ cachedToken' = [cachedToken EXCEPT ![s] = NoToken]
  /\ inFlight' = [inFlight EXCEPT ![s] = NoCall]
  /\ keyCache' = [keyCache EXCEPT ![s] = [k \in Kids |-> NoKey]]
  /\ pc' = [c \in Calls |-> IF mine(c) THEN "idle"
                            ELSE IF served(c) THEN "answered" ELSE pc[c]]
  /\ outcome' = [c \in Calls |->
                   IF mine(c) THEN "none"
                   ELSE IF served(c) THEN "failed" ELSE outcome[c]]
  /\ token' = [c \in Calls |-> IF mine(c) THEN NoToken ELSE token[c]]
  /\ key' = [c \in Calls |-> IF mine(c) \/ served(c) THEN NoKey ELSE key[c]]
  /\ tried' = [c \in Calls |-> ~mine(c) /\ tried[c]]
  /\ took' = [c \in Calls |-> IF mine(c) THEN 0 ELSE took[c]]
  /\ UNCHANGED issuerVars

Tick ==
  /\ now < MaxTime
  /\ now' = now + 1
  /\ UNCHANGED <<issuerKey, rotated, clientVars, serverVars>>
  /\ UNCHANGED <<pc, token, outcome>>

Calling(c) == TokenArrives(c) \/ TokenFails(c) \/ Retry(c) \/ Return(c)
Issuing(c) == Sign(c) \/ Publish(c)
Serving(c) ==
  \/ FindKey(c) \/ MissKey(c) \/ TakeKey(c) \/ TakeOtherKey(c) \/ KeyFails(c)
  \/ Admit(c) \/ RefuseExpired(c) \/ Mismatch(c) \/ MismatchAgain(c)

Next ==
  \/ \E c \in Calls : Start(c) \/ Calling(c) \/ Issuing(c) \/ Serving(c)
  \/ \E s \in Services : Restart(s) \/ \E k \in Kids : DropKey(s, k)
  \/ Rotate
  \/ Tick

Spec == Init /\ [][Next]_vars

\* A call that was started goes on: requests to the issuer end or fail, and
\* the event loops run every callback.
Fairness == \A c \in Calls : WF_vars(Calling(c) \/ Issuing(c) \/ Serving(c))

FairSpec == Spec /\ Fairness

-------------------------------------------------------------------------------
(* Properties.                                                             *)

\* A service has at most one request for a token under way, the one in
\* inFlightTokenRequest, and whoever waits for a token waits for that one:
\* neither a failure, a clearToken nor a restart detaches a waiter from it.
RequestIsShared ==
  \A c \in Calls :
    /\ pc[c] \in Asking => inFlight[ClientOf[c]] = c
    /\ pc[c] = "joined" =>
         \E d \in Calls : /\ inFlight[ClientOf[c]] = d
                          /\ ClientOf[d] = ClientOf[c]
                          /\ pc[d] \in Asking

\* A token signed with the issuer's key is never refused for its signature,
\* whatever the key cache held and whoever changed it meanwhile: a mismatch is
\* final only after the key was fetched anew.
CurrentKeyIsAccepted ==
  \A c \in Calls :
    pc[c] = "answered" /\ outcome[c] = "invalid_signature" =>
      token[c].key # issuerKey

\* A call is refused as expired only if more than refreshSkewSeconds (or the
\* life of a token, if shorter) have passed since its token was looked for.
ExpiredOnlyIfSlow ==
  \A c \in Calls :
    pc[c] = "answered" /\ outcome[c] = "expired" =>
      now - took[c] > refreshSkewSeconds \/ now - took[c] >= ttlSeconds

\* An old key lets nobody in once the life of a token has passed since it was
\* replaced, however long caches keep it and calls are delayed.
OldKeysDieOut ==
  [][\A c \in Calls :
       outcome[c] # "ok" /\ outcome'[c] = "ok" =>
         token[c].key = issuerKey \/ now < rotated + ttlSeconds]_vars

\* How many steps a call has before it at most, where it is now; a call that
\* has not been tried again may have to start over.
Ahead ==
  [idle |-> 0, answered |-> 1, rechecking |-> 2, refreshed |-> 3,
   refreshing |-> 4, verifying |-> 5, resolved |-> 6, resolving |-> 7,
   calling |-> 8, joined |-> 9, signed |-> 9, asking |-> 10]

StepsLeft(c) ==
  IF pc[c] = "idle" THEN 0 ELSE Ahead[pc[c]] + IF tried[c] THEN 0 ELSE 10

\* The steps of a call run out: neither keys that are deleted or overwritten
\* meanwhile, nor the failures and retries of those it shares a request with,
\* ever send it back, but for the one retry of its own.
StepsRunOut ==
  [][\A c \in Calls : pc[c] # "idle" =>
       /\ StepsLeft(c)' <= StepsLeft(c)
       /\ pc'[c] # pc[c] => StepsLeft(c)' < StepsLeft(c)]_vars

\* Every call ends, after at most one retry; nobody waits for a token or for a
\* key for ever.
CallsEnd == \A c \in Calls : pc[c] # "idle" ~> pc[c] = "idle"
===============================================================================
