-------------------------- MODULE ServiceTokensProofs --------------------------
(***************************************************************************)
(* Theorems about ServiceTokens, for any number of services, calls and key *)
(* pairs and for any life times.                                           *)
(***************************************************************************)
EXTENDS ServiceTokens, TLAPS

USE DEF KeyPairs, NoKey

\* The assumptions about the constants, in the form the proofs use.
LEMMA Constants ==
  /\ \A c \in Calls : ClientOf[c] \in Services /\ ServerOf[c] \in Services
  /\ NoCall \notin Calls
  /\ MaxKey \in Nat /\ MaxKey > 0
  /\ \A n \in KeyPairs : KidOf[n] \in Kids
  /\ MaxTime \in Nat
  /\ ttlSeconds \in Nat /\ ttlSeconds > 0
  /\ refreshSkewSeconds \in Nat
  /\ NoToken \notin Token
  /\ \A t \in Token : t.key \in KeyPairs /\ t.exp \in Nat
BY CallsAssumption, KeysAssumption, TimesAssumption, NoTokenAssumption DEF Token

\* The values of pc.
PC == {"idle", "joined", "calling", "answered"}
      \cup Asking \cup Fetching \cup Verifying

\* The services start without tokens and keys.
LEMMA TypeInit == Init => TypeOK
BY Constants DEF Init, TypeOK, Outcomes, Asking, Fetching, Verifying

\* getToken takes the cached token, joins a request or makes one.
LEMMA GetTokenCases ==
  ASSUME TypeOK, NEW c \in Calls, NEW t \in Token \cup {NoToken}, GetToken(c, t)
  PROVE  \/ /\ t \in Token
            /\ t.exp - now > refreshSkewSeconds
            /\ pc' = [pc EXCEPT ![c] = "calling"]
            /\ token' = [token EXCEPT ![c] = t]
            /\ took' = [took EXCEPT ![c] = now]
            /\ UNCHANGED inFlight
         \/ /\ inFlight[ClientOf[c]] \in Calls
            /\ pc' = [pc EXCEPT ![c] = "joined"]
            /\ token' = [token EXCEPT ![c] = NoToken]
            /\ took' = [took EXCEPT ![c] = took[inFlight[ClientOf[c]]]]
            /\ UNCHANGED inFlight
         \/ /\ inFlight[ClientOf[c]] = NoCall
            /\ pc' = [pc EXCEPT ![c] = "asking"]
            /\ token' = [token EXCEPT ![c] = NoToken]
            /\ took' = [took EXCEPT ![c] = now]
            /\ inFlight' = [inFlight EXCEPT ![ClientOf[c]] = c]
<1>1. CASE IsValidToken(t)
  BY <1>1 DEF GetToken, IsValidToken
<1>2. CASE ~IsValidToken(t) /\ inFlight[ClientOf[c]] # NoCall
  <2>1. inFlight[ClientOf[c]] \in Calls
    BY <1>2, Constants DEF TypeOK
  <2> QED
    BY <1>2, <2>1 DEF GetToken
<1>3. CASE ~IsValidToken(t) /\ inFlight[ClientOf[c]] = NoCall
  BY <1>3 DEF GetToken, Requested
<1> QED
  BY <1>1, <1>2, <1>3

\* getToken concerns no call but the one that made it.
LEMMA GetTokenFrame ==
  ASSUME TypeOK, NEW c \in Calls, NEW t, GetToken(c, t), NEW d \in Calls, d # c
  PROVE  pc'[d] = pc[d] /\ token'[d] = token[d] /\ took'[d] = took[d]
BY DEF GetToken, TypeOK

\* getToken leaves the call with a token or waiting for one.
LEMMA TypeGetToken ==
  ASSUME TypeOK, NEW c \in Calls, NEW t \in Token \cup {NoToken}, GetToken(c, t)
  PROVE  /\ pc' \in [Calls -> PC]
         /\ inFlight' \in [Services -> Calls \cup {NoCall}]
         /\ token' \in [Calls -> Token \cup {NoToken}]
         /\ took' \in [Calls -> Nat]
         /\ \A d \in Calls : d # c => pc'[d] = pc[d] /\ token'[d] = token[d]
         /\ pc'[c] \in {"calling", "joined", "asking"}
         /\ pc'[c] = "calling" => token'[c] \in Token
<1> USE DEF TypeOK, PC, Asking, Fetching, Verifying
<1>1. CASE /\ t \in Token
           /\ pc' = [pc EXCEPT ![c] = "calling"]
           /\ token' = [token EXCEPT ![c] = t]
           /\ took' = [took EXCEPT ![c] = now]
           /\ UNCHANGED inFlight
  BY <1>1
<1>2. CASE /\ inFlight[ClientOf[c]] \in Calls
           /\ pc' = [pc EXCEPT ![c] = "joined"]
           /\ token' = [token EXCEPT ![c] = NoToken]
           /\ took' = [took EXCEPT ![c] = took[inFlight[ClientOf[c]]]]
           /\ UNCHANGED inFlight
  BY <1>2
<1>3. CASE /\ pc' = [pc EXCEPT ![c] = "asking"]
           /\ token' = [token EXCEPT ![c] = NoToken]
           /\ took' = [took EXCEPT ![c] = now]
           /\ inFlight' = [inFlight EXCEPT ![ClientOf[c]] = c]
  BY <1>3
<1> QED
  BY <1>1, <1>2, <1>3, GetTokenCases

\* The steps of the calling service keep the types.
LEMMA TypeClient ==
  ASSUME TypeOK, NEW c \in Calls, Start(c) \/ Calling(c)
  PROVE  TypeOK'
<1>1. CASE Start(c)
  <2>1. GetToken(c, cachedToken[ClientOf[c]])
        /\ cachedToken[ClientOf[c]] \in Token \cup {NoToken}
    BY <1>1, Constants DEF TypeOK, Start
  <2> QED
    BY <1>1, <2>1, TypeGetToken
    DEF TypeOK, Start, PC, issuerVars, serverVars, Fetching, Verifying
<1>2. CASE TokenArrives(c)
  BY <1>2, Constants DEF TypeOK, TokenArrives, Settled, Sharing, Received,
     issuerVars, serverVars, Fetching, Verifying, Asking
<1>3. CASE TokenFails(c)
  BY <1>3, Constants DEF TypeOK, TokenFails, Settled, Sharing, issuerVars,
     serverVars, Fetching, Verifying, Asking, Outcomes
<1>4. CASE Retry(c)
  <2>1. GetToken(c, NoToken)
    BY <1>4 DEF Retry
  <2> QED
    BY <1>4, <2>1, TypeGetToken, Constants
    DEF TypeOK, Retry, PC, issuerVars, serverVars, Fetching, Verifying, Outcomes
<1>5. CASE Return(c)
  BY <1>5, Constants DEF TypeOK, Return, issuerVars, serverVars, Fetching,
     Verifying, Outcomes
<1> QED
  BY <1>1, <1>2, <1>3, <1>4, <1>5 DEF Calling

\* The steps of the issuer keep the types.
LEMMA TypeIssuer ==
  ASSUME TypeOK, (\E c \in Calls : Issuing(c)) \/ Rotate \/ Tick
  PROVE  TypeOK'
<1>1. ASSUME NEW c \in Calls, Sign(c) PROVE TypeOK'
  <2>1. Issued \in Token
    BY Constants DEF TypeOK, Issued, Token
  <2> QED
    BY <1>1, <2>1, Constants DEF TypeOK, Sign, issuerVars, clientVars,
       serverVars, Asking, Fetching, Verifying
<1>2. ASSUME NEW c \in Calls, Publish(c) PROVE TypeOK'
  BY <1>2, Constants DEF TypeOK, Publish, issuerVars, clientVars, Fetching,
     Verifying
<1>3. CASE Rotate
  BY <1>3, Constants DEF TypeOK, Rotate, clientVars, serverVars
<1>4. CASE Tick
  BY <1>4, Constants DEF TypeOK, Tick, clientVars, serverVars
<1> QED
  BY <1>1, <1>2, <1>3, <1>4 DEF Issuing

\* The steps of the called service keep the types.
LEMMA TypeServer ==
  ASSUME TypeOK, NEW c \in Calls, Serving(c)
  PROVE  TypeOK'
<1> USE Constants DEF TypeOK, issuerVars, clientVars, serverVars, Asking,
        Fetching, Verifying, Outcomes, Unauthorized, Answer
<1>1. CASE FindKey(c)
  BY <1>1 DEF FindKey, CachedKey, Kid
<1>2. CASE MissKey(c)
  BY <1>2 DEF MissKey
<1>3. CASE TakeKey(c)
  BY <1>3 DEF TakeKey, Cached
<1>4. CASE TakeOtherKey(c)
  BY <1>4 DEF TakeOtherKey, Cached
<1>5. CASE KeyFails(c)
  BY <1>5 DEF KeyFails
<1>6. CASE Admit(c)
  BY <1>6 DEF Admit
<1>7. CASE RefuseExpired(c)
  BY <1>7 DEF RefuseExpired
<1>8. CASE Mismatch(c)
  BY <1>8 DEF Mismatch, AfterMismatch, Kid
<1>9. CASE MismatchAgain(c)
  BY <1>9 DEF MismatchAgain
<1> QED
  BY <1>1, <1>2, <1>3, <1>4, <1>5, <1>6, <1>7, <1>8, <1>9 DEF Serving

\* A restart and a key that is dropped keep the types.
LEMMA TypeRestart ==
  ASSUME TypeOK, NEW s \in Services,
         Restart(s) \/ \E k \in Kids : DropKey(s, k)
  PROVE  TypeOK'
<1>1. CASE Restart(s)
  BY <1>1, Constants DEF TypeOK, Restart, issuerVars, Fetching, Verifying,
     Outcomes, Asking
<1>2. ASSUME NEW k \in Kids, DropKey(s, k) PROVE TypeOK'
  BY <1>2, Constants DEF TypeOK, DropKey, issuerVars, clientVars
<1> QED
  BY <1>1, <1>2

\* Every step keeps the types.
LEMMA TypeNext == TypeOK /\ [Next]_vars => TypeOK'
<1> SUFFICES ASSUME TypeOK, [Next]_vars PROVE TypeOK'
  OBVIOUS
<1>1. CASE UNCHANGED vars
  BY <1>1 DEF TypeOK, vars, issuerVars, clientVars, serverVars
<1> QED
  BY <1>1, TypeClient, TypeIssuer, TypeServer, TypeRestart DEF Next

\* The tokens, keys, calls and clocks have their types, and a call that is
\* verified carries a token.
THEOREM TypeCorrect == Spec => []TypeOK
BY TypeInit, TypeNext, PTL DEF Spec

-------------------------------------------------------------------------------
(* The shared request.                                                     *)

\* The promise kept is that of the one call that has a request under way, and
\* nobody waits without one.
SharedInv ==
  /\ TypeOK
  /\ \A c \in Calls : pc[c] \in Asking => inFlight[ClientOf[c]] = c
  /\ \A s \in Services : inFlight[s] \in Calls =>
       pc[inFlight[s]] \in Asking /\ ClientOf[inFlight[s]] = s
  /\ \A c \in Calls : pc[c] = "joined" => inFlight[ClientOf[c]] \in Calls

\* At the start there is no request.
LEMMA SharedInit == Init => SharedInv
BY TypeInit, Constants DEF Init, SharedInv, Asking

\* A step that moves no call into, out of or between waiting for a token.
LEMMA SharedFrame ==
  ASSUME SharedInv, TypeOK', UNCHANGED inFlight,
         \A c \in Calls : pc'[c] \in Asking <=> pc[c] \in Asking,
         \A c \in Calls : pc'[c] = "joined" <=> pc[c] = "joined"
  PROVE  SharedInv'
BY DEF SharedInv

\* Verifying a call concerns nobody who waits for a token.
LEMMA SharedServer ==
  ASSUME SharedInv, NEW c \in Calls, Serving(c)
  PROVE  SharedInv'
<1>1. TypeOK'
  BY TypeServer DEF SharedInv
<1>2. /\ UNCHANGED inFlight
      /\ \A d \in Calls : pc'[d] \in Asking <=> pc[d] \in Asking
      /\ \A d \in Calls : pc'[d] = "joined" <=> pc[d] = "joined"
  <2> USE DEF SharedInv, TypeOK, clientVars, Asking, Fetching, Verifying, Answer
  <2>1. CASE FindKey(c) \/ MissKey(c)
    BY <2>1 DEF FindKey, MissKey
  <2>2. CASE TakeKey(c) \/ TakeOtherKey(c)
    BY <2>2 DEF TakeKey, TakeOtherKey
  <2>3. CASE KeyFails(c) \/ Admit(c) \/ RefuseExpired(c)
    BY <2>3 DEF KeyFails, Admit, RefuseExpired
  <2>4. CASE Mismatch(c) \/ MismatchAgain(c)
    BY <2>4 DEF Mismatch, AfterMismatch, MismatchAgain
  <2> QED
    BY <2>1, <2>2, <2>3, <2>4 DEF Serving
<1> QED
  BY <1>1, <1>2, SharedFrame

\* The steps of the calling service: who makes a request finds none, and when
\* it settles, everybody who joined stops waiting.
LEMMA SharedClient ==
  ASSUME SharedInv, NEW c \in Calls, Start(c) \/ Calling(c)
  PROVE  SharedInv'
<1> TypeOK'
  BY TypeClient DEF SharedInv
<1>1. ASSUME NEW t \in Token \cup {NoToken}, GetToken(c, t),
             pc[c] \in {"idle", "answered"}
      PROVE  SharedInv'
  <2> USE DEF SharedInv, TypeOK, Asking
  <2>1. CASE UNCHANGED inFlight /\ pc' = [pc EXCEPT ![c] = "calling"]
    BY <1>1, <2>1, Constants
  <2>2. CASE /\ inFlight[ClientOf[c]] \in Calls
             /\ UNCHANGED inFlight
             /\ pc' = [pc EXCEPT ![c] = "joined"]
    BY <1>1, <2>2, Constants
  <2>3. CASE /\ inFlight[ClientOf[c]] = NoCall
             /\ inFlight' = [inFlight EXCEPT ![ClientOf[c]] = c]
             /\ pc' = [pc EXCEPT ![c] = "asking"]
    BY <1>1, <2>3, Constants
  <2> QED
    BY <1>1, <2>1, <2>2, <2>3, GetTokenCases
<1>2. CASE Start(c)
  BY <1>1, <1>2, Constants DEF Start, SharedInv, TypeOK
<1>3. CASE Retry(c)
  BY <1>1, <1>3 DEF Retry
<1>4. CASE TokenArrives(c)
  BY <1>4, Constants DEF SharedInv, TypeOK, TokenArrives, Settled, Sharing, Asking
<1>5. CASE TokenFails(c)
  BY <1>5, Constants DEF SharedInv, TypeOK, TokenFails, Settled, Sharing, Asking
<1>6. CASE Return(c)
  BY <1>6, SharedFrame DEF SharedInv, TypeOK, Return, Asking
<1> QED
  BY <1>2, <1>3, <1>4, <1>5, <1>6 DEF Calling

\* Every step keeps the request shared.
LEMMA SharedNext == SharedInv /\ [Next]_vars => SharedInv'
<1> SUFFICES ASSUME SharedInv, [Next]_vars PROVE SharedInv'
  OBVIOUS
<1>1. CASE UNCHANGED vars
  BY <1>1, TypeNext, SharedFrame DEF SharedInv, vars, clientVars
<1>2. ASSUME NEW c \in Calls, Issuing(c) PROVE SharedInv'
  <2>1. TypeOK'
    BY <1>2, TypeIssuer DEF SharedInv
  <2> QED
    BY <1>2, <2>1, SharedFrame DEF SharedInv, TypeOK, Issuing, Sign, Publish,
       clientVars, Asking
<1>3. CASE Rotate \/ Tick
  <2>1. TypeOK'
    BY <1>3, TypeIssuer DEF SharedInv
  <2> QED
    BY <1>3, <2>1, SharedFrame DEF Rotate, Tick, clientVars
<1>4. ASSUME NEW s \in Services, Restart(s) PROVE SharedInv'
  <2>1. TypeOK'
    BY <1>4, TypeRestart DEF SharedInv
  <2> QED
    BY <1>4, <2>1, Constants
    DEF SharedInv, TypeOK, Restart, Asking, Fetching, Verifying
<1>5. ASSUME NEW s \in Services, NEW k \in Kids, DropKey(s, k) PROVE SharedInv'
  <2>1. TypeOK'
    BY <1>5, TypeRestart DEF SharedInv
  <2> QED
    BY <1>5, <2>1, SharedFrame DEF DropKey, clientVars
<1> QED
  BY <1>1, <1>2, <1>3, <1>4, <1>5, SharedClient, SharedServer DEF Next

\* At most one request for a token per service is under way, and it is the one
\* everybody there waits for (issuer-token.service.ts:37-57).
THEOREM OneRequest == Spec => []RequestIsShared
<1>1. SharedInv => RequestIsShared
  BY Constants DEF SharedInv, RequestIsShared
<1> QED
  BY <1>1, SharedInit, SharedNext, PTL DEF Spec

-------------------------------------------------------------------------------
(* The tokens.                                                             *)

\* What is known of a token: its life is bounded, and one that was signed with
\* an old key was signed before that key was replaced.
Sound(t) ==
  /\ t.exp <= now + ttlSeconds
  /\ t.key <= issuerKey
  /\ t.key # issuerKey => t.exp <= rotated + ttlSeconds

TokensInv ==
  /\ TypeOK
  /\ \A c \in Calls : token[c] \in Token => Sound(token[c])
  /\ \A s \in Services : cachedToken[s] \in Token => Sound(cachedToken[s])

\* At the start there is no token.
LEMMA TokensInit == Init => TokensInv
BY TypeInit, Constants DEF Init, TokensInv

\* A step that only passes tokens on.
LEMMA TokensFrame ==
  ASSUME TokensInv, TypeOK', UNCHANGED issuerVars,
         \A c \in Calls : token'[c] \in Token => Sound(token'[c]),
         \A s \in Services : cachedToken'[s] \in Token => Sound(cachedToken'[s])
  PROVE  TokensInv'
BY DEF TokensInv, Sound, issuerVars

\* A step that changes no token.
LEMMA TokensSame ==
  ASSUME TokensInv, TypeOK', UNCHANGED issuerVars, UNCHANGED <<token, cachedToken>>
  PROVE  TokensInv'
BY TokensFrame DEF TokensInv

\* The called service changes no token.
LEMMA ServingKeepsTokens ==
  ASSUME NEW c \in Calls, Serving(c)
  PROVE  UNCHANGED issuerVars /\ UNCHANGED clientVars /\ UNCHANGED token
BY DEF Serving, FindKey, MissKey, TakeKey, TakeOtherKey, KeyFails, Admit,
   RefuseExpired, Mismatch, MismatchAgain

\* The steps of the calling service pass tokens on.
LEMMA TokensClient ==
  ASSUME TokensInv, NEW c \in Calls, Start(c) \/ Calling(c)
  PROVE  TokensInv'
<1> TypeOK'
  BY TypeClient DEF TokensInv
<1>1. ASSUME NEW t \in Token \cup {NoToken}, GetToken(c, t),
             t \in Token => Sound(t)
      PROVE  \A d \in Calls : token'[d] \in Token => Sound(token'[d])
  <2>1. /\ \A d \in Calls : d # c => token'[d] = token[d]
        /\ token'[c] \in {t, NoToken}
    BY <1>1, GetTokenCases DEF TokensInv, TypeOK
  <2> QED
    BY <1>1, <2>1, Constants DEF TokensInv
<1>2. CASE Start(c)
  <2>1. cachedToken[ClientOf[c]] \in Token \cup {NoToken}
        /\ (cachedToken[ClientOf[c]] \in Token => Sound(cachedToken[ClientOf[c]]))
    BY Constants DEF TokensInv, TypeOK
  <2> QED
    BY <1>1, <1>2, <2>1, TokensFrame DEF Start, TokensInv
<1>3. CASE Retry(c)
  <2>1. \A d \in Calls : token'[d] \in Token => Sound(token'[d])
    BY <1>1, <1>3, Constants DEF Retry
  <2>2. \A s \in Services : cachedToken'[s] \in Token => Sound(cachedToken'[s])
    BY <1>3, Constants DEF Retry, TokensInv, TypeOK
  <2> QED
    BY <1>3, <2>1, <2>2, TokensFrame DEF Retry
<1>4. CASE TokenArrives(c)
  <2>1. token[c] \in Token /\ Sound(token[c])
    BY <1>4 DEF TokenArrives, TokensInv, TypeOK
  <2>2. \A d \in Calls : token'[d] \in Token => Sound(token'[d])
    BY <1>4, <2>1 DEF TokenArrives, TokensInv, TypeOK, Received
  <2>3. \A s \in Services : cachedToken'[s] \in Token => Sound(cachedToken'[s])
    BY <1>4, <2>1 DEF TokenArrives, TokensInv, TypeOK
  <2> QED
    BY <1>4, <2>2, <2>3, TokensFrame DEF TokenArrives
<1>5. CASE TokenFails(c)
  BY <1>5, TokensSame DEF TokenFails
<1>6. CASE Return(c)
  BY <1>6, TokensFrame, Constants DEF Return, TokensInv, TypeOK
<1> QED
  BY <1>2, <1>3, <1>4, <1>5, <1>6 DEF Calling

\* Every step keeps the tokens sound: the issuer signs with its current key,
\* and what was signed before a rotation expires a life time after it.
LEMMA TokensNext == TokensInv /\ [Next]_vars => TokensInv'
<1> SUFFICES ASSUME TokensInv, [Next]_vars PROVE TokensInv'
  OBVIOUS
<1> TypeOK'
  BY TypeNext DEF TokensInv
<1>1. CASE UNCHANGED vars
  BY <1>1, TokensSame DEF vars, clientVars
<1>2. ASSUME NEW c \in Calls, Sign(c) PROVE TokensInv'
  <2>1. Sound(Issued)
    BY Constants DEF Issued, Sound, TokensInv, TypeOK
  <2>2. \A d \in Calls : token'[d] \in Token => Sound(token'[d])
    BY <1>2, <2>1 DEF Sign, TokensInv, TypeOK
  <2> QED
    BY <1>2, <2>2, TokensFrame DEF Sign, TokensInv, clientVars
<1>3. ASSUME NEW c \in Calls, Publish(c) PROVE TokensInv'
  BY <1>3, TokensSame DEF Publish, clientVars
<1>4. CASE Rotate
  <2>1. ASSUME NEW t \in Token, Sound(t) PROVE Sound(t)'
    BY <1>4, <2>1, Constants DEF Rotate, Sound, TokensInv, TypeOK
  <2> QED
    BY <1>4, <2>1 DEF Rotate, TokensInv, clientVars
<1>5. CASE Tick
  <2>1. ASSUME NEW t \in Token, Sound(t) PROVE Sound(t)'
    BY <1>5, <2>1, Constants DEF Tick, Sound, TokensInv, TypeOK
  <2> QED
    BY <1>5, <2>1 DEF Tick, TokensInv, clientVars
<1>6. ASSUME NEW s \in Services, Restart(s) PROVE TokensInv'
  <2>1. \A d \in Calls : token'[d] \in Token => Sound(token'[d])
    BY <1>6, Constants DEF Restart, TokensInv, TypeOK
  <2>2. \A u \in Services : cachedToken'[u] \in Token => Sound(cachedToken'[u])
    BY <1>6, Constants DEF Restart, TokensInv, TypeOK
  <2> QED
    BY <1>6, <2>1, <2>2, TokensFrame DEF Restart
<1>7. ASSUME NEW s \in Services, NEW k \in Kids, DropKey(s, k) PROVE TokensInv'
  BY <1>7, TokensSame DEF DropKey, clientVars
<1>8. ASSUME NEW c \in Calls, Serving(c) PROVE TokensInv'
  BY <1>8, ServingKeepsTokens, TokensSame DEF clientVars
<1> QED
  BY <1>1, <1>2, <1>3, <1>4, <1>5, <1>6, <1>7, <1>8, TokensClient
  DEF Next, Issuing

\* The tokens are sound at any time.
LEMMA TokensAreSound == Spec => []TokensInv
BY TokensInit, TokensNext, PTL DEF Spec

\* An old key lets nobody in a life time after it was replaced, whatever the
\* key caches hold (withServiceAuthentication.ts:64-103): exp is signed.
THEOREM OldKeysExpire == Spec => OldKeysDieOut
<1> DEFINE Once ==
      \A c \in Calls : outcome[c] # "ok" /\ outcome'[c] = "ok" =>
        token[c].key = issuerKey \/ now < rotated + ttlSeconds
<1>1. TokensInv /\ [Next]_vars => [Once]_vars
  <2> SUFFICES ASSUME TokensInv, Next, NEW c \in Calls,
                      outcome[c] # "ok", outcome'[c] = "ok"
               PROVE  token[c].key = issuerKey \/ now < rotated + ttlSeconds
    OBVIOUS
  <2>1. PICK d \in Calls : Admit(d)
    BY DEF Next, Start, Calling, TokenArrives, TokenFails, Retry, Return, Issuing,
       Sign, Publish, Serving, FindKey, MissKey, TakeKey, TakeOtherKey, KeyFails,
       RefuseExpired, Mismatch, AfterMismatch, MismatchAgain, Answer, DropKey,
       Restart, Rotate, Tick, TokensInv, TypeOK
  <2>2. c = d
    BY <2>1 DEF Admit, Answer, TokensInv, TypeOK
  <2>3. token[c] \in Token /\ token[c].exp > now
    BY <2>1, <2>2 DEF Admit, Unexpired, TokensInv, TypeOK
  <2> QED
    BY <2>3, Constants DEF TokensInv, Sound, TypeOK
<1> QED
  BY <1>1, TokensAreSound, PTL DEF Spec, OldKeysDieOut

-------------------------------------------------------------------------------
(* The verdicts of the called service.                                     *)

\* A key that was fetched for a call is no older than the token of that call,
\* and a final refusal was given to a token of an older key.
Judged(c) ==
  /\ pc[c] \in {"resolved", "refreshed", "rechecking"} =>
       token[c].key <= key[c] /\ key[c] <= issuerKey
  /\ pc[c] = "answered" /\ outcome[c] = "invalid_signature" =>
       token[c] \in Token /\ token[c].key < issuerKey

JudgedInv == TokensInv /\ \A c \in Calls : Judged(c)

\* At the start no call was judged.
LEMMA JudgedInit == Init => JudgedInv
BY TokensInit DEF Init, JudgedInv, Judged

\* What a step leaves alone stays well judged; the issuer's key only grows.
LEMMA JudgedFrame ==
  ASSUME TypeOK, NEW c \in Calls, Judged(c),
         issuerKey' \in KeyPairs, issuerKey <= issuerKey',
         pc'[c] = pc[c], token'[c] = token[c], key'[c] = key[c],
         outcome'[c] = outcome[c]
  PROVE  Judged(c)'
BY Constants DEF Judged, TypeOK, Fetching, Verifying

\* A call that is neither being verified nor answered is not judged.
LEMMA NotJudged ==
  ASSUME NEW c \in Calls,
         \/ pc'[c] \in {"idle", "joined", "asking", "signed", "calling",
                        "resolving", "refreshing", "verifying"}
         \/ pc'[c] = "answered" /\ outcome'[c] # "invalid_signature"
  PROVE  Judged(c)'
BY DEF Judged

\* A key that is not the fetched one, and not newer, is not the issuer's.
LEMMA OlderKey ==
  ASSUME NEW a \in Int, NEW b \in Int, NEW n \in Int, a <= b, b <= n, b # a
  PROVE  a < n
OBVIOUS

\* The called service judges the call it handles, and no other.
LEMMA JudgedServer ==
  ASSUME JudgedInv, NEW c \in Calls, Serving(c)
  PROVE  \A d \in Calls : Judged(d)'
<1> USE DEF JudgedInv, TokensInv, TypeOK
<1>1. issuerKey' = issuerKey /\ token' = token
  BY ServingKeepsTokens DEF issuerVars
<1>2. ASSUME NEW d \in Calls, d # c PROVE Judged(d)'
  <2>1. /\ pc'[d] = pc[d] /\ key'[d] = key[d] /\ outcome'[d] = outcome[d]
    BY <1>2 DEF Serving, FindKey, MissKey, TakeKey, TakeOtherKey, KeyFails, Admit,
       RefuseExpired, Mismatch, AfterMismatch, MismatchAgain, Answer, serverVars
  <2> QED
    BY <1>1, <2>1, JudgedFrame
<1>3. Judged(c)'
  <2>1. CASE FindKey(c) \/ MissKey(c) \/ KeyFails(c) \/ Admit(c)
             \/ RefuseExpired(c) \/ Mismatch(c)
    BY <2>1, NotJudged DEF FindKey, MissKey, KeyFails, Admit, RefuseExpired,
       Mismatch, AfterMismatch, Answer
  <2>2. CASE TakeKey(c)
    BY <1>1, <2>2 DEF TakeKey, Judged
  <2>3. CASE TakeOtherKey(c)
    <3>1. key[c] # token[c].key /\ token[c] \in Token /\ key[c] \in KeyPairs
      BY <2>3 DEF TakeOtherKey, Kid, Fetching
    <3>2. token[c].key < issuerKey
      <4>1. token[c].key <= key[c] /\ key[c] <= issuerKey
        BY <2>3 DEF TakeOtherKey, Judged
      <4>2. token[c].key \in Int /\ key[c] \in Int /\ issuerKey \in Int
        BY <3>1, Constants
      <4> QED
        BY <3>1, <4>1, <4>2, OlderKey
    <3> QED
      BY <1>1, <2>3, <3>1, <3>2 DEF TakeOtherKey, Answer, Judged
  <2>4. CASE MismatchAgain(c)
    <3>1. key[c] # token[c].key /\ token[c] \in Token /\ key[c] \in KeyPairs
      BY <2>4 DEF MismatchAgain, Matches, Verifying
    <3>2. token[c].key < issuerKey
      <4>1. token[c].key <= key[c] /\ key[c] <= issuerKey
        BY <2>4 DEF MismatchAgain, Judged
      <4>2. token[c].key \in Int /\ key[c] \in Int /\ issuerKey \in Int
        BY <3>1, Constants
      <4> QED
        BY <3>1, <4>1, <4>2, OlderKey
    <3> QED
      BY <1>1, <2>4, <3>1, <3>2 DEF MismatchAgain, Answer, Judged
  <2> QED
    BY <2>1, <2>2, <2>3, <2>4 DEF Serving
<1> QED
  BY <1>2, <1>3

\* The calling service judges nothing.
LEMMA JudgedClient ==
  ASSUME JudgedInv, NEW c \in Calls, Start(c) \/ Calling(c)
  PROVE  \A d \in Calls : Judged(d)'
<1> USE DEF JudgedInv, TokensInv, TypeOK
<1> SUFFICES ASSUME NEW d \in Calls PROVE Judged(d)'
  OBVIOUS
<1>1. issuerKey' = issuerKey /\ key' = key
  BY DEF Start, Calling, TokenArrives, TokenFails, Retry, Return, issuerVars,
     serverVars
<1>2. ASSUME NEW t \in Token \cup {NoToken}, GetToken(c, t),
             d # c => outcome'[d] = outcome[d]
      PROVE  Judged(d)'
  BY <1>1, <1>2, TypeGetToken, NotJudged, JudgedFrame
<1>3. CASE Start(c)
  BY <1>2, <1>3, Constants DEF Start
<1>4. CASE Retry(c)
  BY <1>2, <1>4 DEF Retry
<1>5. CASE TokenArrives(c)
  BY <1>1, <1>5, NotJudged, JudgedFrame DEF TokenArrives, Sharing
<1>6. CASE TokenFails(c)
  BY <1>1, <1>6, NotJudged, JudgedFrame DEF TokenFails, Sharing
<1>7. CASE Return(c)
  BY <1>1, <1>7, NotJudged, JudgedFrame DEF Return
<1> QED
  BY <1>3, <1>4, <1>5, <1>6, <1>7 DEF Calling

\* Every step judges rightly: the issuer publishes its current key, which is no
\* older than any token.
LEMMA JudgedNext == JudgedInv /\ [Next]_vars => JudgedInv'
<1> SUFFICES ASSUME JudgedInv, [Next]_vars PROVE \A c \in Calls : Judged(c)'
  BY TokensNext DEF JudgedInv
<1> USE DEF JudgedInv, TokensInv, TypeOK
<1>1. CASE UNCHANGED vars
  BY <1>1, JudgedFrame DEF vars, issuerVars, serverVars
<1>2. ASSUME NEW c \in Calls, Sign(c) PROVE \A d \in Calls : Judged(d)'
  BY <1>2, NotJudged, JudgedFrame DEF Sign, issuerVars, serverVars
<1>3. ASSUME NEW c \in Calls, Publish(c) PROVE \A d \in Calls : Judged(d)'
  <2>1. token[c] \in Token /\ token[c].key <= issuerKey
    BY <1>3 DEF Publish, Sound, Fetching
  <2>2. Judged(c)'
    BY <1>3, <2>1 DEF Publish, Judged, issuerVars
  <2>3. ASSUME NEW d \in Calls, d # c PROVE Judged(d)'
    BY <1>3, <2>3, JudgedFrame DEF Publish, issuerVars
  <2> QED
    BY <2>2, <2>3
<1>4. CASE Rotate
  <2>1. issuerKey' \in KeyPairs /\ issuerKey <= issuerKey'
    BY <1>4, Constants DEF Rotate
  <2> QED
    BY <1>4, <2>1, JudgedFrame DEF Rotate, serverVars
<1>5. CASE Tick
  BY <1>5, JudgedFrame DEF Tick, serverVars
<1>6. ASSUME NEW s \in Services, Restart(s) PROVE \A d \in Calls : Judged(d)'
  BY <1>6, NotJudged, JudgedFrame DEF Restart, issuerVars
<1>7. ASSUME NEW s \in Services, NEW k \in Kids, DropKey(s, k)
      PROVE  \A d \in Calls : Judged(d)'
  BY <1>7, JudgedFrame DEF DropKey, issuerVars
<1> QED
  BY <1>1, <1>2, <1>3, <1>4, <1>5, <1>6, <1>7, JudgedClient, JudgedServer
  DEF Next, Issuing

\* A token of the issuer's current key is never refused for its signature
\* (withServiceAuthentication.ts:73-103): the key a refusal rests on was fetched
\* after the token was signed.
THEOREM CurrentKeyWorks == Spec => []CurrentKeyIsAccepted
<1>1. JudgedInv => CurrentKeyIsAccepted
  BY Constants DEF JudgedInv, Judged, CurrentKeyIsAccepted, TokensInv, TypeOK
<1> QED
  BY <1>1, JudgedInit, JudgedNext, PTL DEF Spec

-------------------------------------------------------------------------------
(* The time a token lasts.                                                 *)

\* At time e more than the skew, or a token's life, has passed since c took.
Lasts(c, e) ==
  e - took[c] > refreshSkewSeconds \/ e - took[c] >= ttlSeconds

\* A token that was handed out lasts that long.
Timely(c) ==
  /\ took[c] <= now
  /\ pc[c] = "signed" => token[c].exp >= took[c] + ttlSeconds
  /\ pc[c] \in {"calling"} \cup Fetching \cup Verifying => Lasts(c, token[c].exp)
  /\ pc[c] = "answered" /\ outcome[c] = "expired" => Lasts(c, now)

\* Who joined a request counts from the time it was made.
TimelyInv ==
  /\ SharedInv
  /\ \A c \in Calls : Timely(c)
  /\ \A c \in Calls : pc[c] = "joined" => took[c] = took[inFlight[ClientOf[c]]]

\* At the start nobody has taken a token.
LEMMA TimelyInit == Init => TimelyInv
BY SharedInit DEF Init, TimelyInv, Timely, Fetching, Verifying

\* What a step leaves alone stays timely while time goes on.
LEMMA TimelyFrame ==
  ASSUME TypeOK, NEW c \in Calls, Timely(c), now' \in Nat, now <= now',
         pc'[c] = pc[c], token'[c] = token[c], took'[c] = took[c],
         outcome'[c] = outcome[c]
  PROVE  Timely(c)'
BY Constants DEF Timely, Lasts, TypeOK

\* getToken: a token from the cache is good for longer than the skew.
LEMMA TimelyGetToken ==
  ASSUME TimelyInv, NEW c \in Calls, NEW t \in Token \cup {NoToken},
         GetToken(c, t), pc[c] \in {"idle", "answered"}, now' = now,
         \A d \in Calls : d # c => outcome'[d] = outcome[d]
  PROVE  /\ \A d \in Calls : Timely(d)'
         /\ \A d \in Calls :
              pc'[d] = "joined" => took'[d] = took'[inFlight'[ClientOf[d]]]
<1> USE DEF TimelyInv, SharedInv, TypeOK
<1>1. ASSUME NEW d \in Calls, d # c PROVE Timely(d)'
  <2>1. pc'[d] = pc[d] /\ token'[d] = token[d] /\ took'[d] = took[d]
    BY <1>1, GetTokenFrame
  <2> QED
    BY <1>1, <2>1, TimelyFrame
<1>2. CASE /\ t \in Token
           /\ t.exp - now > refreshSkewSeconds
           /\ pc' = [pc EXCEPT ![c] = "calling"]
           /\ token' = [token EXCEPT ![c] = t]
           /\ took' = [took EXCEPT ![c] = now]
           /\ UNCHANGED inFlight
  <2>1. Timely(c)'
    BY <1>2, Constants DEF Timely, Lasts
  <2>2. ASSUME NEW d \in Calls, pc'[d] = "joined"
        PROVE  took'[d] = took'[inFlight'[ClientOf[d]]]
    BY <1>2, <2>2, Constants DEF Asking
  <2> QED
    BY <1>1, <2>1, <2>2
<1>3. CASE /\ inFlight[ClientOf[c]] \in Calls
           /\ pc' = [pc EXCEPT ![c] = "joined"]
           /\ token' = [token EXCEPT ![c] = NoToken]
           /\ took' = [took EXCEPT ![c] = took[inFlight[ClientOf[c]]]]
           /\ UNCHANGED inFlight
  <2>1. Timely(c)'
    BY <1>3, Constants DEF Timely, Fetching, Verifying
  <2>2. ASSUME NEW d \in Calls, pc'[d] = "joined"
        PROVE  took'[d] = took'[inFlight'[ClientOf[d]]]
    BY <1>3, <2>2, Constants DEF Asking
  <2> QED
    BY <1>1, <2>1, <2>2
<1>4. CASE /\ inFlight[ClientOf[c]] = NoCall
           /\ pc' = [pc EXCEPT ![c] = "asking"]
           /\ token' = [token EXCEPT ![c] = NoToken]
           /\ took' = [took EXCEPT ![c] = now]
           /\ inFlight' = [inFlight EXCEPT ![ClientOf[c]] = c]
  <2>1. Timely(c)'
    BY <1>4, Constants DEF Timely, Fetching, Verifying
  <2>2. ASSUME NEW d \in Calls, pc'[d] = "joined"
        PROVE  took'[d] = took'[inFlight'[ClientOf[d]]]
    BY <1>4, <2>2, Constants DEF Asking
  <2> QED
    BY <1>1, <2>1, <2>2
<1> QED
  BY <1>2, <1>3, <1>4, GetTokenCases

\* Who shared a request has a token that lasts, and is not waiting any more.
LEMMA TimelyClient ==
  ASSUME TimelyInv, NEW c \in Calls, Start(c) \/ Calling(c)
  PROVE  TimelyInv'
<1> SharedInv'
  BY SharedClient DEF TimelyInv
<1> USE DEF TimelyInv, SharedInv, TypeOK
<1>1. CASE Start(c)
  BY <1>1, TimelyGetToken, Constants DEF Start, issuerVars
<1>2. CASE Retry(c)
  <2>1. \A d \in Calls : d # c => outcome'[d] = outcome[d]
    BY <1>2 DEF Retry
  <2> QED
    BY <1>2, <2>1, TimelyGetToken DEF Retry, issuerVars
<1>3. CASE TokenArrives(c)
  <2>1. token[c].exp >= took[c] + ttlSeconds /\ token[c] \in Token
    BY <1>3 DEF TokenArrives, Timely
  <2>2. ASSUME NEW d \in Sharing(c) PROVE Timely(d)'
    <3>1. d \in Calls /\ took[d] = took[c]
      BY <1>3, <2>2 DEF Sharing, TokenArrives, Asking
    <3>2. pc'[d] = "calling" /\ token'[d] = token[c] /\ took'[d] = took[d]
      BY <1>3, <3>1 DEF TokenArrives, Received
    <3> QED
      BY <1>3, <2>1, <3>1, <3>2, Constants DEF Timely, Lasts, TokenArrives, issuerVars
  <2>3. ASSUME NEW d \in Calls, d \notin Sharing(c) PROVE Timely(d)'
    BY <1>3, <2>3, TimelyFrame DEF TokenArrives, issuerVars
  <2>4. ASSUME NEW d \in Calls, pc'[d] = "joined"
        PROVE  took'[d] = took'[inFlight'[ClientOf[d]]]
    BY <1>3, <2>4, Constants DEF TokenArrives, Sharing, Settled
  <2> QED
    BY <2>2, <2>3, <2>4
<1>4. CASE TokenFails(c)
  <2>1. ASSUME NEW d \in Calls, d \in Sharing(c) PROVE Timely(d)'
    BY <1>4, <2>1 DEF TokenFails, Timely, issuerVars, Fetching, Verifying
  <2>2. ASSUME NEW d \in Calls, d \notin Sharing(c) PROVE Timely(d)'
    BY <1>4, <2>2, TimelyFrame DEF TokenFails, issuerVars
  <2>3. ASSUME NEW d \in Calls, pc'[d] = "joined"
        PROVE  took'[d] = took'[inFlight'[ClientOf[d]]]
    BY <1>4, <2>3, Constants DEF TokenFails, Sharing, Settled
  <2> QED
    BY <2>1, <2>2, <2>3
<1>5. CASE Return(c)
  <2>1. Timely(c)'
    BY <1>5 DEF Return, Timely, issuerVars, Fetching, Verifying
  <2>2. ASSUME NEW d \in Calls, d # c PROVE Timely(d)'
    BY <1>5, <2>2, TimelyFrame DEF Return, issuerVars
  <2>3. ASSUME NEW d \in Calls, pc'[d] = "joined"
        PROVE  took'[d] = took'[inFlight'[ClientOf[d]]]
    BY <1>5, <2>3, Constants DEF Return, Asking
  <2> QED
    BY <2>1, <2>2, <2>3
<1> QED
  BY <1>1, <1>2, <1>3, <1>4, <1>5 DEF Calling

\* The called service finds a token expired only once its time is over.
LEMMA TimelyServer ==
  ASSUME TimelyInv, NEW c \in Calls, Serving(c)
  PROVE  TimelyInv'
<1> SharedInv'
  BY SharedServer DEF TimelyInv
<1> USE DEF TimelyInv, SharedInv, TypeOK
<1>1. now' = now /\ token' = token /\ took' = took /\ inFlight' = inFlight
  BY ServingKeepsTokens DEF issuerVars, clientVars
<1>2. ASSUME NEW d \in Calls, d # c
      PROVE  pc'[d] = pc[d] /\ outcome'[d] = outcome[d]
  BY <1>2 DEF Serving, FindKey, MissKey, TakeKey, TakeOtherKey, KeyFails, Admit,
     RefuseExpired, Mismatch, AfterMismatch, MismatchAgain, Answer
<1>3. Timely(c)' /\ pc'[c] # "joined"
  <2>1. CASE \/ FindKey(c) \/ MissKey(c) \/ TakeKey(c) \/ Mismatch(c)
    BY <1>1, <2>1 DEF FindKey, MissKey, TakeKey, Mismatch, AfterMismatch, Timely,
       Lasts, Fetching, Verifying
  <2>2. CASE TakeOtherKey(c) \/ KeyFails(c) \/ Admit(c) \/ MismatchAgain(c)
    BY <1>1, <2>2 DEF TakeOtherKey, KeyFails, Admit, MismatchAgain, Answer, Timely,
       Fetching, Verifying
  <2>3. CASE RefuseExpired(c)
    <3>1. token[c] \in Token /\ token[c].exp <= now /\ Lasts(c, token[c].exp)
      BY <2>3, Constants DEF RefuseExpired, Unexpired, Timely, Verifying
    <3>2. Lasts(c, now)
      BY <3>1, Constants DEF Lasts
    <3> QED
      BY <1>1, <2>3, <3>2 DEF RefuseExpired, Answer, Timely, Lasts, Fetching,
         Verifying
  <2> QED
    BY <2>1, <2>2, <2>3 DEF Serving
<1>4. ASSUME NEW d \in Calls PROVE Timely(d)'
  BY <1>1, <1>2, <1>3, TimelyFrame
<1> QED
  BY <1>1, <1>2, <1>3, <1>4

\* Every step keeps the times.
LEMMA TimelyNext == TimelyInv /\ [Next]_vars => TimelyInv'
<1> SUFFICES ASSUME TimelyInv, [Next]_vars PROVE TimelyInv'
  OBVIOUS
<1> SharedInv'
  BY SharedNext DEF TimelyInv
<1> USE DEF TimelyInv, SharedInv, TypeOK
<1>1. CASE UNCHANGED vars
  BY <1>1, TimelyFrame DEF vars, issuerVars, clientVars
<1>2. ASSUME NEW c \in Calls, Sign(c) PROVE TimelyInv'
  <2>1. Timely(c)'
    BY <1>2, Constants DEF Sign, Issued, Timely, issuerVars, clientVars, Fetching,
       Verifying
  <2>2. ASSUME NEW d \in Calls, d # c PROVE Timely(d)'
    BY <1>2, <2>2, TimelyFrame DEF Sign, issuerVars, clientVars
  <2> QED
    BY <1>2, <2>1, <2>2 DEF Sign, clientVars
<1>3. ASSUME NEW c \in Calls, Publish(c) PROVE TimelyInv'
  <2>1. Timely(c)' /\ pc'[c] # "joined"
    BY <1>3 DEF Publish, Timely, Lasts, issuerVars, clientVars, Fetching, Verifying
  <2>2. ASSUME NEW d \in Calls, d # c PROVE Timely(d)'
    BY <1>3, <2>2, TimelyFrame DEF Publish, issuerVars, clientVars
  <2> QED
    BY <1>3, <2>1, <2>2 DEF Publish, clientVars
<1>4. CASE Rotate
  BY <1>4, TimelyFrame DEF Rotate, clientVars
<1>5. CASE Tick
  BY <1>5, TimelyFrame DEF Tick, clientVars
<1>6. ASSUME NEW s \in Services, Restart(s) PROVE TimelyInv'
  <2>1. ASSUME NEW d \in Calls PROVE Timely(d)'
    <3>1. CASE pc'[d] = pc[d] /\ ClientOf[d] # s
      BY <1>6, <3>1, TimelyFrame DEF Restart, issuerVars, Fetching, Verifying
    <3>2. CASE ClientOf[d] = s
      BY <1>6, <3>2 DEF Restart, Timely, issuerVars, Fetching, Verifying
    <3>3. CASE ClientOf[d] # s /\ pc'[d] # pc[d]
      BY <1>6, <3>3 DEF Restart, Timely, issuerVars, Fetching, Verifying
    <3> QED
      BY <3>1, <3>2, <3>3
  <2>2. ASSUME NEW d \in Calls, pc'[d] = "joined"
        PROVE  took'[d] = took'[inFlight'[ClientOf[d]]]
    BY <1>6, <2>2, Constants DEF Restart
  <2> QED
    BY <2>1, <2>2
<1>7. ASSUME NEW s \in Services, NEW k \in Kids, DropKey(s, k) PROVE TimelyInv'
  BY <1>7, TimelyFrame DEF DropKey, issuerVars, clientVars
<1> QED
  BY <1>1, <1>2, <1>3, <1>4, <1>5, <1>6, <1>7, TimelyClient, TimelyServer
  DEF Next, Issuing

\* A call is refused as expired only if it, or the request whose token it got,
\* took longer than the skew or the life of a token (issuer-token.service.ts:29).
THEOREM ExpiryNeedsTime == Spec => []ExpiredOnlyIfSlow
<1>1. TimelyInv => ExpiredOnlyIfSlow
  BY DEF TimelyInv, Timely, Lasts, ExpiredOnlyIfSlow
<1> QED
  BY <1>1, TimelyInit, TimelyNext, PTL DEF Spec

(***************************************************************************)
(* The steps of a call run out.                                            *)
(***************************************************************************)

\* Call c has less to do, or has not moved.
Less(c) ==
  /\ StepsLeft(c)' <= StepsLeft(c)
  /\ pc'[c] # pc[c] => StepsLeft(c)' < StepsLeft(c)

\* Where a call may go from where it is, without a new try.
LEMMA GoesOn ==
  ASSUME TypeOK, NEW c \in Calls, tried'[c] = tried[c],
         pc[c] \in DOMAIN Ahead, pc'[c] \in DOMAIN Ahead, pc[c] # "idle",
         pc'[c] = pc[c] \/ pc'[c] = "idle" \/ Ahead[pc'[c]] < Ahead[pc[c]]
  PROVE  Less(c)
<1>1. \A p \in DOMAIN Ahead : Ahead[p] \in 0..10 /\ (p # "idle" => Ahead[p] > 0)
  BY DEF Ahead
<1>2. CASE pc'[c] = pc[c]
  <2>1. StepsLeft(c)' = StepsLeft(c) /\ StepsLeft(c) \in Nat
    BY <1>1, <1>2 DEF StepsLeft
  <2> QED BY <1>2, <2>1 DEF Less
<1>3. CASE pc'[c] = "idle"
  <2>1. StepsLeft(c)' = 0 /\ StepsLeft(c) \in Nat /\ StepsLeft(c) > 0
    BY <1>1, <1>3 DEF StepsLeft
  <2> QED BY <2>1 DEF Less
<1>4. CASE pc'[c] # "idle" /\ Ahead[pc'[c]] < Ahead[pc[c]]
  <2> DEFINE more == IF tried[c] THEN 0 ELSE 10
             a == Ahead[pc[c]]
             b == Ahead[pc'[c]]
  <2>1. a \in 0..10 /\ b \in 0..10 /\ b < a /\ more \in 0..10
    BY <1>1, <1>4
  <2>2. StepsLeft(c) = a + more /\ StepsLeft(c)' = b + more
    BY <1>4 DEF StepsLeft
  <2> HIDE DEF a, b, more
  <2>3. StepsLeft(c)' < StepsLeft(c) /\ StepsLeft(c)' <= StepsLeft(c)
    BY <2>1, <2>2
  <2> QED BY <2>3 DEF Less
<1> QED BY <1>2, <1>3, <1>4

\* Every place a call can be at counts.
LEMMA AheadOfAll == PC \subseteq DOMAIN Ahead
BY DEF PC, Ahead, Asking, Fetching, Verifying

\* The retry, which is the only one, leaves less than the first try did.
LEMMA RetryLess == ASSUME TypeOK, NEW c \in Calls, Retry(c) PROVE Less(c)
<1>1. /\ pc[c] = "answered" /\ ~tried[c] /\ tried'[c]
  BY DEF Retry, Retries, TypeOK
<1>2. pc'[c] \in {"calling", "joined", "asking"}
  BY DEF Retry, GetToken, TypeOK
<1>3. StepsLeft(c) = 11
  BY <1>1 DEF StepsLeft, Ahead
<1>4. StepsLeft(c)' \in 8..10
  BY <1>1, <1>2 DEF StepsLeft, Ahead
<1> QED BY <1>3, <1>4 DEF Less

\* The steps of every call run out, for any number of services, calls and key
\* pairs, whatever fails, restarts or rotates.
THEOREM StepsDoRunOut == Spec => StepsRunOut
<1>1. ASSUME TypeOK, TypeOK', [Next]_vars, NEW c \in Calls, pc[c] # "idle"
      PROVE  Less(c)
  <2>1. pc[c] \in DOMAIN Ahead /\ pc'[c] \in DOMAIN Ahead
    BY <1>1, AheadOfAll DEF TypeOK, PC
  <2>2. ASSUME tried'[c] = tried[c],
               pc'[c] = pc[c] \/ pc'[c] = "idle" \/ Ahead[pc'[c]] < Ahead[pc[c]]
        PROVE  Less(c)
    BY <1>1, <2>1, <2>2, GoesOn
  <2>3. CASE UNCHANGED vars
    BY <2>2, <2>3 DEF vars, clientVars
  <2>4. ASSUME NEW d \in Calls, Start(d) PROVE Less(c)
    <3>1. d # c /\ tried' = tried
      BY <1>1, <2>4 DEF Start
    <3>2. pc'[c] = pc[c]
      BY <1>1, <2>4, <3>1 DEF Start, GetToken, TypeOK
    <3> QED BY <2>2, <3>1, <3>2
  <2>5. ASSUME NEW d \in Calls, TokenArrives(d) PROVE Less(c)
    <3>1. pc'[c] = pc[c] \/ (pc[c] \in {"signed", "joined"} /\ pc'[c] = "calling")
      BY <1>1, <2>5 DEF TokenArrives, Sharing
    <3> QED BY <2>2, <2>5, <3>1 DEF TokenArrives, Ahead
  <2>6. ASSUME NEW d \in Calls, TokenFails(d) PROVE Less(c)
    <3>1. \/ pc'[c] = pc[c]
          \/ pc[c] \in {"asking", "signed", "joined"} /\ pc'[c] = "answered"
      BY <1>1, <2>6 DEF TokenFails, Sharing, Asking
    <3> QED BY <2>2, <2>6, <3>1 DEF TokenFails, Ahead
  <2>7. ASSUME NEW d \in Calls, Retry(d) PROVE Less(c)
    <3>1. CASE d = c
      BY <1>1, <2>7, <3>1, RetryLess
    <3>2. CASE d # c
      <4>1. pc'[c] = pc[c] /\ tried'[c] = tried[c]
        BY <1>1, <2>7, <3>2 DEF Retry, GetToken, TypeOK
      <4> QED BY <2>2, <4>1
    <3> QED BY <3>1, <3>2
  <2>8. ASSUME NEW d \in Calls, Return(d) PROVE Less(c)
    <3>1. CASE d = c
      <4>1. StepsLeft(c)' = 0 /\ StepsLeft(c) \in {1, 11}
        BY <1>1, <2>8, <3>1 DEF Return, StepsLeft, Ahead, TypeOK
      <4> QED BY <4>1 DEF Less
    <3>2. CASE d # c
      <4>1. pc'[c] = pc[c] /\ tried'[c] = tried[c]
        BY <1>1, <2>8, <3>2 DEF Return, TypeOK
      <4> QED BY <2>2, <4>1
    <3> QED BY <3>1, <3>2
  <2>9. ASSUME NEW d \in Calls, Issuing(d) PROVE Less(c)
    <3>1. \/ pc'[c] = pc[c]
          \/ pc[c] = "asking" /\ pc'[c] = "signed"
          \/ pc[c] = "resolving" /\ pc'[c] = "resolved"
          \/ pc[c] = "refreshing" /\ pc'[c] = "refreshed"
      BY <1>1, <2>9 DEF Issuing, Sign, Publish, TypeOK
    <3> QED BY <2>2, <2>9, <3>1 DEF Issuing, Sign, Publish, clientVars, Ahead
  <2>10. ASSUME NEW d \in Calls, Serving(d) PROVE Less(c)
    <3>1. \/ pc'[c] = pc[c]
          \/ pc[c] = "calling" /\ pc'[c] \in {"resolving", "verifying"}
          \/ pc[c] = "resolved" /\ pc'[c] = "verifying"
          \/ pc[c] = "refreshed" /\ pc'[c] = "rechecking"
          \/ pc[c] = "verifying" /\ pc'[c] = "refreshing"
          \/ pc[c] \in Fetching \cup Verifying /\ pc'[c] = "answered"
      BY <1>1, <2>10 DEF Serving, FindKey, MissKey, TakeKey, TakeOtherKey,
         KeyFails, Admit, RefuseExpired, Mismatch, AfterMismatch, MismatchAgain,
         Answer, Fetching, Verifying, TypeOK
    <3>2. tried' = tried
      BY <2>10 DEF Serving, FindKey, MissKey, TakeKey, TakeOtherKey, KeyFails,
         Admit, RefuseExpired, Mismatch, MismatchAgain, clientVars
    <3> QED BY <2>2, <3>1, <3>2 DEF Ahead, Fetching, Verifying
  <2>11. ASSUME NEW s \in Services, Restart(s) PROVE Less(c)
    <3>1. CASE ClientOf[c] = s
      <4>1. StepsLeft(c)' = 0 /\ StepsLeft(c) \in Nat /\ StepsLeft(c) > 0
        <5>1. pc'[c] = "idle"
          BY <2>11, <3>1 DEF Restart
        <5>2. Ahead[pc[c]] \in 1..10
          BY <1>1, <2>1 DEF Ahead
        <5> QED BY <1>1, <5>1, <5>2 DEF StepsLeft
      <4> QED BY <4>1 DEF Less
    <3>2. CASE ClientOf[c] # s
      <4>1. tried'[c] = tried[c]
        BY <1>1, <2>11, <3>2 DEF Restart, TypeOK
      <4>2. \/ pc'[c] = pc[c]
            \/ pc[c] \in Fetching \cup Verifying /\ pc'[c] = "answered"
        BY <1>1, <2>11, <3>2 DEF Restart, TypeOK
      <4> QED BY <2>2, <4>1, <4>2 DEF Ahead, Fetching, Verifying
    <3> QED BY <3>1, <3>2
  <2>12. ASSUME \/ Rotate \/ Tick
                \/ \E s \in Services : \E k \in Kids : DropKey(s, k)
         PROVE  Less(c)
    <3>1. pc' = pc /\ tried' = tried
      BY <2>12 DEF Rotate, Tick, DropKey, clientVars
    <3> QED BY <2>2, <3>1
  <2> QED
    BY <1>1, <2>3, <2>4, <2>5, <2>6, <2>7, <2>8, <2>9, <2>10, <2>11, <2>12
    DEF Next, Calling
<1>2. TypeOK /\ TypeOK' /\ [Next]_vars =>
        [\A c \in Calls : pc[c] # "idle" => Less(c)]_vars
  BY <1>1
<1>3. TypeOK /\ TypeOK' /\ [Next]_vars =>
        [\A c \in Calls : pc[c] # "idle" =>
           /\ StepsLeft(c)' <= StepsLeft(c)
           /\ pc'[c] # pc[c] => StepsLeft(c)' < StepsLeft(c)]_vars
  BY <1>2 DEF Less
<1> QED
  BY <1>3, TypeCorrect, PTL DEF Spec, StepsRunOut
===============================================================================
