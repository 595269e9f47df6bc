------------------------ MODULE ExchangeCache_proofs ------------------------
(***************************************************************************)
(* Proofs about ExchangeCache, for every value of its constants.           *)
(***************************************************************************)
EXTENDS ExchangeCache, TLAPS

(* A token bought with t is its user's, expires, and is a bearer token.    *)
LEMMA Bought ==
  ASSUME NEW t \in Tokens, NEW token, BoughtWith(t, token)
  PROVE  token \in Bearers /\ token.sub = Sub(t) /\ token.exp \in 1..(MaxTime + Lifetime)
<1>1. PICK exp \in 1..(MaxTime + Lifetime) : token = Exchanged(t, exp)
  BY DEF BoughtWith
<1>2. Exchanged(t, exp).sub = ClaimsOf[t].sub /\ Exchanged(t, exp).exp = exp
  BY ExchangeConstants DEF Exchanged
<1>3. QED
  BY <1>1, <1>2 DEF Bearers, Sub

(* The API refuses what it is not the audience of.                         *)
LEMMA CallersRefused == ASSUME NEW t \in Tokens PROVE Me(ClaimsOf[t]) = "downstream_error"
BY CallersAudience DEF Me, DownstreamVerdict, JwtVerdict, JwtVerified

(* What is known of one call.                                              *)
Sound(r) ==
  /\ r \in CallType /\ Carried(r)
  /\ r.result \in Users => r.result = Sub(r.subject) /\ r.tool = "downstream_profile"
  /\ r.hitAt # None =>
       /\ r.token # Undefined => r.hitAt < r.token.exp
       /\ r.hitAt < ClaimsOf[r.subject].exp

LEMMA CallsAreSound ==
  ASSUME IInv
  PROVE  (\A c \in Calls : Sound(calls[c])) /\ now \in Nat /\ now \in 0..MaxTime
BY ExchangeConstants DEF IInv, TypeOK, Sound, OnBehalf, CachedInTime

LEMMA IdleSound == Sound(Idle) /\ Idle.phase = "idle" /\ ~Delegated(Idle)
BY NothingElse DEF Idle, Sound, CallType, Carried, Delegated

(* A step in which one call goes on.                                       *)
LEMMA CallStep ==
  ASSUME IInv, NEW c \in Calls, NEW r, Sound(r), Become(c, r),
         Delegated(r) => InTime(r.token),
         now' = now, endedAt' = endedAt, cache' = cache
  PROVE  IInv'
<1>1. calls' \in [Calls -> CallType] /\ calls'[c] = r /\ \A d \in Calls \ {c} : calls'[d] = calls[d]
  BY DEF Sound, Become, IInv, TypeOK
<1>2. \A d \in Calls : Sound(calls'[d])
  BY <1>1, CallsAreSound
<1>3. TypeOK'
  BY <1>1 DEF IInv, TypeOK, Cached
<1>4. CachedFor'
  BY DEF IInv, CachedFor, Real, Cached
<1>5. OnBehalf' /\ CachedInTime' /\ (\A d \in Calls : Carried(calls[d]))'
  BY <1>2 DEF Sound, OnBehalf, CachedInTime
<1>6. TokensInTime'
  BY <1>1 DEF IInv, TokensInTime, InTime, Real, Cached
<1>7. QED
  BY <1>3, <1>4, <1>5, <1>6 DEF IInv

(* A returned call is sound when its result is.                            *)
LEMMA ReturnStep ==
  ASSUME IInv, NEW c \in Calls, calls[c].phase # "idle", NEW result, Return(c, result),
         result \in Users \cup Failures,
         result \in Users => result = Sub(calls[c].subject) /\ calls[c].tool = "downstream_profile",
         now' = now, endedAt' = endedAt, cache' = cache
  PROVE  IInv'
<1> DEFINE r == [calls[c] EXCEPT !.phase = "done", !.token = None, !.hitAt = None,
                                 !.result = result]
<1>1. Sound(calls[c])
  BY CallsAreSound
<1>2. /\ r \in CallType /\ r.phase = "done" /\ r.subject = calls[c].subject
      /\ r.tool = calls[c].tool /\ r.hitAt = None /\ r.result = result
  BY <1>1 DEF Sound, CallType
<1>3. Sound(r)
  BY <1>1, <1>2 DEF Sound, Carried, Delegated
<1>4. ~Delegated(r)
  BY <1>2 DEF Delegated
<1>5. QED
  BY <1>3, <1>4, CallStep DEF Return

-----------------------------------------------------------------------------
LEMMA InitIInv == Init => IInv
<1> SUFFICES ASSUME Init PROVE IInv
  OBVIOUS
<1>1. calls \in [Calls -> CallType] /\ \A c \in Calls : Sound(calls[c])
  BY IdleSound DEF Init, Sound
<1>2. Cached = {} /\ Real = {}
  BY DEF Init, Cached, Real
<1>3. TypeOK
  BY <1>1, <1>2, ExchangeConstants DEF Init, TypeOK
<1>4. CachedFor /\ OnBehalf /\ CachedInTime /\ \A c \in Calls : Carried(calls[c])
  BY <1>1, <1>2 DEF CachedFor, OnBehalf, CachedInTime, Sound
<1>5. TokensInTime
  BY <1>2, IdleSound DEF Init, TokensInTime
<1>6. QED
  BY <1>3, <1>4, <1>5 DEF IInv

LEMMA ArriveIInv ==
  ASSUME IInv, NEW c \in Calls, NEW t \in Tokens, NEW tool \in Tools, Arrive(c, t, tool)
  PROVE  IInv'
<1> DEFINE r == [Idle EXCEPT !.phase = "verified", !.subject = t, !.tool = tool]
<1>1. /\ r \in CallType /\ r.phase = "verified" /\ r.subject = t /\ r.tool = tool
      /\ r.hitAt = None /\ r.result = None
  BY DEF Idle, CallType
<1>2. Sound(r) /\ ~Delegated(r)
  BY <1>1, NothingElse DEF Sound, Carried, Delegated
<1>3. QED
  BY <1>2, CallStep DEF Arrive

(* What a live entry is.                                                   *)
LEMMA LiveEntry ==
  ASSUME IInv, NEW t \in Tokens, Live(t)
  PROVE  /\ cache[t] \in EntryType /\ now < ClaimsOf[t].exp
         /\ cache[t].token # Undefined =>
              /\ BoughtWith(t, cache[t].token) /\ InTime(cache[t].token)
              /\ now < cache[t].token.exp
<1>1. cache[t] \in EntryType /\ t \in Cached /\ cache[t].expiresAt \in Nat
  BY DEF IInv, TypeOK, Live, Cached, EntryType
<1>2. now \in Nat /\ ClaimsOf[t].exp \in Nat /\ now < cache[t].expiresAt
  BY CallsAreSound, ExchangeConstants DEF Live
<1>3. now < ClaimsOf[t].exp
  BY <1>1, <1>2 DEF IInv, TypeOK
<1>4. ASSUME cache[t].token # Undefined
      PROVE  /\ BoughtWith(t, cache[t].token) /\ InTime(cache[t].token)
             /\ now < cache[t].token.exp
  <2>1. /\ BoughtWith(t, cache[t].token) /\ cache[t].expiresAt <= cache[t].token.exp
        /\ InTime(cache[t].token)
    BY <1>1, <1>4 DEF IInv, CachedFor, TokensInTime, Real
  <2>2. cache[t].token.exp \in Int
    BY <2>1, Bought
  <2>3. QED
    BY <1>1, <1>2, <2>1, <2>2
<1>5. QED
  BY <1>1, <1>3, <1>4

LEMMA ProfileHitIInv == ASSUME IInv, NEW c \in Calls, ProfileHit(c) PROVE IInv'
<1> DEFINE t == calls[c].subject
           r == [calls[c] EXCEPT !.phase = "calling", !.token = cache[t].token, !.hitAt = now]
<1>1. /\ Sound(calls[c]) /\ t \in Tokens /\ calls[c].phase = "verified" /\ Live(t)
      /\ calls[c].tool = "downstream_profile"
  BY CallsAreSound DEF ProfileHit, Sound, Carried
<1>2. /\ cache[t].token \in Bearers \cup {Undefined} /\ now < ClaimsOf[t].exp
      /\ cache[t].token # Undefined =>
           /\ BoughtWith(t, cache[t].token) /\ InTime(cache[t].token)
           /\ now < cache[t].token.exp
  BY <1>1, LiveEntry DEF EntryType
<1>3. /\ r \in CallType /\ r.phase = "calling" /\ r.subject = t /\ r.tool = "downstream_profile"
      /\ r.hitAt = now /\ r.token = cache[t].token /\ r.result = calls[c].result
  BY <1>1, <1>2, CallsAreSound DEF Sound, CallType
<1>4. Sound(r)
  BY <1>1, <1>2, <1>3 DEF Sound, Carried, Tools, Delegated
<1>5. Delegated(r) => InTime(r.token)
  BY <1>2, <1>3 DEF Delegated
<1>6. QED
  BY <1>4, <1>5, CallStep DEF ProfileHit

(* A step that takes entries out of the cache, or puts one in.             *)
LEMMA CacheStep ==
  ASSUME IInv, NEW c \in Calls, NEW r, Sound(r), Become(c, r), now' = now, endedAt' = endedAt,
         Delegated(r) => InTime(r.token),
         cache' \in [Tokens -> EntryType \cup {None}],
         \A u \in Tokens :
           \/ cache'[u] \in {None, cache[u]}
           \/ /\ cache'[u].expiresAt <= ClaimsOf[u].exp
              /\ cache'[u].token # Undefined =>
                   /\ BoughtWith(u, cache'[u].token) /\ InTime(cache'[u].token)
                   /\ cache'[u].expiresAt <= cache'[u].token.exp
  PROVE  IInv'
<1>1. calls' \in [Calls -> CallType] /\ calls'[c] = r /\ \A d \in Calls \ {c} : calls'[d] = calls[d]
  BY DEF Sound, Become, IInv, TypeOK
<1>2. \A d \in Calls : Sound(calls'[d])
  BY <1>1, CallsAreSound
<1>3. \A u \in Tokens : cache'[u] # None =>
        /\ cache'[u].expiresAt <= ClaimsOf[u].exp
        /\ cache'[u].token # Undefined =>
             BoughtWith(u, cache'[u].token) /\ cache'[u].expiresAt <= cache'[u].token.exp
  BY DEF IInv, TypeOK, CachedFor, Real, Cached
<1>4. TypeOK' /\ CachedFor'
  BY <1>1, <1>3 DEF IInv, TypeOK, CachedFor, Real, Cached
<1>5. OnBehalf' /\ CachedInTime' /\ (\A d \in Calls : Carried(calls[d]))'
  BY <1>2 DEF Sound, OnBehalf, CachedInTime
<1>6. ASSUME NEW u \in Tokens, cache'[u] # None, cache'[u].token # Undefined
      PROVE  InTime(cache'[u].token)
  BY <1>6 DEF IInv, TokensInTime, Real, Cached
<1>7. TokensInTime'
  BY <1>1, <1>6 DEF IInv, TokensInTime, InTime, Real, Cached
<1>8. QED
  BY <1>4, <1>5, <1>7 DEF IInv

LEMMA ProfileMissIInv == ASSUME IInv, NEW c \in Calls, ProfileMiss(c) PROVE IInv'
<1> DEFINE r == [calls[c] EXCEPT !.phase = "exchanging"]
<1>1. /\ Sound(calls[c]) /\ calls[c].phase = "verified" /\ calls[c].subject \in Tokens
      /\ calls[c].tool = "downstream_profile"
  BY CallsAreSound DEF ProfileMiss, Sound, Carried
<1>2. /\ r \in CallType /\ r.phase = "exchanging" /\ r.subject = calls[c].subject
      /\ r.tool = calls[c].tool /\ r.hitAt = calls[c].hitAt /\ r.token = calls[c].token
      /\ r.result = calls[c].result
  BY <1>1 DEF Sound, CallType
<1>3. Sound(r) /\ ~Delegated(r)
  BY <1>1, <1>2 DEF Sound, Carried, Delegated
<1>4. /\ cache' \in [Tokens -> EntryType \cup {None}]
      /\ \A u \in Tokens : cache'[u] \in {None, cache[u]}
  BY DEF ProfileMiss, Swept, IInv, TypeOK
<1>5. QED
  BY <1>3, <1>4, CacheStep DEF ProfileMiss

LEMMA IssueIInv == ASSUME IInv, NEW c \in Calls, Issue(c) PROVE IInv'
<1>1. /\ Sound(calls[c]) /\ calls[c].phase = "exchanging" /\ calls[c].subject \in Tokens
      /\ calls[c].tool = "downstream_profile" /\ calls[c].hitAt = None
  BY CallsAreSound DEF Issue, Sound, Carried
<1>2. PICK exp \in (now + 1)..(now + Lifetime) :
        Become(c, [calls[c] EXCEPT !.phase = "issued", !.token = Exchanged(calls[c].subject, exp)])
  BY DEF Issue
<1> DEFINE token == Exchanged(calls[c].subject, exp)
           r == [calls[c] EXCEPT !.phase = "issued", !.token = token]
<1>3. exp \in 1..(MaxTime + Lifetime)
  BY CallsAreSound, ExchangeConstants
<1>4. BoughtWith(calls[c].subject, token)
  BY <1>3 DEF BoughtWith
<1>5. token \in Bearers
  BY <1>1, <1>4, Bought
<1>6. /\ r \in CallType /\ r.phase = "issued" /\ r.subject = calls[c].subject
      /\ r.tool = calls[c].tool /\ r.hitAt = None /\ r.token = token /\ r.result = calls[c].result
  BY <1>1, <1>5 DEF Sound, CallType
<1>7. Sound(r)
  BY <1>1, <1>4, <1>6 DEF Sound, Carried
<1>8. InTime(token)
  <2>1. token.exp = exp /\ token.sub = Sub(calls[c].subject)
    BY <1>1, ExchangeConstants DEF Exchanged, Sub
  <2>2. exp <= now + Lifetime /\ endedAt[Sub(calls[c].subject)] = Never
    BY CallsAreSound, ExchangeConstants DEF Issue
  <2>3. QED
    BY <2>1, <2>2 DEF InTime
<1>9. QED
  BY <1>2, <1>6, <1>7, <1>8, CallStep DEF Issue

(* What is stored is a token bought for the call, or none.                 *)
LEMMA Stored ==
  ASSUME IInv, NEW c \in Calls, NEW token \in {calls[c].token, Undefined}, Store(c, token)
  PROVE  LET t     == calls[c].subject
             entry == [token |-> token, expiresAt |-> ExpiresAt(t, token)]
         IN  /\ t \in Tokens /\ entry \in EntryType
             /\ entry.expiresAt <= ClaimsOf[t].exp
             /\ token # Undefined =>
                  BoughtWith(t, token) /\ InTime(token) /\ entry.expiresAt <= token.exp
             /\ cache' = [cache EXCEPT ![t] = entry]
<1> DEFINE t == calls[c].subject
<1>1. t \in Tokens /\ BoughtWith(t, calls[c].token) /\ InTime(calls[c].token)
  BY CallsAreSound DEF Store, Sound, Carried, Delegated, IInv, TokensInTime
<1>2. /\ token \in Bearers \cup {Undefined} /\ ClaimsOf[t].exp \in Nat /\ now + Fallback \in Nat
      /\ token # Undefined => token.exp \in Nat /\ BoughtWith(t, token) /\ InTime(token)
  BY <1>1, Bought, CallsAreSound, ExchangeConstants
<1>3. /\ ExpiresAt(t, token) \in Nat /\ ExpiresAt(t, token) <= ClaimsOf[t].exp
      /\ token # Undefined => ExpiresAt(t, token) <= token.exp
  BY <1>2 DEF ExpiresAt, Exp, Min
<1>4. QED
  BY <1>1, <1>2, <1>3 DEF EntryType, Store

LEMMA StoreIInv ==
  ASSUME IInv, NEW c \in Calls, NEW token \in {calls[c].token, Undefined}, Store(c, token)
  PROVE  IInv'
<1> DEFINE t == calls[c].subject
           r == [calls[c] EXCEPT !.phase = "calling", !.token = token]
           entry == [token |-> token, expiresAt |-> ExpiresAt(t, token)]
<1>1. /\ Sound(calls[c]) /\ calls[c].phase = "issued" /\ calls[c].hitAt = None
      /\ calls[c].tool = "downstream_profile"
  BY CallsAreSound DEF Store, Sound, Carried
<1>2. /\ t \in Tokens /\ entry \in EntryType /\ entry.expiresAt <= ClaimsOf[t].exp
      /\ token # Undefined => BoughtWith(t, token) /\ InTime(token) /\ entry.expiresAt <= token.exp
      /\ cache' = [cache EXCEPT ![t] = entry]
  BY Stored
<1>3. token \in Bearers \cup {Undefined}
  BY <1>2, Bought
<1>4. /\ r \in CallType /\ r.phase = "calling" /\ r.subject = t
      /\ r.tool = calls[c].tool /\ r.hitAt = None /\ r.token = token
      /\ r.result = calls[c].result
  BY <1>1, <1>3 DEF Sound, CallType
<1>5. Sound(r) /\ (Delegated(r) => InTime(r.token))
  BY <1>1, <1>2, <1>4 DEF Sound, Carried, Delegated
<1>6. /\ cache' \in [Tokens -> EntryType \cup {None}] /\ cache'[t] = entry
      /\ \A u \in Tokens \ {t} : cache'[u] = cache[u]
  BY <1>2 DEF IInv, TypeOK
<1>7. ASSUME NEW u \in Tokens
      PROVE  \/ cache'[u] \in {None, cache[u]}
             \/ /\ cache'[u].expiresAt <= ClaimsOf[u].exp
                /\ cache'[u].token # Undefined =>
                     /\ BoughtWith(u, cache'[u].token) /\ InTime(cache'[u].token)
                     /\ cache'[u].expiresAt <= cache'[u].token.exp
  <2>1. CASE u = t
    BY <1>2, <1>6, <2>1
  <2>2. CASE u # t
    BY <1>6, <2>2
  <2>3. QED
    BY <2>1, <2>2
<1>8. Become(c, r) /\ now' = now /\ endedAt' = endedAt
  BY DEF Store
<1> HIDE DEF r
<1>9. QED
  BY <1>5, <1>6, <1>7, <1>8, CacheStep

LEMMA SettleIInv ==
  ASSUME IInv, NEW c \in Calls, Settle(c) \/ SettleUnread(c)
  PROVE  IInv'
BY StoreIInv DEF Settle, SettleUnread

LEMMA PassthroughIInv == ASSUME IInv, NEW c \in Calls, Passthrough(c) PROVE IInv'
<1> DEFINE r == [calls[c] EXCEPT !.phase = "calling", !.token = ClaimsOf[calls[c].subject]]
<1>1. /\ Sound(calls[c]) /\ calls[c].phase = "verified" /\ calls[c].subject \in Tokens
      /\ calls[c].tool = "downstream_passthrough" /\ calls[c].hitAt = None
  BY CallsAreSound DEF Passthrough, Sound, Carried
<1>2. ClaimsOf[calls[c].subject] \in Bearers
  BY <1>1 DEF Bearers
<1>3. /\ r \in CallType /\ r.phase = "calling" /\ r.subject = calls[c].subject
      /\ r.tool = calls[c].tool /\ r.hitAt = None /\ r.token = ClaimsOf[calls[c].subject]
      /\ r.result = calls[c].result
  BY <1>1, <1>2 DEF Sound, CallType
<1>4. Sound(r) /\ ~Delegated(r)
  BY <1>1, <1>3 DEF Sound, Carried, Delegated
<1>5. QED
  BY <1>4, CallStep DEF Passthrough

LEMMA ProfileReturnsIInv == ASSUME IInv, NEW c \in Calls, ProfileReturns(c) PROVE IInv'
<1>1. /\ Sound(calls[c]) /\ calls[c].phase = "calling" /\ calls[c].subject \in Tokens
      /\ calls[c].tool = "downstream_profile"
      /\ calls[c].token # Undefined => BoughtWith(calls[c].subject, calls[c].token)
  BY CallsAreSound DEF ProfileReturns, Sound, Carried, Delegated
<1>2. Me(calls[c].token) \in {Sub(calls[c].subject), "downstream_error"}
  BY <1>1, Bought DEF Me
<1>3. Sub(calls[c].subject) \in Users
  BY <1>1 DEF Users
<1>4. PICK result \in {Me(calls[c].token), "exchange_unavailable"} : Return(c, result)
  BY DEF ProfileReturns, CallMe
<1>5. /\ result \in Users \cup Failures
      /\ result \in Users => result = Sub(calls[c].subject)
  BY <1>2, <1>3, <1>4, NothingElse DEF Failures
<1>6. QED
  BY <1>1, <1>4, <1>5, ReturnStep DEF ProfileReturns

LEMMA PassthroughReturnsIInv == ASSUME IInv, NEW c \in Calls, PassthroughReturns(c) PROVE IInv'
<1>1. /\ Sound(calls[c]) /\ calls[c].phase = "calling" /\ calls[c].subject \in Tokens
      /\ calls[c].token = ClaimsOf[calls[c].subject]
  BY CallsAreSound DEF PassthroughReturns, Sound, Carried
<1>2. Me(calls[c].token) = "downstream_error"
  BY <1>1, CallersRefused
<1>3. PICK result \in {Me(calls[c].token), "downstream_unreachable"} : Return(c, result)
  BY DEF PassthroughReturns, CallMe
<1>4. result \in Failures /\ result \notin Users
  BY <1>2, <1>3, NothingElse DEF Failures
<1>5. QED
  BY <1>1, <1>3, <1>4, ReturnStep DEF PassthroughReturns

LEMMA ExchangeFailsIInv == ASSUME IInv, NEW c \in Calls, ExchangeFails(c) PROVE IInv'
<1>1. PICK result \in {"keycloak_error", "exchange_unavailable"} : Return(c, result)
  BY DEF ExchangeFails
<1>2. calls[c].phase # "idle"
  BY DEF ExchangeFails
<1>3. result \in Failures /\ result \notin Users
  BY NothingElse DEF Failures
<1>4. QED
  BY <1>1, <1>2, <1>3, ReturnStep DEF ExchangeFails

LEMMA FinishIInv == ASSUME IInv, NEW c \in Calls, Finish(c) PROVE IInv'
BY IdleSound, CallStep DEF Finish

(* Time passes, or a user is logged out: the server does not know.         *)
LEMMA AroundIInv == ASSUME IInv, Tick \/ (\E u \in Users : LogOut(u)) PROVE IInv'
<1>1. cache' = cache /\ calls' = calls
  BY DEF Tick, LogOut
<1>2. now' \in 0..MaxTime /\ endedAt' \in [Users -> 0..MaxTime \cup {Never}]
  <2>1. now \in 0..MaxTime /\ MaxTime \in Nat /\ endedAt \in [Users -> 0..MaxTime \cup {Never}]
    BY CallsAreSound, ExchangeConstants DEF IInv, TypeOK
  <2>2. QED
    BY <2>1 DEF Tick, LogOut
<1>3. TypeOK'
  BY <1>1, <1>2 DEF IInv, TypeOK, Cached
<1>4. ASSUME NEW token, InTime(token), token.exp \in Nat PROVE InTime(token)'
  <2>1. now \in Nat /\ Lifetime \in Nat /\ \A u \in Users : endedAt[u] \in Int
    BY CallsAreSound, ExchangeConstants DEF IInv, TypeOK, Never
  <2>2. CASE Tick
    BY <1>4, <2>1, <2>2 DEF Tick, InTime
  <2>3. CASE \E u \in Users : LogOut(u)
    BY <1>4, <2>1, <2>3 DEF LogOut, InTime, IInv, TypeOK
  <2>4. QED
    BY <2>2, <2>3
<1>5. TokensInTime'
  <2>1. ASSUME NEW t \in Real PROVE InTime(cache[t].token)'
    BY <1>1, <1>4, <2>1, Bought DEF IInv, TokensInTime, CachedFor, Real, Cached
  <2>2. ASSUME NEW c \in Calls, Delegated(calls[c]) PROVE InTime(calls[c].token)'
    <3>1. calls[c].subject \in Tokens /\ BoughtWith(calls[c].subject, calls[c].token)
      BY <2>2, CallsAreSound DEF Sound, Carried, Delegated
    <3>2. QED
      BY <1>1, <1>4, <2>2, <3>1, Bought DEF IInv, TokensInTime
  <2>3. QED
    BY <1>1, <2>1, <2>2 DEF TokensInTime, Real, Cached
<1>6. QED
  BY <1>1, <1>3, <1>5 DEF IInv, CachedFor, Real, Cached, OnBehalf, CachedInTime

LEMMA NextIInv == ASSUME IInv, [Next]_vars PROVE IInv'
<1>1. CASE \E c \in Calls, t \in Tokens, tool \in Tools : Arrive(c, t, tool)
  BY <1>1, ArriveIInv
<1>2. ASSUME NEW c \in Calls,
             \/ ProfileHit(c) \/ ProfileMiss(c) \/ Issue(c)
             \/ Settle(c) \/ SettleUnread(c) \/ ExchangeFails(c)
             \/ Passthrough(c) \/ ProfileReturns(c) \/ PassthroughReturns(c) \/ Finish(c)
      PROVE  IInv'
  BY <1>2, ProfileHitIInv, ProfileMissIInv, IssueIInv, SettleIInv, ExchangeFailsIInv,
     PassthroughIInv, ProfileReturnsIInv, PassthroughReturnsIInv, FinishIInv
<1>3. CASE (\E u \in Users : LogOut(u)) \/ Tick
  BY <1>3, AroundIInv
<1>4. CASE UNCHANGED vars
  BY <1>4 DEF vars, IInv, TypeOK, CachedFor, Real, Cached, TokensInTime, InTime, OnBehalf, CachedInTime
<1>5. QED
  BY <1>1, <1>2, <1>3, <1>4 DEF Next

(* The inductive invariant of the server and its cache.                    *)
THEOREM ExchangeInvariant == Spec => []IInv
<1>1. QED
  BY InitIInv, NextIInv, PTL DEF Spec

(* Calls and entries keep their types, and no entry outlives the token it  *)
(* was bought with.                                                        *)
THEOREM TypeCorrect == Spec => []TypeOK
<1>1. IInv => TypeOK
  BY DEF IInv
<1>2. QED
  BY <1>1, ExchangeInvariant, PTL

(* The API answers only for the caller of the tool, and never on the       *)
(* caller's own token, however calls interleave in the cache.              *)
THEOREM OnBehalfOfCaller == Spec => []OnBehalf
<1>1. IInv => OnBehalf
  BY DEF IInv
<1>2. QED
  BY <1>1, ExchangeInvariant, PTL

(* A cached token is used before it and the caller's token expire.         *)
THEOREM CacheInTime == Spec => []CachedInTime
<1>1. IInv => CachedInTime
  BY DEF IInv
<1>2. QED
  BY <1>1, ExchangeInvariant, PTL

(* A call takes no live entry away, whatever the limit of the sweep.       *)
THEOREM LiveEntriesKept == Spec => LiveKept
<1>1. ASSUME IInv, [Next]_vars PROVE \A t \in Tokens : Live(t) => cache'[t] # None
  <2> SUFFICES ASSUME NEW t \in Tokens, Live(t) PROVE cache'[t] # None
    OBVIOUS
  <2>1. cache[t] # None
    BY DEF Live
  <2>2. ASSUME NEW c \in Calls, ProfileMiss(c) PROVE cache'[t] # None
    BY <2>1, <2>2 DEF ProfileMiss, Swept
  <2>3. ASSUME NEW c \in Calls, NEW token, Store(c, token), token \in {calls[c].token, Undefined}
        PROVE  cache'[t] # None
    <3> DEFINE entry == [token |-> token, expiresAt |-> ExpiresAt(calls[c].subject, token)]
    <3>1. entry \in EntryType /\ cache' = [cache EXCEPT ![calls[c].subject] = entry]
      BY <1>1, <2>3, Stored
    <3>2. cache'[t] \in {cache[t], entry}
      BY <1>1, <3>1 DEF IInv, TypeOK
    <3>3. QED
      BY <2>1, <3>1, <3>2, NothingElse
  <2>4. ASSUME NEW c \in Calls, Settle(c) \/ SettleUnread(c) PROVE cache'[t] # None
    BY <2>3, <2>4 DEF Settle, SettleUnread
  <2>5. QED
    BY <1>1, <2>1, <2>2, <2>4
    DEF Next, vars, Arrive, ProfileHit, Issue, ExchangeFails, Passthrough, ProfileReturns,
        PassthroughReturns, Finish, LogOut, Tick
<1>2. QED
  BY <1>1, ExchangeInvariant, PTL DEF Spec, LiveKept

-----------------------------------------------------------------------------
(* A step of one call, as the oracle sees it.                              *)
LEMMA OneAsks ==
  ASSUME IInv, NEW c \in Calls, NEW r, Become(c, r), UNCHANGED <<now, endedAt>>
  PROVE  Oracle!Become(c, Asked(r)) /\ Asking[c] = Asked(calls[c])
<1>1. calls' = [calls EXCEPT ![c] = r] /\ calls \in [Calls -> CallType]
  BY DEF Become, IInv, TypeOK
<1>2. QED
  BY <1>1 DEF Oracle!Become, Asking

(* A step the oracle does not see.                                         *)
LEMMA OneStutters ==
  ASSUME IInv, NEW c \in Calls, NEW r, Become(c, r), UNCHANGED <<now, endedAt>>,
         Asked(r) = Asked(calls[c])
  PROVE  UNCHANGED Oracle!vars
<1>1. Asking' = [Asking EXCEPT ![c] = Asking[c]]
  BY OneAsks DEF Oracle!Become
<1>2. QED
  BY <1>1 DEF Asking, Oracle!vars

(* What the oracle sees of a call that is on its way.                      *)
LEMMA OnItsWay ==
  ASSUME IInv, NEW c \in Calls, calls[c].phase \notin {"idle", "done"}
  PROVE  /\ Sound(calls[c]) /\ calls[c].subject \in Tokens
         /\ Asking[c] = Asked(calls[c])
         /\ Asking[c].by = Credential(calls[c].subject) /\ Asking[c].answer = None
         /\ IF Delegated(calls[c])
            THEN Asking[c].state = "delegated" /\ Asking[c].goodFor = calls[c].token.exp
            ELSE Asking[c].state = "asked"
<1>1. Sound(calls[c]) /\ calls[c].subject \in Tokens /\ calls[c].result = None
  BY CallsAreSound DEF Sound, Carried
<1>2. None \notin Failures
  BY NothingElse
<1>3. Asking[c] = Asked(calls[c])
  BY DEF Asking
<1>4. QED
  BY <1>1, <1>2, <1>3 DEF Asked, Stage

LEMMA ArriveAsks ==
  ASSUME IInv, NEW c \in Calls, NEW t \in Tokens, NEW tool \in Tools, Arrive(c, t, tool)
  PROVE  Oracle!Ask(c, Credential(t))
<1> DEFINE r == [Idle EXCEPT !.phase = "verified", !.subject = t, !.tool = tool]
<1>1. calls[c].phase = "idle" /\ Sound(calls[c]) /\ calls[c].result = None /\ Become(c, r)
  BY CallsAreSound DEF Arrive, Sound, Carried
<1>2. None \notin Failures
  BY NothingElse
<1>3. Asked(calls[c]).state = "free"
  BY <1>1 DEF Asked, Stage
<1>4. /\ r.phase = "verified" /\ r.subject = t /\ r.result = None /\ ~Delegated(r)
  BY DEF Idle, Delegated
<1>5. Asked(r) = [state |-> "asked", by |-> Credential(t), goodFor |-> None, answer |-> None]
  BY <1>2, <1>4 DEF Asked, Stage
<1>6. Asked(r) = Oracle!Call("asked", Credential(t), None, None)
  BY <1>5 DEF Oracle!Call
<1>7. now <= Credential(t).until
  <2>1. ClaimsOf[t].exp >= now
    BY DEF Arrive, JwtVerdict, BearerAccepts
  <2>2. QED
    BY <2>1, CallsAreSound, ExchangeConstants DEF Credential
<1>8. Oracle!Become(c, Asked(r)) /\ Asking[c].state = "free"
  BY <1>1, <1>3, OneAsks DEF Arrive
<1>9. QED
  BY <1>6, <1>7, <1>8 DEF Oracle!Ask

(* A call that obtains a token, from the cache or from Keycloak.           *)
LEMMA ObtainDelegates ==
  ASSUME IInv, NEW c \in Calls, NEW token, NEW r,
         calls[c].phase \in {"verified", "exchanging"},
         r.phase \in {"issued", "calling"}, r.tool = "downstream_profile",
         token # Undefined, r.subject = calls[c].subject, r.token = token, r.result = calls[c].result,
         now < ClaimsOf[calls[c].subject].exp, now < token.exp, token.exp \in Nat,
         token.sub = Sub(calls[c].subject), InTime(token),
         Become(c, r), UNCHANGED <<now, endedAt>>
  PROVE  Oracle!Delegate(c)
<1> DEFINE was == Asking[c]
           end == token.exp
<1>1. /\ Sound(calls[c]) /\ calls[c].subject \in Tokens /\ ~Delegated(calls[c])
      /\ was.state = "asked" /\ was.by = Credential(calls[c].subject)
      /\ calls[c].result = None
  <2>1. ~Delegated(calls[c])
    BY DEF Delegated
  <2>2. Asking[c] = Asked(calls[c])
    BY OneAsks
  <2>3. QED
    BY <2>1, <2>2, OnItsWay DEF Sound, Carried
<1>2. Asked(r) = [state |-> "delegated", by |-> Credential(calls[c].subject),
                  goodFor |-> end, answer |-> None]
  <2>1. Delegated(r) /\ None \notin Failures
    BY NothingElse DEF Delegated
  <2>2. QED
    BY <1>1, <2>1 DEF Asked, Stage
<1>3. Asked(r) = Oracle!Call("delegated", was.by, end, None)
  BY <1>1, <1>2 DEF Oracle!Call
<1>4. end \in (now + 1)..(now + Lifetime)
  BY CallsAreSound, ExchangeConstants DEF InTime
<1>5. /\ was.by.user = Sub(calls[c].subject) /\ was.by.until = ClaimsOf[calls[c].subject].exp
      /\ was.state = "asked"
  BY <1>1 DEF Credential
<1>6. endedAt[was.by.user] = Never \/ end <= endedAt[was.by.user] + Lifetime
  BY <1>5 DEF InTime
<1>7. Oracle!Become(c, Asked(r))
  BY OneAsks
<1>8. QED
  BY <1>3, <1>4, <1>5, <1>6, <1>7 DEF Oracle!Delegate

LEMMA ProfileHitDelegates ==
  ASSUME IInv, NEW c \in Calls, ProfileHit(c), cache[calls[c].subject].token # Undefined
  PROVE  Oracle!Delegate(c)
<1> DEFINE t == calls[c].subject
           r == [calls[c] EXCEPT !.phase = "calling", !.token = cache[t].token, !.hitAt = now]
<1>1. /\ Sound(calls[c]) /\ t \in Tokens /\ calls[c].phase = "verified" /\ Live(t)
      /\ calls[c].tool = "downstream_profile" /\ Become(c, r) /\ UNCHANGED <<now, endedAt>>
  BY CallsAreSound DEF ProfileHit, Sound, Carried
<1>2. /\ BoughtWith(t, cache[t].token) /\ InTime(cache[t].token)
      /\ now < cache[t].token.exp /\ now < ClaimsOf[t].exp
  BY <1>1, LiveEntry
<1>3. cache[t].token.sub = Sub(t) /\ cache[t].token.exp \in Nat
  BY <1>1, <1>2, Bought
<1>4. /\ r.phase = "calling" /\ r.subject = t /\ r.tool = "downstream_profile"
      /\ r.token = cache[t].token /\ r.result = calls[c].result
  BY <1>1 DEF Sound, CallType
<1> HIDE DEF r
<1>5. QED
  BY <1>1, <1>2, <1>3, <1>4, ObtainDelegates

LEMMA IssueDelegates == ASSUME IInv, NEW c \in Calls, Issue(c) PROVE Oracle!Delegate(c)
<1>1. /\ Sound(calls[c]) /\ calls[c].phase = "exchanging" /\ calls[c].subject \in Tokens
      /\ calls[c].tool = "downstream_profile" /\ UNCHANGED <<now, endedAt>>
  BY CallsAreSound DEF Issue, Sound, Carried
<1>2. PICK exp \in (now + 1)..(now + Lifetime) :
        Become(c, [calls[c] EXCEPT !.phase = "issued", !.token = Exchanged(calls[c].subject, exp)])
  BY DEF Issue
<1> DEFINE token == Exchanged(calls[c].subject, exp)
           r == [calls[c] EXCEPT !.phase = "issued", !.token = token]
<1>3. token.exp = exp /\ token.sub = Sub(calls[c].subject)
  BY <1>1, ExchangeConstants DEF Exchanged, Sub
<1>4. /\ now < exp /\ exp \in Nat /\ exp <= now + Lifetime
      /\ endedAt[Sub(calls[c].subject)] = Never /\ now < ClaimsOf[calls[c].subject].exp
  BY <1>1, CallsAreSound, ExchangeConstants DEF Issue
<1>5. InTime(token)
  BY <1>3, <1>4 DEF InTime
<1>6. /\ r.phase = "issued" /\ r.subject = calls[c].subject /\ r.tool = "downstream_profile"
      /\ r.token = token /\ r.result = calls[c].result
  BY <1>1 DEF Sound, CallType
<1>7. Become(c, r)
  BY <1>2
<1>8. token # Undefined
  <2>1. exp \in 1..(MaxTime + Lifetime)
    BY CallsAreSound, ExchangeConstants
  <2>2. token \in Bearers
    BY <1>1, <2>1 DEF Bearers
  <2>3. QED
    BY <2>2, NothingElse
<1> HIDE DEF r, token
<1>9. QED
  BY <1>1, <1>3, <1>4, <1>5, <1>6, <1>7, <1>8, ObtainDelegates

(* Waiting for Keycloak, storing the token that came, finding none in the  *)
(* cache and passing the caller's own on are no concern of the oracle.     *)
LEMMA OthersStutter ==
  ASSUME IInv, NEW c \in Calls,
         \/ ProfileMiss(c) \/ Settle(c) \/ Passthrough(c)
         \/ ProfileHit(c) /\ cache[calls[c].subject].token = Undefined
  PROVE  UNCHANGED Oracle!vars
<1>1. PICK r : /\ Become(c, r) /\ UNCHANGED <<now, endedAt>> /\ calls[c].phase \notin {"idle", "done"}
               /\ r.phase \notin {"idle", "done"} /\ r.subject = calls[c].subject
               /\ r.result = calls[c].result
               /\ Delegated(r) <=> Delegated(calls[c])
               /\ Delegated(r) => r.token = calls[c].token
  <2>1. CASE ProfileMiss(c)
    <3> DEFINE r == [calls[c] EXCEPT !.phase = "exchanging"]
    <3>1. Sound(calls[c]) /\ Become(c, r) /\ calls[c].phase = "verified"
      BY <2>1, CallsAreSound DEF ProfileMiss
    <3>2. /\ r.phase = "exchanging" /\ r.subject = calls[c].subject /\ r.result = calls[c].result
      BY <3>1 DEF Sound, CallType
    <3>3. ~Delegated(r) /\ ~Delegated(calls[c])
      BY <3>1, <3>2 DEF Delegated
    <3>4. QED
      BY <2>1, <3>1, <3>2, <3>3 DEF ProfileMiss
  <2>2. CASE Settle(c)
    <3> DEFINE r == [calls[c] EXCEPT !.phase = "calling", !.token = calls[c].token]
    <3>1. /\ Sound(calls[c]) /\ Become(c, r) /\ calls[c].phase = "issued"
          /\ calls[c].tool = "downstream_profile" /\ calls[c].subject \in Tokens
          /\ BoughtWith(calls[c].subject, calls[c].token)
      BY <2>2, CallsAreSound DEF Settle, Store, Sound, Carried, Delegated
    <3>2. /\ r.phase = "calling" /\ r.subject = calls[c].subject /\ r.result = calls[c].result
          /\ r.tool = calls[c].tool /\ r.token = calls[c].token
      BY <3>1 DEF Sound, CallType
    <3>3. calls[c].token # Undefined
      BY <3>1, Bought, NothingElse
    <3>4. Delegated(r) /\ Delegated(calls[c])
      BY <3>1, <3>2, <3>3 DEF Delegated
    <3>5. QED
      BY <2>2, <3>1, <3>2, <3>4 DEF Settle, Store
  <2>3. CASE Passthrough(c)
    <3> DEFINE r == [calls[c] EXCEPT !.phase = "calling", !.token = ClaimsOf[calls[c].subject]]
    <3>1. /\ Sound(calls[c]) /\ Become(c, r) /\ calls[c].phase = "verified"
          /\ calls[c].tool = "downstream_passthrough"
      BY <2>3, CallsAreSound DEF Passthrough
    <3>2. /\ r.phase = "calling" /\ r.subject = calls[c].subject /\ r.result = calls[c].result
          /\ r.tool = calls[c].tool
      BY <3>1 DEF Sound, CallType
    <3>3. ~Delegated(r) /\ ~Delegated(calls[c])
      BY <3>1, <3>2 DEF Delegated
    <3>4. QED
      BY <2>3, <3>1, <3>2, <3>3 DEF Passthrough
  <2>4. CASE ProfileHit(c) /\ cache[calls[c].subject].token = Undefined
    <3> DEFINE r == [calls[c] EXCEPT !.phase = "calling", !.token = Undefined, !.hitAt = now]
    <3>1. Sound(calls[c]) /\ Become(c, r) /\ calls[c].phase = "verified"
      BY <2>4, CallsAreSound DEF ProfileHit
    <3>2. /\ r.phase = "calling" /\ r.subject = calls[c].subject /\ r.result = calls[c].result
          /\ r.token = Undefined
      BY <3>1 DEF Sound, CallType
    <3>3. ~Delegated(r) /\ ~Delegated(calls[c])
      BY <3>1, <3>2 DEF Delegated
    <3>4. QED
      BY <2>4, <3>1, <3>2, <3>3 DEF ProfileHit
  <2>5. QED
    BY <2>1, <2>2, <2>3, <2>4
<1>2. Asked(r) = Asked(calls[c])
  BY <1>1 DEF Asked, Stage
<1>3. QED
  BY <1>1, <1>2, OneStutters

(* A token whose answer cannot be read is lost.                            *)
LEMMA UnreadLoses == ASSUME IInv, NEW c \in Calls, SettleUnread(c) PROVE Oracle!Lose(c)
<1> DEFINE r == [calls[c] EXCEPT !.phase = "calling", !.token = Undefined]
<1>1. /\ Sound(calls[c]) /\ Become(c, r) /\ calls[c].phase = "issued" /\ calls[c].result = None
      /\ calls[c].subject \in Tokens /\ UNCHANGED <<now, endedAt>>
  BY CallsAreSound DEF SettleUnread, Store, Sound, Carried
<1>2. /\ r.phase = "calling" /\ r.subject = calls[c].subject /\ r.result = None
      /\ r.token = Undefined
  BY <1>1 DEF Sound, CallType
<1>3. ~Delegated(r) /\ Delegated(calls[c]) /\ None \notin Failures
  BY <1>1, <1>2, NothingElse DEF Delegated
<1>4. Asked(r) = [state |-> "asked", by |-> Credential(calls[c].subject),
                  goodFor |-> None, answer |-> None]
  BY <1>2, <1>3 DEF Asked, Stage
<1>5. Asking[c].state = "delegated" /\ Asking[c].by = Credential(calls[c].subject)
  BY <1>1, <1>3, OnItsWay
<1>6. Oracle!Become(c, Asked(r))
  BY <1>1, OneAsks
<1>7. QED
  BY <1>4, <1>5, <1>6 DEF Oracle!Lose, Oracle!Call

(* A call that returns: what the oracle sees of it before and after.       *)
LEMMA ReturnSeen ==
  ASSUME IInv, NEW c \in Calls, calls[c].phase \notin {"idle", "done"},
         NEW result, Return(c, result), result \in Users \cup Failures, UNCHANGED <<now, endedAt>>
  PROVE  Oracle!Become(c, Oracle!Call("answered", Asking[c].by, None,
                                      IF result \in Failures THEN "refused" ELSE result))
<1> DEFINE r == [calls[c] EXCEPT !.phase = "done", !.token = None, !.hitAt = None,
                                 !.result = result]
           seen == IF result \in Failures THEN "refused" ELSE result
<1>1. Sound(calls[c]) /\ Become(c, r) /\ Asking[c] = Asked(calls[c])
  BY CallsAreSound, OneAsks DEF Return
<1>2. r.phase = "done" /\ r.subject = calls[c].subject /\ r.result = result
  BY <1>1 DEF Sound, CallType
<1>3. ~Delegated(r)
  BY <1>2 DEF Delegated
<1>4. Asked(r) = [state |-> "answered", by |-> Credential(calls[c].subject),
                  goodFor |-> None, answer |-> seen]
  BY <1>2, <1>3 DEF Asked, Stage
<1>5. Asking[c].by = Credential(calls[c].subject)
  BY <1>1, OnItsWay
<1>6. Oracle!Become(c, Asked(r))
  BY <1>1, OneAsks
<1>7. QED
  BY <1>4, <1>5, <1>6 DEF Oracle!Call

LEMMA FailureRefuses ==
  ASSUME IInv, NEW c \in Calls, calls[c].phase \notin {"idle", "done"},
         NEW result \in Failures, Return(c, result), UNCHANGED <<now, endedAt>>
  PROVE  Oracle!Refuse(c)
<1>1. Asking[c].state \in {"asked", "delegated"}
  BY OnItsWay
<1>2. QED
  BY <1>1, ReturnSeen DEF Oracle!Refuse

LEMMA ProfileAnswers ==
  ASSUME IInv, NEW c \in Calls, ProfileReturns(c)
  PROVE  Oracle!Answer(c) \/ Oracle!Refuse(c)
<1>1. /\ Sound(calls[c]) /\ calls[c].phase = "calling" /\ calls[c].subject \in Tokens
      /\ calls[c].tool = "downstream_profile" /\ UNCHANGED <<now, endedAt>>
      /\ calls[c].token # Undefined =>
           BoughtWith(calls[c].subject, calls[c].token) /\ Delegated(calls[c])
  BY CallsAreSound DEF ProfileReturns, Sound, Carried, Delegated
<1>2. PICK result \in {Me(calls[c].token), "exchange_unavailable"} : Return(c, result)
  BY DEF ProfileReturns, CallMe
<1>3. CASE result \in Failures
  BY <1>1, <1>2, <1>3, FailureRefuses
<1>4. CASE result \notin Failures
  <2>1. result = Me(calls[c].token) /\ result # "downstream_error"
    BY <1>2, <1>4 DEF Failures
  <2>2. /\ calls[c].token # Undefined /\ DownstreamVerdict(calls[c].token) = "granted"
        /\ result = calls[c].token.sub
    BY <2>1 DEF Me
  <2>3. result = Sub(calls[c].subject) /\ calls[c].token.exp \in Nat
    BY <1>1, <2>2, Bought
  <2>4. now <= calls[c].token.exp
    <3>1. calls[c].token.exp >= now
      BY <2>2 DEF DownstreamVerdict, JwtVerdict, BearerAccepts
    <3>2. QED
      BY <2>3, <3>1, CallsAreSound
  <2>5. /\ Asking[c].state = "delegated" /\ Asking[c].by = Credential(calls[c].subject)
        /\ Asking[c].goodFor = calls[c].token.exp
    BY <1>1, <2>2, OnItsWay
  <2>6. result \in Users /\ Asking[c].by.user = result
    BY <1>1, <2>3, <2>5 DEF Users, Credential
  <2>7. Oracle!Become(c, Oracle!Call("answered", Asking[c].by, None, Asking[c].by.user))
    BY <1>1, <1>2, <1>4, <2>6, ReturnSeen
  <2>8. QED
    BY <2>4, <2>5, <2>7 DEF Oracle!Answer
<1>5. QED
  BY <1>3, <1>4

LEMMA PassthroughRefused ==
  ASSUME IInv, NEW c \in Calls, PassthroughReturns(c)
  PROVE  Oracle!Refuse(c)
<1>1. /\ Sound(calls[c]) /\ calls[c].phase = "calling" /\ calls[c].subject \in Tokens
      /\ calls[c].token = ClaimsOf[calls[c].subject] /\ UNCHANGED <<now, endedAt>>
  BY CallsAreSound DEF PassthroughReturns, Sound, Carried
<1>2. PICK result \in {Me(calls[c].token), "downstream_unreachable"} : Return(c, result)
  BY DEF PassthroughReturns, CallMe
<1>3. result \in Failures
  BY <1>1, <1>2, CallersRefused DEF Failures
<1>4. QED
  BY <1>1, <1>2, <1>3, FailureRefuses

LEMMA ExchangeFailureRefuses ==
  ASSUME IInv, NEW c \in Calls, ExchangeFails(c)
  PROVE  Oracle!Refuse(c)
<1>1. PICK result \in {"keycloak_error", "exchange_unavailable"} : Return(c, result)
  BY DEF ExchangeFails
<1>2. result \in Failures /\ calls[c].phase \notin {"idle", "done"} /\ UNCHANGED <<now, endedAt>>
  BY DEF ExchangeFails, Failures
<1>3. QED
  BY <1>1, <1>2, FailureRefuses

LEMMA FinishForgets ==
  ASSUME IInv, NEW c \in Calls, Finish(c)
  PROVE  Oracle!Forget(c)
<1>1. calls[c].phase = "done" /\ Become(c, Idle) /\ UNCHANGED <<now, endedAt>>
  BY DEF Finish
<1>2. Asking[c] = Asked(calls[c]) /\ Oracle!Become(c, Asked(Idle))
  BY <1>1, OneAsks
<1>3. Asking[c].state = "answered"
  BY <1>1, <1>2 DEF Asked, Stage
<1>4. Asked(Idle) = Oracle!Free
  BY IdleSound, NothingElse DEF Asked, Stage, Idle, Oracle!Free, Oracle!Call
<1>5. QED
  BY <1>2, <1>3, <1>4 DEF Oracle!Forget

(* Whatever is exchanged, cached, swept or late, the tools do no more for  *)
(* a caller than the oracle: the API answers about the caller alone, on a  *)
(* delegation obtained in time.                                            *)
THEOREM ToolsImplementDelegation == Spec => ImplementsDelegation
<1>1. Init => Oracle!Init
  <2> SUFFICES ASSUME Init PROVE Oracle!Init
    OBVIOUS
  <2>1. Asked(Idle) = Oracle!Free
    BY IdleSound, NothingElse DEF Asked, Stage, Idle, Oracle!Free, Oracle!Call
  <2>2. Asking = [c \in Calls |-> Oracle!Free]
    BY <2>1 DEF Init, Asking
  <2>3. QED
    BY <2>2 DEF Init, Oracle!Init
<1>2. IInv /\ [Next]_vars => [Oracle!Next]_(Oracle!vars)
  <2> SUFFICES ASSUME IInv, [Next]_vars PROVE [Oracle!Next]_(Oracle!vars)
    OBVIOUS
  <2>1. ASSUME NEW c \in Calls, NEW t \in Tokens, NEW tool \in Tools, Arrive(c, t, tool)
        PROVE  Oracle!Next
    <3>1. Oracle!Ask(c, Credential(t))
      BY <2>1, ArriveAsks
    <3>2. QED
      BY <3>1 DEF Oracle!Next
  <2>2. ASSUME NEW c \in Calls,
               \/ ProfileHit(c) \/ ProfileMiss(c) \/ Issue(c)
               \/ Settle(c) \/ SettleUnread(c) \/ ExchangeFails(c)
               \/ Passthrough(c) \/ ProfileReturns(c) \/ PassthroughReturns(c) \/ Finish(c)
        PROVE  [Oracle!Next]_(Oracle!vars)
    <3>1. \/ Oracle!Delegate(c) \/ Oracle!Lose(c) \/ Oracle!Answer(c) \/ Oracle!Refuse(c) \/ Oracle!Forget(c)
          \/ UNCHANGED Oracle!vars
      BY <2>2, ProfileHitDelegates, IssueDelegates, OthersStutter, UnreadLoses,
         ExchangeFailureRefuses, ProfileAnswers, PassthroughRefused, FinishForgets
    <3>2. QED
      BY <3>1 DEF Oracle!Next
  <2>3. ASSUME NEW u \in Users, LogOut(u) PROVE Oracle!Next
    <3>1. Oracle!End(u)
      BY <2>3 DEF LogOut, Oracle!End, Asking
    <3>2. QED
      BY <3>1 DEF Oracle!Next
  <2>4. CASE Tick
    <3>1. Oracle!Pass
      BY <2>4 DEF Tick, Oracle!Pass, Asking
    <3>2. QED
      BY <3>1 DEF Oracle!Next
  <2>5. CASE UNCHANGED vars
    BY <2>5 DEF vars, Oracle!vars, Asking
  <2>6. QED
    BY <2>1, <2>2, <2>3, <2>4, <2>5 DEF Next
<1>3. QED
  BY <1>1, <1>2, ExchangeInvariant, PTL DEF Spec, ImplementsDelegation, Oracle!Spec
=============================================================================
