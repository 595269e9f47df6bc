---------------------------- MODULE ExchangeCache ----------------------------
(***************************************************************************)
(* examples/10-token-exchange-downstream: an MCP server trades the token   *)
(* of its caller for one that a downstream API takes, keeps what it got in *)
(* a cache, and calls the API on behalf of the caller.                     *)
(*                                                                         *)
(* A tool call is verified, runs, waits for Keycloak's exchange if it has  *)
(* to, and waits for the API; time passes between these steps, and users   *)
(* are logged out.                                                         *)
(***************************************************************************)
EXTENDS JwtPolicy, FiniteSets

CONSTANTS
  Tokens,       \* access tokens of the callers
  ClaimsOf,     \* their claims
  Calls,        \* slots for tool calls
  Keys,         \* the realm's signing keys
  Server,       \* the MCP server's verifier: issuer, audience, requiredScopes, tolerance
  Downstream,   \* the downstream API's verifier
  None,         \* no entry, no token
  Undefined,    \* the access_token of an answer without one
  CacheLimit,   \* size from which expired entries are swept
  Lifetime,     \* longest lifetime of an exchanged token
  Fallback,     \* how long a token without a readable expiry is kept
  MaxTime       \* bound on the clock

ASSUME ExchangeConstants ==
  /\ {CacheLimit, Lifetime, Fallback, MaxTime} \subseteq Nat
  /\ \A t \in Tokens :
       /\ ClaimsOf[t].exp \in Nat /\ {"audience", "exp", "scope", "sub"} \subseteq DOMAIN ClaimsOf[t]

(* The realm issues the callers' tokens for the MCP server alone.          *)
ASSUME CallersAudience == \A t \in Tokens : ClaimsOf[t].audience \cap Downstream.audience = {}

VARIABLES
  now,        \* the clock
  endedAt,    \* per user: when Keycloak ended the sessions, or Never
  cache,      \* per subject token: [token, expiresAt] or None
  calls       \* per slot: the tool call

vars == <<now, endedAt, cache, calls>>

Idle == [phase |-> "idle", subject |-> None, tool |-> None, token |-> None,
         hitAt |-> None, result |-> None]

Sub(t) == ClaimsOf[t].sub
Users == {Sub(t) : t \in Tokens}
Never == -1

Init ==
  /\ now = 0 /\ endedAt = [u \in Users |-> Never]
  /\ cache = [t \in Tokens |-> None]
  /\ calls = [c \in Calls |-> Idle]

Min(a, b) == IF a <= b THEN a ELSE b
Cached == {t \in Tokens : cache[t] # None}
Become(c, r) == calls' = [calls EXCEPT ![c] = r]
Return(c, result) ==
  Become(c, [calls[c] EXCEPT !.phase = "done", !.token = None, !.hitAt = None, !.result = result])

(* requireBearerAuth() lets the call in.                                   *)
Arrive(c, t, tool) ==
  /\ calls[c].phase = "idle"
  /\ JwtVerdict(ClaimsOf[t], Keys, TRUE, Server,
                KeycloakEffectiveScopes(ClaimsOf[t]), now) = "granted"
  /\ Become(c, [Idle EXCEPT !.phase = "verified", !.subject = t, !.tool = tool])
  /\ UNCHANGED <<now, endedAt, cache>>

(***************************************************************************)
(* exchangedTokenFor()                                                     *)
(***************************************************************************)
Live(t) == cache[t] # None /\ cache[t].expiresAt > now

ProfileHit(c) ==
  LET t == calls[c].subject IN
  /\ calls[c].phase = "verified" /\ calls[c].tool = "downstream_profile" /\ Live(t)
  /\ Become(c, [calls[c] EXCEPT !.phase = "calling", !.token = cache[t].token, !.hitAt = now])
  /\ UNCHANGED <<now, endedAt, cache>>

(* Mutant: the sweep empties the cache.                                    *)
SweptClean(t) ==
  [u \in Tokens |-> IF u = t \/ Cardinality(Cached \ {t}) >= CacheLimit THEN None ELSE cache[u]]

(* The caller's own expired entry goes, and at the limit all expired ones. *)
Swept(t) ==
  [u \in Tokens |->
    IF u = t \/ (Cardinality(Cached \ {t}) >= CacheLimit /\ ~Live(u)) THEN None ELSE cache[u]]

ProfileMiss(c) ==
  LET t == calls[c].subject IN
  /\ calls[c].phase = "verified" /\ calls[c].tool = "downstream_profile" /\ ~Live(t)
  /\ cache' = Swept(t)
  /\ Become(c, [calls[c] EXCEPT !.phase = "exchanging"])
  /\ UNCHANGED <<now, endedAt>>

(* Keycloak takes a subject token that is active and was meant for the     *)
(* exchanging client, and issues a token of the same user for the API      *)
(* (external).                                                             *)
Exchanged(t, exp) ==
  [ClaimsOf[t] EXCEPT !.audience = Downstream.audience, !.exp = exp,
                      !.scope = Downstream.requiredScopes]

Issue(c) ==
  LET t == calls[c].subject IN
  /\ calls[c].phase = "exchanging"
  /\ ClaimsOf[t].exp > now /\ endedAt[Sub(t)] = Never
  /\ \E exp \in (now + 1)..(now + Lifetime) :
       Become(c, [calls[c] EXCEPT !.phase = "issued", !.token = Exchanged(t, exp)])
  /\ UNCHANGED <<now, endedAt, cache>>

(* The exp that decodePayload() reads in a token, or else the fallback.    *)
Exp(token) == IF token = Undefined THEN now + Fallback ELSE token.exp

(* Mutant: only the exchanged token's own expiry counts.                   *)
ExpiresWithToken(t, token) == Exp(token)

ExpiresAt(t, token) == Min(ClaimsOf[t].exp, Exp(token))

(* What the answer has for a token is stored and used, whoever has stored  *)
(* another one meanwhile.                                                  *)
Store(c, token) ==
  LET t == calls[c].subject IN
  /\ calls[c].phase = "issued"
  /\ cache' = [cache EXCEPT ![t] = [token |-> token, expiresAt |-> ExpiresAt(t, token)]]
  /\ Become(c, [calls[c] EXCEPT !.phase = "calling", !.token = token])
  /\ UNCHANGED <<now, endedAt>>

Settle(c) == Store(c, calls[c].token)

(* readJson() makes {} of a 200 whose body is cut, late or not JSON.       *)
SettleUnread(c) == Store(c, Undefined)

(* An error status is a KeycloakError and passed on; an error of the       *)
(* connection or a timeout before the status is known, also one after the  *)
(* token was issued, is not.                                               *)
ExchangeFails(c) ==
  /\ \/ calls[c].phase = "exchanging" /\ Return(c, "keycloak_error")
     \/ calls[c].phase \in {"exchanging", "issued"} /\ Return(c, "exchange_unavailable")
  /\ UNCHANGED <<now, endedAt, cache>>

(* downstream_passthrough, the tool of DEMO_PASSTHROUGH, sends the         *)
(* caller's token as it is.                                                *)
Passthrough(c) ==
  /\ calls[c].phase = "verified" /\ calls[c].tool = "downstream_passthrough"
  /\ Become(c, [calls[c] EXCEPT !.phase = "calling", !.token = ClaimsOf[calls[c].subject]])
  /\ UNCHANGED <<now, endedAt, cache>>

(***************************************************************************)
(* GET /me, and what the tool makes of the answer                          *)
(***************************************************************************)
(* Mutant: the API takes every audience of the realm.                      *)
AnyAudience(token) ==
  JwtVerdict(token, Keys, TRUE, [Downstream EXCEPT !.audience = @ \cup Server.audience,
                                                   !.requiredScopes = {}],
             TokenScopes(token), now)

DownstreamVerdict(token) ==
  JwtVerdict(token, Keys, TRUE, Downstream, TokenScopes(token), now)

(* Who the API says is calling, or its refusal; "Bearer undefined" is no   *)
(* token at all.                                                           *)
Me(token) ==
  IF token # Undefined /\ DownstreamVerdict(token) = "granted" THEN token.sub
  ELSE "downstream_error"

(* httpGetJson() resolves with the answer, whatever its status, and        *)
(* rejects after ten seconds or on an error of the connection.             *)
CallMe(token, failure) == {Me(token), failure}

ProfileReturns(c) ==
  /\ calls[c].phase = "calling" /\ calls[c].tool = "downstream_profile"
  /\ \E r \in CallMe(calls[c].token, "exchange_unavailable") : Return(c, r)
  /\ UNCHANGED <<now, endedAt, cache>>

PassthroughReturns(c) ==
  /\ calls[c].phase = "calling" /\ calls[c].tool = "downstream_passthrough"
  /\ \E r \in CallMe(calls[c].token, "downstream_unreachable") : Return(c, r)
  /\ UNCHANGED <<now, endedAt, cache>>

Finish(c) ==
  /\ calls[c].phase = "done"
  /\ Become(c, Idle)
  /\ UNCHANGED <<now, endedAt, cache>>

(***************************************************************************)
(* Around it                                                               *)
(***************************************************************************)
LogOut(u) ==
  /\ endedAt[u] = Never
  /\ endedAt' = [endedAt EXCEPT ![u] = now]
  /\ UNCHANGED <<now, cache, calls>>

Tick ==
  /\ now < MaxTime
  /\ now' = now + 1
  /\ UNCHANGED <<endedAt, cache, calls>>

Tools == {"downstream_profile", "downstream_passthrough"}

Next ==
  \/ \E c \in Calls, t \in Tokens, tool \in Tools : Arrive(c, t, tool)
  \/ \E c \in Calls :
       \/ ProfileHit(c) \/ ProfileMiss(c) \/ Issue(c)
       \/ Settle(c) \/ SettleUnread(c) \/ ExchangeFails(c)
       \/ Passthrough(c) \/ ProfileReturns(c) \/ PassthroughReturns(c) \/ Finish(c)
  \/ \E u \in Users : LogOut(u)
  \/ Tick

Spec == Init /\ [][Next]_vars

(***************************************************************************)
(* Properties                                                              *)
(***************************************************************************)
Failures == {"keycloak_error", "exchange_unavailable", "downstream_error", "downstream_unreachable"}
Bearers == {ClaimsOf[t] : t \in Tokens}
             \cup {Exchanged(t, exp) : t \in Tokens, exp \in 1..(MaxTime + Lifetime)}

EntryType == [token : Bearers \cup {Undefined}, expiresAt : Nat]
CallType ==
  [phase : {"idle", "verified", "exchanging", "issued", "calling", "done"},
   subject : Tokens \cup {None}, tool : Tools \cup {None}, token : Bearers \cup {None, Undefined},
   hitAt : 0..MaxTime \cup {None}, result : Users \cup Failures \cup {None}]

ASSUME NothingElse ==
  /\ None \notin EntryType \cup Users \cup Failures /\ Users \cap Failures = {}
  /\ Undefined \notin Bearers \cup {None}

(* Every value is of its kind, and no entry outlives the token it is for.  *)
TypeOK ==
  /\ now \in 0..MaxTime /\ endedAt \in [Users -> 0..MaxTime \cup {Never}]
  /\ cache \in [Tokens -> EntryType \cup {None}]
  /\ calls \in [Calls -> CallType]
  /\ \A t \in Cached : cache[t].expiresAt <= ClaimsOf[t].exp

(* The API answers only for the user who called the tool, and only when    *)
(* the token was exchanged: passing the caller's own token on never works, *)
(* whoever else's tokens were exchanged and cached meanwhile.              *)
OnBehalf ==
  \A c \in Calls : calls[c].result \in Users =>
    calls[c].result = Sub(calls[c].subject) /\ calls[c].tool = "downstream_profile"

(* A call in the terms of DelegationOracle: with a token bought for it, it *)
(* has a delegation.                                                       *)
Delegated(r) ==
  \/ r.phase = "issued"
  \/ r.phase = "calling" /\ r.tool = "downstream_profile" /\ r.token # Undefined
Credential(t) == [user |-> Sub(t), until |-> ClaimsOf[t].exp]
Stage(r) ==
  IF r.phase = "idle" THEN "free"
  ELSE IF r.phase = "done" THEN "answered"
  ELSE IF Delegated(r) THEN "delegated"
  ELSE "asked"
Asked(r) ==
  [state   |-> Stage(r),
   by      |-> IF r.phase = "idle" THEN None ELSE Credential(r.subject),
   goodFor |-> IF Delegated(r) THEN r.token.exp ELSE None,
   answer  |-> IF r.result \in Failures THEN "refused" ELSE r.result]
Asking == [c \in Calls |-> Asked(calls[c])]

Oracle == INSTANCE DelegationOracle
            WITH Credentials <- {Credential(t) : t \in Tokens}, Slots <- Calls,
                 Delay <- Lifetime, Nothing <- None, Refused <- "refused",
                 asked <- Asking

(* "No exchanged token outlives the login that produced it (inside the     *)
(* same MCP token lifetime, revocation at Keycloak is not seen)"           *)
(* (docs/10-token-exchange-downstream.md:309-311).  Whatever is exchanged, *)
(* cached, swept or late, a call is what the oracle allows: the downstream *)
(* answers about its caller or not at all, on a delegation obtained while  *)
(* the caller's token was good, and a logged-out user's last delegation is *)
(* over after the lifetime of one exchanged token.                         *)
ImplementsDelegation == Oracle!Spec

(* A cached token is used only while neither it nor the token it was       *)
(* bought with has expired, also when the caller's token was verified      *)
(* before it expired and the tool ran after.                               *)
CachedInTime ==
  \A c \in Calls : calls[c].hitAt # None =>
    /\ calls[c].token # Undefined => calls[c].hitAt < calls[c].token.exp
    /\ calls[c].hitAt < ClaimsOf[calls[c].subject].exp

(* No call takes a live entry away from another caller: the sweep at the   *)
(* limit drops only what has expired, and the entry a call deletes before  *)
(* it waits is never one a concurrent call has just stored.  (A late       *)
(* answer may replace it, also by one without a token.)                    *)
LiveKept == [][\A t \in Tokens : Live(t) => cache'[t] # None]_vars

(***************************************************************************)
(* What the properties rest on; ExchangeCache_proofs proves it             *)
(***************************************************************************)
(* A token bought with t: of the same user, for the API.                   *)
BoughtWith(t, token) ==
  \E exp \in 1..(MaxTime + Lifetime) : token = Exchanged(t, exp)

(* The token of an entry was bought with the token the entry is for, and   *)
(* the entry expires with both.                                            *)
Real == {t \in Cached : cache[t].token # Undefined}
CachedFor ==
  \A t \in Real :
    BoughtWith(t, cache[t].token) /\ cache[t].expiresAt <= cache[t].token.exp

(* Keycloak issued the token for a user whose sessions had not ended.      *)
InTime(token) ==
  /\ token.exp <= now + Lifetime
  /\ endedAt[token.sub] # Never => token.exp <= endedAt[token.sub] + Lifetime
TokensInTime ==
  /\ \A t \in Real : InTime(cache[t].token)
  /\ \A c \in Calls : Delegated(calls[c]) => InTime(calls[c].token)

(* What a call carries on its way: the profile tool a token bought with    *)
(* its caller's, the other the caller's own.                               *)
Carried(r) ==
  /\ r.phase # "idle" => r.subject \in Tokens /\ r.tool \in Tools
  /\ r.phase # "calling" => r.hitAt = None
  /\ r.phase # "done" => r.result = None
  /\ r.phase \in {"exchanging", "issued"} => r.tool = "downstream_profile"
  /\ Delegated(r) => BoughtWith(r.subject, r.token)
  /\ r.phase = "calling" /\ r.tool = "downstream_passthrough" => r.token = ClaimsOf[r.subject]

IInv ==
  /\ TypeOK /\ CachedFor /\ TokensInTime /\ OnBehalf /\ CachedInTime
  /\ \A c \in Calls : Carried(calls[c])
=============================================================================
