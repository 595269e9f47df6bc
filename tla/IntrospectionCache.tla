------------------------- MODULE IntrospectionCache -------------------------
(***************************************************************************)
(* The verifier of examples/07-token-introspection: every bearer token is  *)
(* looked up at Keycloak's introspection endpoint, and the answer, or the  *)
(* call still in flight, is kept in a map.  shared/keycloak.ts makes the   *)
(* call, after fetching the discovery document when nobody gave it one,    *)
(* and ends the user's sessions for revoke.ts.                             *)
(*                                                                         *)
(* An entry of the map is an object that the call it belongs to keeps      *)
(* writing to after the map has let go of it, so calls and cache are two   *)
(* variables: cache holds references.  Requests that await one promise all *)
(* continue when it settles; they are not told apart.                      *)
(***************************************************************************)
EXTENDS JwtPolicy, FiniteSets

CONSTANTS
  Tokens,         \* bearer tokens presented to the server
  Users,          \* users that can be logged out
  UserOf,         \* the user a token was issued to
  ClaimsOf,       \* per token: what Keycloak may have issued it with
  Calls,          \* pool of introspection calls (and their cache entries)
  NoCall,         \* no entry
  Audience,       \* accepted aud values
  RequiredScopes, \* scopes the caller must hold
  Ttl,            \* ttlSeconds
  NegativeTtl,    \* negativeTtlSeconds
  InFlight,       \* IN_FLIGHT_MS
  DiscoverMax,    \* HTTP timeout of the discovery request
  PostMax,        \* HTTP timeout of oauthPost
  PruneThreshold, \* CACHE_PRUNE_THRESHOLD
  MaxTime         \* bound on the clock

Never == -1       \* not yet: before every instant

ASSUME CacheConstants ==
  /\ Ttl \in Nat /\ NegativeTtl \in Nat /\ InFlight \in Nat
  /\ DiscoverMax \in Nat /\ PostMax \in Nat /\ PruneThreshold \in Nat /\ MaxTime \in Nat
  /\ UserOf \in [Tokens -> Users] /\ NoCall \notin Calls
  /\ NoExp \notin Int /\ Tokens # {}
  /\ \A t \in Tokens : \A cl \in ClaimsOf[t] : cl.exp \in Nat \cup {NoExp}

VARIABLES
  now,        \* the clock
  claims,     \* per token: what Keycloak issued it with
  revokedAt,  \* per token: when Keycloak ended its session, or Never
  discovery,  \* the discovery promise: none, pending or known
  calls,      \* per call: the entry it writes to
  cache,      \* the map: per token the call of its entry, or NoCall
  unreadAt,   \* history: when an unreadable answer about a token came, while it counts
  answered    \* history: [token, verdict] of the requests answered in the last step

vars == <<now, claims, revokedAt, discovery, calls, cache, unreadAt, answered>>
keycloakVars == <<claims, revokedAt>>

(* A call awaits discovery, then its POST; Keycloak samples the token; the *)
(* answer arrives, readable or not, or the call fails on the way.          *)
Pending == {"discovering", "posted", "sampled"}
States == Pending \cup {"idle", "done", "failed"}

(* The first token stands for the ones of an idle entry.                   *)
Idle == [token |-> CHOOSE t \in Tokens : TRUE, state |-> "idle", active |-> FALSE,
         deadline |-> 0, expires |-> 0]

Least(a, b) == IF a < b THEN a ELSE b
Most(a, b) == IF a < b THEN b ELSE a

InState(c, s) == calls[c].state \in s

(* A settled call nobody refers to is garbage.                             *)
Collected(cs, ca) ==
  [c \in Calls |-> IF cs[c].state \in {"done", "failed"} /\ \A t \in Tokens : ca[t] # c
                   THEN Idle ELSE cs[c]]

-----------------------------------------------------------------------------
(* With the discovery document given (buildApp) or to be fetched.          *)
Init ==
  /\ now = 0
  /\ claims \in {cl \in [Tokens -> UNION {ClaimsOf[t] : t \in Tokens}] :
                 \A t \in Tokens : cl[t] \in ClaimsOf[t]}
  /\ revokedAt = [t \in Tokens |-> Never]
  /\ discovery \in {"none", "known"}
  /\ calls = [c \in Calls |-> Idle]
  /\ cache = [t \in Tokens |-> NoCall]
  /\ unreadAt = [t \in Tokens |-> Never]
  /\ answered = {}

(* Keycloak's view of a token: it tells the introspecting client nothing   *)
(* of a token that is not meant for it.                                    *)
Meant(t) == claims[t].key = "keycloak" /\ claims[t].audience \cap Audience # {}

Active(t) ==
  /\ Meant(t)
  /\ revokedAt[t] = Never
  /\ claims[t].exp = NoExp \/ now < claims[t].exp

(* What is remembered of unreadable answers at a time: the last one, for   *)
(* one negative window.                                                    *)
Remembered(time) ==
  [t \in Tokens |-> IF unreadAt[t] + NegativeTtl < time THEN Never ELSE unreadAt[t]]

(* Time passes; a request is aborted in time.                              *)
Tick ==
  /\ now < MaxTime
  /\ \A c \in Calls : InState(c, Pending) => now < calls[c].deadline
  /\ now' = now + 1
  /\ unreadAt' = Remembered(now')
  /\ answered' = {}
  /\ UNCHANGED <<keycloakVars, discovery, calls, cache>>

(* Keycloak ends what it issued and has not ended before.                  *)
Revoke(ts) ==
  /\ revokedAt' = [t \in Tokens |->
       IF t \in ts /\ claims[t].key = "keycloak" /\ revokedAt[t] = Never THEN now ELSE revokedAt[t]]
  /\ answered' = {}
  /\ UNCHANGED <<now, claims, discovery, calls, cache, unreadAt>>

(* revokeToken(), of the client's own token.                               *)
RevokeToken(t) == Revoke({t})

(* adminLogoutUser(): every session of the user ends.                      *)
AdminLogoutUser(u) == Revoke({t \in Tokens : UserOf[t] = u})

-----------------------------------------------------------------------------
(* verifyAccessToken() with the settled call e of its token.               *)
(* Mutant of Verdict: an outage is reported as a dead token.               *)
VerdictBlamesToken(t, e) ==
  IF e.state = "failed" \/ ~e.active \/ claims[t].audience \cap Audience = {} THEN "invalid"
  ELSE IF ~(RequiredScopes \subseteq KeycloakEffectiveScopes(claims[t])) THEN "forbidden"
  ELSE IF ~BearerAccepts(claims[t].exp, now) /\ claims[t].exp # NoExp THEN "invalid"
  ELSE "granted"

(* Mutant of ExpiresAt: every answer is trusted for one window from now.   *)
ExpiresAtWindow(t) == now + Most(Ttl, 1)

(* Without exp the answer is trusted for one window from now.              *)
ExpiresAt(t) == IF claims[t].exp = NoExp THEN now + Most(Ttl, 1) ELSE claims[t].exp

Verdict(t, e) ==
  IF e.state = "failed" THEN "error"
  ELSE IF ~e.active \/ claims[t].audience \cap Audience = {} THEN "invalid"
  ELSE IF ~(RequiredScopes \subseteq KeycloakEffectiveScopes(claims[t])) THEN "forbidden"
  ELSE IF ~BearerAccepts(ExpiresAt(t), now) THEN "invalid"
  ELSE "granted"

(* Mutant of Hit: only a settled answer is shared.                         *)
SettledHit(t) ==
  cache[t] # NoCall /\ InState(cache[t], {"done"}) /\ calls[cache[t]].expires > now

Hit(t) == cache[t] # NoCall /\ calls[cache[t]].expires > now

(* lookup(): an entry that is still good answers at once, or when its call *)
(* settles.                                                                *)
LookupHit(t) ==
  /\ Hit(t)
  /\ answered' = IF InState(cache[t], Pending) THEN {}
                 ELSE {[token |-> t, verdict |-> Verdict(t, calls[cache[t]])]}
  /\ UNCHANGED <<now, keycloakVars, discovery, calls, cache, unreadAt>>

(* prune(): over the threshold, expired entries go.                        *)
Pruned(ca, cs) ==
  IF Cardinality({t \in Tokens : ca[t] # NoCall}) <= PruneThreshold THEN ca
  ELSE [t \in Tokens |->
    IF ca[t] # NoCall /\ cs[ca[t]].expires <= now THEN NoCall ELSE ca[t]]

(* A call of the pool is the new entry of the token; it joins the pending  *)
(* discovery or starts it.                                                 *)
StartCall(t, c) ==
  LET awaits == {d \in Calls : InState(d, {"discovering"})}
      deadline == IF discovery = "known" THEN now + PostMax
                  ELSE IF discovery = "none" THEN now + DiscoverMax
                  ELSE calls[CHOOSE d \in awaits : TRUE].deadline
      entry == [token |-> t, active |-> FALSE, deadline |-> deadline,
                expires |-> now + InFlight,
                state |-> IF discovery = "known" THEN "posted" ELSE "discovering"]
      cs == [calls EXCEPT ![c] = entry]
  IN  /\ cache' = Pruned([cache EXCEPT ![t] = c], cs)
      /\ calls' = Collected(cs, cache')

(* lookup() without a good entry.                                          *)
LookupMiss(t) ==
  /\ ~Hit(t)
  /\ \E c \in Calls : InState(c, {"idle"}) /\ StartCall(t, c)
  /\ discovery' = IF discovery = "none" THEN "pending" ELSE discovery
  /\ answered' = {}
  /\ UNCHANGED <<now, keycloakVars, unreadAt>>

-----------------------------------------------------------------------------
(* discoverKeycloak() has the document.                                    *)
Discovered ==
  /\ discovery = "pending"
  /\ discovery' = "known"
  /\ calls' = [c \in Calls |-> IF InState(c, {"discovering"})
       THEN [calls[c] EXCEPT !.state = "posted", !.deadline = now + PostMax] ELSE calls[c]]
  /\ answered' = {}
  /\ UNCHANGED <<now, keycloakVars, cache, unreadAt>>

(* Keycloak looks at the token of a call.                                  *)
Introspect(c) ==
  /\ InState(c, {"posted"})
  /\ calls' = [calls EXCEPT ![c].state = "sampled", ![c].active = Active(calls[c].token)]
  /\ answered' = {}
  /\ UNCHANGED <<now, keycloakVars, discovery, cache, unreadAt>>

(* Mutant of ValidFor: a positive answer is good until the token expires.  *)
ValidForever(e) ==
  IF ~e.active THEN NegativeTtl
  ELSE IF claims[e.token].exp = NoExp THEN MaxTime ELSE Most(claims[e.token].exp - now, 0)

(* How long an answer is kept, from its arrival.                           *)
ValidFor(e) ==
  IF ~e.active THEN NegativeTtl
  ELSE IF claims[e.token].exp = NoExp THEN Ttl
  ELSE Most(Least(Ttl, claims[e.token].exp - now), 0)

(* introspectFn() resolves with the answer of e: the entry of the call     *)
(* gets its lifetime, in the map or not, and the requests that wait for it *)
(* are answered.                                                           *)
Answered(c, e) ==
  LET done == [e EXCEPT !.state = "done", !.deadline = 0, !.expires = now + ValidFor(e)] IN
  /\ calls' = Collected([calls EXCEPT ![c] = done], cache)
  /\ answered' = {[token |-> e.token, verdict |-> Verdict(e.token, done)]}
  /\ UNCHANGED <<now, keycloakVars, discovery, cache>>

Settle(c) ==
  /\ InState(c, {"sampled"})
  /\ Answered(c, calls[c])
  /\ UNCHANGED unreadAt

(* Mutant of SettleUnread: an answer nobody could read is taken for good   *)
(* news.                                                                   *)
SettleUnreadAsGood(c) ==
  /\ InState(c, {"sampled"})
  /\ Answered(c, [calls[c] EXCEPT !.active = TRUE])
  /\ unreadAt' = [unreadAt EXCEPT ![calls[c].token] = now]

(* readJson(): a 200 whose body is cut off, is not JSON, or does not come  *)
(* within the timeout reads as {}.  It settles the call like an answer     *)
(* that says "not active".                                                 *)
SettleUnread(c) ==
  /\ InState(c, {"sampled"})
  /\ Answered(c, [calls[c] EXCEPT !.active = FALSE])
  /\ unreadAt' = [unreadAt EXCEPT ![calls[c].token] = now]

(* Mutant of Forgotten: the entry of the token goes, whoever's it is.      *)
ForgottenByToken(failed) ==
  [t \in Tokens |-> IF \E c \in failed : calls[c].token = t THEN NoCall ELSE cache[t]]

(* Mutant of Forgotten: the failed entry stays.                            *)
ForgottenNever(failed) == cache

(* The rejected calls leave the map if their entry is the one in it.       *)
Forgotten(failed) ==
  [t \in Tokens |-> IF cache[t] \in failed THEN NoCall ELSE cache[t]]

Rejected(failed) ==
  LET cs == [c \in Calls |-> IF c \in failed
               THEN [calls[c] EXCEPT !.state = "failed", !.deadline = 0] ELSE calls[c]] IN
  /\ cache' = Forgotten(failed)
  /\ calls' = Collected(cs, cache')
  /\ answered' = {[token |-> calls[c].token, verdict |-> Verdict(calls[c].token, cs[c])] : c \in failed}
  /\ UNCHANGED <<now, keycloakVars, unreadAt>>

(* oauthPost() or readJson() throws: a network error or a timeout before   *)
(* the head of the answer, or an error status.                             *)
Fail(c) ==
  /\ InState(c, {"posted", "sampled"})
  /\ Rejected({c})
  /\ UNCHANGED discovery

(* Discovery fails: whoever awaits it, and the next one starts it anew.    *)
DiscoveryFails ==
  /\ discovery = "pending"
  /\ discovery' = "none"
  /\ Rejected({c \in Calls : InState(c, {"discovering"})})

Next ==
  \/ Tick
  \/ \E u \in Users : AdminLogoutUser(u)
  \/ \E t \in Tokens : RevokeToken(t)
  \/ \E t \in Tokens : LookupHit(t)
  \/ \E t \in Tokens : LookupMiss(t)
  \/ Discovered
  \/ DiscoveryFails
  \/ \E c \in Calls : Introspect(c)
  \/ \E c \in Calls : Settle(c)
  \/ \E c \in Calls : SettleUnread(c)
  \/ \E c \in Calls : Fail(c)

Spec == Init /\ [][Next]_vars

-----------------------------------------------------------------------------
CallType ==
  [token : Tokens, state : States, active : BOOLEAN, deadline : Nat,
   expires : 0..(MaxTime + Most(InFlight, Most(Ttl, NegativeTtl)))]

(* Type invariant; an entry of the map is of its token, and no call that   *)
(* threw stays in it (server.ts:143).                                      *)
TypeOK ==
  /\ now \in 0..MaxTime
  /\ \A t \in Tokens : claims[t] \in ClaimsOf[t]
  /\ revokedAt \in [Tokens -> 0..MaxTime \cup {Never}]
  /\ unreadAt \in [Tokens -> 0..MaxTime \cup {Never}]
  /\ discovery \in {"none", "pending", "known"}
  /\ calls \in [Calls -> CallType]
  /\ cache \in [Tokens -> Calls \cup {NoCall}]
  /\ answered \subseteq [token : Tokens, verdict : {"granted", "invalid", "forbidden", "error"}]
  /\ \A t \in Tokens : cache[t] # NoCall =>
       calls[cache[t]].token = t /\ ~InState(cache[t], {"idle", "failed"})

(* A revoked token is granted for a bounded time only: one cache window    *)
(* plus the POST that filled it.                                           *)
FreshGrants ==
  \A a \in answered : a.verdict = "granted" =>
    \/ revokedAt[a.token] = Never
    \/ now <= revokedAt[a.token] + Ttl + PostMax

(* "(= worst-case revocation latency)", server.ts:44: the cache window     *)
(* alone bounds how long a revoked token is granted.  It does not: the     *)
(* window starts when the answer arrives (:136), not when Keycloak gave it.*)
RevokedWithinWindow ==
  \A a \in answered : a.verdict = "granted" =>
    revokedAt[a.token] = Never \/ now <= revokedAt[a.token] + Ttl

(* A client is told 401 only about a token that Keycloak would not honour  *)
(* either, or about which it gave an unreadable answer not longer than one *)
(* negative window ago.                                                    *)
HonestRefusals ==
  \A a \in answered : a.verdict = "invalid" =>
    \/ ~Active(a.token)
    \/ unreadAt[a.token] # Never

(* "OUR outage, not the client's fault ... and it is never cached",        *)
(* server.ts:67-70: whatever fails, no good token is called invalid.  An   *)
(* answer that cannot be read is (keycloak.ts:138).                        *)
OutagesNeverBlamed ==
  \A a \in answered : a.verdict = "invalid" => ~Active(a.token)

(* "One in-flight call per token": a second one starts only when the first *)
(* has been in flight for InFlight.                                        *)
OneCall ==
  \A c, d \in Calls :
    /\ c # d /\ calls[c].token = calls[d].token
    /\ InState(c, Pending) /\ InState(d, Pending)
    => calls[c].expires <= now \/ calls[d].expires <= now

(* An entry that is good stays in the map until it expires or its own call *)
(* fails: neither pruning nor an older call of the token takes it away.    *)
GoodEntriesStay ==
  [][\A t \in Tokens : Hit(t) /\ cache'[t] # cache[t] =>
       InState(cache[t], Pending) /\ calls'[cache[t]].state \notin Pending]_vars

-----------------------------------------------------------------------------
(* When Keycloak stops honouring a token by itself.                        *)
Until ==
  [t \in Tokens |-> IF Meant(t) THEN claims[t].exp ELSE Never]

Oracle == INSTANCE RevocationOracle WITH
  Delay <- Ttl + PostMax, Blame <- NegativeTtl, Forever <- NoExp,
  until <- Until, endedAt <- revokedAt, unheardAt <- unreadAt, answers <- answered

(* ImplementsOracle: with its cache, its shared calls and its failures the *)
(* verifier answers as if it looked at every token at once, but for tokens *)
(* that were ended less than one window and one POST ago, and for those    *)
(* about which an answer was unreadable less than a negative window ago.   *)
ImplementsOracle == Oracle!Spec

-----------------------------------------------------------------------------
(* What the properties rest on; IntrospectionCache_proofs proves it.       *)

(* The POST of a call ends within PostMax.  A negative answer stays true,  *)
(* if it was one, and else is not kept beyond its window.                  *)
(* A positive one was true when Keycloak gave it: what was revoked since,  *)
(* was revoked after the POST began, which bounds how long it is trusted.  *)
(* A call in flight is in the map until InFlight has passed.               *)
EntryOK(c, e) ==
  LET Outlived(time, delay) == revokedAt[e.token] # Never => time <= revokedAt[e.token] + delay IN
  /\ e.state \in {"posted", "sampled"} => now <= e.deadline /\ e.deadline <= now + PostMax
  /\ e.active => Meant(e.token)
  /\ e.state = "sampled" /\ ~e.active => ~Active(e.token)
  /\ e.state = "done" /\ ~e.active =>
       \/ ~Active(e.token)
       \/ e.expires < now
       \/ unreadAt[e.token] # Never /\ e.expires <= unreadAt[e.token] + NegativeTtl
  /\ e.state = "sampled" /\ e.active => Outlived(e.deadline, PostMax)
  /\ e.state = "done" /\ e.active =>
       e.expires <= now + Ttl /\ Outlived(e.expires, Ttl + PostMax)
  /\ e.state \in Pending => e.expires <= now \/ cache[e.token] = c

EntriesOK == \A c \in Calls : EntryOK(c, calls[c])

(* Only the unreadable answers of the last negative window are remembered. *)
UnreadLately ==
  \A t \in Tokens :
    unreadAt[t] # Never => unreadAt[t] <= now /\ now <= unreadAt[t] + NegativeTtl

(* Pending discovery is awaited by a call.                                 *)
Awaited == discovery = "pending" => \E c \in Calls : InState(c, {"discovering"})

(* What is granted was issued for this server and has not expired.         *)
LiveGrants ==
  \A a \in answered : a.verdict = "granted" =>
    Meant(a.token) /\ (claims[a.token].exp = NoExp \/ now <= claims[a.token].exp)

IInv ==
  /\ TypeOK /\ EntriesOK /\ Awaited /\ UnreadLately
  /\ LiveGrants /\ FreshGrants /\ HonestRefusals /\ OneCall
=============================================================================
