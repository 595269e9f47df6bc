---------------------- MODULE IntrospectionCache_proofs ----------------------
(***************************************************************************)
(* Proofs about IntrospectionCache, for every value of its constants.      *)
(***************************************************************************)
EXTENDS IntrospectionCache, TLAPS

(* The longest time an entry is kept.                                      *)
LEMMA KeptAtMost ==
  LET longest == Most(InFlight, Most(Ttl, NegativeTtl)) IN
  longest \in Nat /\ InFlight <= longest /\ Ttl <= longest /\ NegativeTtl <= longest
BY CacheConstants DEF Most

LEMMA IdleType == Idle \in CallType /\ Idle.state = "idle" /\ Idle.active = FALSE
<1>1. (CHOOSE t \in Tokens : TRUE) \in Tokens
  BY CacheConstants
<1>2. 0 \in 0..(MaxTime + Most(InFlight, Most(Ttl, NegativeTtl)))
  BY KeptAtMost, CacheConstants
<1>3. QED
  BY <1>1, <1>2 DEF Idle, CallType, States

(* The times the properties compare.                                       *)
LEMMA Times ==
  ASSUME TypeOK
  PROVE  /\ now \in Nat
         /\ \A t \in Tokens : revokedAt[t] \in Int /\ revokedAt[t] \in 0..MaxTime \cup {Never}
         /\ \A t \in Tokens : unreadAt[t] \in Int /\ unreadAt[t] \in 0..MaxTime \cup {Never}
         /\ \A t \in Tokens : claims[t].exp \in Nat \cup {NoExp}
         /\ NoExp \notin Nat
         /\ \A e \in CallType :
              e.token \in Tokens /\ e.active \in BOOLEAN /\ e.deadline \in Nat /\ e.expires \in Nat
<1>1. \A e \in CallType : e.expires \in Nat /\ e.deadline \in Nat
  BY KeptAtMost, CacheConstants DEF CallType
<1>2. QED
  BY <1>1, CacheConstants DEF TypeOK, Never, CallType

(* What collecting garbage leaves.                                         *)
LEMMA CollectedLeaves ==
  ASSUME NEW cs \in [Calls -> CallType], NEW ca \in [Tokens -> Calls \cup {NoCall}]
  PROVE  /\ Collected(cs, ca) \in [Calls -> CallType]
         /\ \A c \in Calls : Collected(cs, ca)[c] \in {cs[c], Idle}
         /\ \A c \in Calls : cs[c].state \notin {"done", "failed"} => Collected(cs, ca)[c] = cs[c]
         /\ \A t \in Tokens : ca[t] # NoCall => Collected(cs, ca)[ca[t]] = cs[ca[t]]
BY IdleType DEF Collected

(* A step whose calls are, but for garbage, good entries cs that the map   *)
(* refers to rightly.                                                      *)
LEMMA EntriesStep ==
  ASSUME IInv, NEW cs \in [Calls -> CallType],
         now' \in 0..MaxTime, claims' = claims,
         revokedAt' \in [Tokens -> 0..MaxTime \cup {Never}],
         unreadAt' \in [Tokens -> 0..MaxTime \cup {Never}], UnreadLately',
         discovery' \in {"none", "pending", "known"},
         cache' \in [Tokens -> Calls \cup {NoCall}],
         answered' \subseteq [token : Tokens, verdict : {"granted", "invalid", "forbidden", "error"}],
         calls' = cs \/ calls' = Collected(cs, cache'),
         \A c \in Calls : EntryOK(c, cs[c])',
         \A t \in Tokens : cache'[t] # NoCall =>
           cs[cache'[t]].token = t /\ cs[cache'[t]].state \notin {"idle", "failed"},
         discovery' = "pending" => \E c \in Calls : cs[c].state = "discovering"
  PROVE  TypeOK' /\ EntriesOK' /\ Awaited' /\ UnreadLately' /\ OneCall'
<1>1. /\ calls' \in [Calls -> CallType]
      /\ \A c \in Calls : calls'[c] \in {cs[c], Idle}
      /\ \A c \in Calls : cs[c].state \notin {"done", "failed"} => calls'[c] = cs[c]
      /\ \A t \in Tokens : cache'[t] # NoCall => calls'[cache'[t]] = cs[cache'[t]]
  BY CollectedLeaves
<1>2. TypeOK'
  BY <1>1 DEF IInv, TypeOK, InState
<1>3. EntriesOK'
  <2>1. ASSUME NEW c \in Calls PROVE EntryOK(c, calls[c])'
    <3>1. CASE calls'[c] = cs[c]
      BY <3>1 DEF EntryOK
    <3>2. CASE calls'[c] = Idle
      BY <3>2, IdleType DEF EntryOK, Pending
    <3>3. QED
      BY <1>1, <3>1, <3>2
  <2>2. QED
    BY <2>1 DEF EntriesOK
<1>4. Awaited'
  BY <1>1 DEF Awaited, InState
<1>5. OneCall'
  <2>1. ASSUME NEW c \in Calls, calls'[c].state \in Pending, ~(calls'[c].expires <= now')
        PROVE  cache'[calls'[c].token] = c
    BY <1>3, <2>1 DEF EntriesOK, EntryOK
  <2>2. QED
    BY <2>1 DEF OneCall, InState
<1>6. QED
  BY <1>2, <1>3, <1>4, <1>5

(* A verdict given on a good entry that is not over.                       *)
LEMMA VerdictSound ==
  ASSUME TypeOK, NEW c \in Calls, NEW e \in CallType, EntryOK(c, e),
         e.state = "done" => now <= e.expires, e.state \in {"done", "failed"}
  PROVE  /\ Verdict(e.token, e) \in {"granted", "invalid", "forbidden", "error"}
         /\ Verdict(e.token, e) = "granted" =>
              /\ Meant(e.token)
              /\ claims[e.token].exp = NoExp \/ now <= claims[e.token].exp
              /\ revokedAt[e.token] = Never \/ now <= revokedAt[e.token] + Ttl + PostMax
         /\ Verdict(e.token, e) = "invalid" => ~Active(e.token) \/ unreadAt[e.token] # Never
<1>1. /\ now \in Nat /\ e.token \in Tokens /\ e.expires \in Nat
      /\ revokedAt[e.token] \in Int /\ claims[e.token].exp \in Nat \cup {NoExp}
      /\ NoExp \notin Nat /\ Ttl \in Nat /\ PostMax \in Nat
  BY Times, CacheConstants
<1>2. Verdict(e.token, e) \in {"granted", "invalid", "forbidden", "error"}
  BY DEF Verdict
<1>3. ASSUME Verdict(e.token, e) = "granted"
      PROVE  /\ Meant(e.token)
             /\ claims[e.token].exp = NoExp \/ now <= claims[e.token].exp
             /\ revokedAt[e.token] = Never \/ now <= revokedAt[e.token] + Ttl + PostMax
  <2>1. e.state = "done" /\ e.active /\ BearerAccepts(ExpiresAt(e.token), now)
    BY <1>3 DEF Verdict
  <2>2. revokedAt[e.token] # Never => e.expires <= revokedAt[e.token] + (Ttl + PostMax)
    BY <2>1 DEF EntryOK
  <2>3. Meant(e.token)
    BY <2>1 DEF EntryOK
  <2>4. claims[e.token].exp = NoExp \/ now <= claims[e.token].exp
    BY <1>1, <2>1 DEF BearerAccepts, ExpiresAt
  <2>5. revokedAt[e.token] = Never \/ now <= revokedAt[e.token] + Ttl + PostMax
    BY <1>1, <2>1, <2>2
  <2>6. QED
    BY <2>3, <2>4, <2>5
<1>4. ASSUME Verdict(e.token, e) = "invalid" PROVE ~Active(e.token) \/ unreadAt[e.token] # Never
  <2>1. e.state = "done"
    BY <1>4 DEF Verdict
  <2>2. CASE ~e.active
    BY <1>1, <2>1, <2>2 DEF EntryOK
  <2>3. CASE claims[e.token].audience \cap Audience = {}
    BY <2>3 DEF Active, Meant
  <2>4. CASE ~BearerAccepts(ExpiresAt(e.token), now)
    <3>1. Most(Ttl, 1) \in Nat
      BY <1>1 DEF Most
    <3>2. claims[e.token].exp # NoExp /\ claims[e.token].exp < now
      BY <1>1, <2>4, <3>1 DEF BearerAccepts, ExpiresAt
    <3>3. QED
      BY <1>1, <3>2 DEF Active
  <2>5. QED
    BY <1>4, <2>2, <2>3, <2>4 DEF Verdict
<1>5. QED
  BY <1>2, <1>3, <1>4

(* Nothing is said of a token that was not answered.                       *)
LEMMA Unanswered == answered' = {} => LiveGrants' /\ FreshGrants' /\ HonestRefusals'
BY DEF LiveGrants, FreshGrants, HonestRefusals

(* What is answered in a step of the same instant is sound when every      *)
(* answer is a verdict on such an entry.                                   *)
LEMMA AnsweredSoundly ==
  ASSUME TypeOK, now' = now, claims' = claims, revokedAt' = revokedAt, unreadAt' = unreadAt,
         \A a \in answered' :
           /\ a.verdict = "granted" =>
                /\ Meant(a.token)
                /\ claims[a.token].exp = NoExp \/ now <= claims[a.token].exp
                /\ revokedAt[a.token] = Never \/ now <= revokedAt[a.token] + Ttl + PostMax
           /\ a.verdict = "invalid" => ~Active(a.token) \/ unreadAt[a.token] # Never
  PROVE  LiveGrants' /\ FreshGrants' /\ HonestRefusals'
BY DEF LiveGrants, FreshGrants, HonestRefusals, Active, Meant

(* An entry stays good while no time passes, nothing is revoked, and the   *)
(* map keeps it when it is in flight; a new unreadable answer about its    *)
(* token makes the window of a negative entry no shorter.                  *)
LEMMA EntryStays ==
  ASSUME NEW c \in Calls, NEW e \in CallType, EntryOK(c, e),
         now' = now, claims' = claims, revokedAt' = revokedAt, unreadAt' = unreadAt,
         e.state \in Pending => e.expires <= now \/ cache'[e.token] = c
  PROVE  EntryOK(c, e)'
BY DEF EntryOK, Active, Meant

LEMMA EntryStaysUnread ==
  ASSUME IInv, NEW c \in Calls, NEW e \in CallType, EntryOK(c, e), NEW t \in Tokens,
         now' = now, claims' = claims, revokedAt' = revokedAt,
         unreadAt' = [unreadAt EXCEPT ![t] = now],
         e.state \in Pending => e.expires <= now \/ cache'[e.token] = c
  PROVE  EntryOK(c, e)'
<1>1. e.token \in Tokens /\ e.expires \in Nat /\ now \in Nat /\ unreadAt[e.token] \in Int
  BY Times DEF IInv
<1>2. unreadAt'[e.token] = IF e.token = t THEN now ELSE unreadAt[e.token]
  BY <1>1 DEF IInv, TypeOK
<1>3. unreadAt[e.token] # Never =>
        unreadAt'[e.token] # Never /\ unreadAt[e.token] <= unreadAt'[e.token]
  BY <1>1, <1>2 DEF IInv, UnreadLately, Never
<1>4. unreadAt'[e.token] \in Int /\ NegativeTtl \in Nat
  BY <1>1, <1>2, CacheConstants
<1>5. unreadAt[e.token] # Never /\ e.expires <= unreadAt[e.token] + NegativeTtl =>
        unreadAt'[e.token] # Never /\ e.expires <= unreadAt'[e.token] + NegativeTtl
  BY <1>1, <1>3, <1>4
<1>6. Active(e.token)' <=> Active(e.token)
  BY DEF Active, Meant
<1>7. QED
  BY <1>5, <1>6 DEF EntryOK, Meant

(* What a step of the same instant remembers of unreadable answers.        *)
LEMMA UnreadStays ==
  ASSUME IInv, now' = now, unreadAt' = unreadAt
  PROVE  unreadAt' \in [Tokens -> 0..MaxTime \cup {Never}] /\ UnreadLately'
BY DEF IInv, TypeOK, UnreadLately

-----------------------------------------------------------------------------
LEMMA InitIInv == Init => IInv
<1> SUFFICES ASSUME Init PROVE IInv
  OBVIOUS
<1>1. /\ calls \in [Calls -> CallType]
      /\ \A c \in Calls : calls[c].state = "idle" /\ calls[c].active = FALSE
  BY IdleType DEF Init
<1>2. TypeOK
  BY <1>1, CacheConstants DEF Init, TypeOK
<1>3. EntriesOK /\ Awaited /\ OneCall
  BY <1>1, CacheConstants
  DEF Init, EntriesOK, EntryOK, Awaited, OneCall, InState, Pending
<1>4. LiveGrants /\ FreshGrants /\ HonestRefusals /\ UnreadLately
  BY DEF Init, LiveGrants, FreshGrants, HonestRefusals, UnreadLately
<1>5. QED
  BY <1>2, <1>3, <1>4 DEF IInv

(* The calls as they are satisfy what a step that leaves them needs.       *)
LEMMA CallsAsTheyAre ==
  ASSUME IInv
  PROVE  /\ calls \in [Calls -> CallType]
         /\ \A c \in Calls : calls[c] \in CallType /\ EntryOK(c, calls[c])
         /\ cache \in [Tokens -> Calls \cup {NoCall}]
         /\ \A t \in Tokens : cache[t] # NoCall =>
              /\ cache[t] \in Calls /\ calls[cache[t]].token = t
              /\ calls[cache[t]].state \notin {"idle", "failed"}
         /\ discovery = "pending" => \E c \in Calls : calls[c].state = "discovering"
BY DEF IInv, TypeOK, EntriesOK, Awaited, InState

LEMMA TickIInv == ASSUME IInv, Tick PROVE IInv'
<1>1. PICK cs \in [Calls -> CallType] : cs = calls
  BY CallsAsTheyAre
<1>2. /\ now \in Nat /\ now' = now + 1 /\ now' \in 0..MaxTime
  BY Times, CacheConstants DEF IInv, Tick
<1>3. /\ claims' = claims /\ revokedAt' = revokedAt /\ discovery' = discovery
      /\ calls' = calls /\ cache' = cache /\ answered' = {}
      /\ \A t \in Tokens :
           unreadAt'[t] = IF unreadAt[t] + NegativeTtl < now' THEN Never ELSE unreadAt[t]
      /\ unreadAt' \in [Tokens -> 0..MaxTime \cup {Never}]
  BY DEF Tick, keycloakVars, Remembered, IInv, TypeOK
<1>4. ASSUME NEW c \in Calls PROVE EntryOK(c, cs[c])'
  <2>1. /\ cs[c] \in CallType /\ EntryOK(c, cs[c])
        /\ cs[c].state \in Pending => now < cs[c].deadline
    BY <1>1, CallsAsTheyAre DEF Tick, InState
  <2>2. /\ cs[c].deadline \in Nat /\ cs[c].expires \in Nat /\ cs[c].token \in Tokens
        /\ PostMax \in Nat /\ Ttl \in Nat
    BY <2>1, Times, CacheConstants DEF IInv
  <2>3. /\ ~Active(cs[c].token) => ~Active(cs[c].token)'
        /\ Meant(cs[c].token) => Meant(cs[c].token)'
    BY <1>2, <1>3, <2>2, Times DEF Active, Meant, IInv
  <2>4. unreadAt[cs[c].token] \in Int /\ NegativeTtl \in Nat
    BY <2>2, Times, CacheConstants DEF IInv
  <2>5. cs[c].state = "done" /\ ~cs[c].active =>
          \/ ~Active(cs[c].token)'
          \/ cs[c].expires < now'
          \/ unreadAt'[cs[c].token] # Never /\ cs[c].expires <= unreadAt'[cs[c].token] + NegativeTtl
    BY <1>2, <1>3, <2>1, <2>2, <2>3, <2>4 DEF EntryOK
  <2>6. cs[c].state = "sampled" /\ ~cs[c].active => ~Active(cs[c].token)'
    BY <2>1, <2>3 DEF EntryOK
  <2>7. cs[c].state \in {"posted", "sampled"} => now' <= cs[c].deadline /\ cs[c].deadline <= now' + PostMax
    BY <1>2, <2>1, <2>2 DEF EntryOK, Pending
  <2>8. cs[c].state = "done" /\ cs[c].active => cs[c].expires <= now' + Ttl
    BY <1>2, <2>1, <2>2 DEF EntryOK
  <2>9. cs[c].state \in Pending => cs[c].expires <= now' \/ cache'[cs[c].token] = c
    BY <1>2, <1>3, <2>1, <2>2 DEF EntryOK
  <2>10. QED
    BY <1>3, <2>1, <2>3, <2>5, <2>6, <2>7, <2>8, <2>9 DEF EntryOK
<1>5. TypeOK' /\ EntriesOK' /\ Awaited' /\ UnreadLately' /\ OneCall'
  <2>1. answered' \subseteq [token : Tokens, verdict : {"granted", "invalid", "forbidden", "error"}]
    BY <1>3
  <2>2. revokedAt' \in [Tokens -> 0..MaxTime \cup {Never}]
        /\ discovery' \in {"none", "pending", "known"}
    BY <1>3 DEF IInv, TypeOK
  <2>3. UnreadLately'
    <3>1. ASSUME NEW t \in Tokens, unreadAt'[t] # Never
          PROVE  unreadAt'[t] <= now' /\ now' <= unreadAt'[t] + NegativeTtl
      <4>1. unreadAt[t] \in Int /\ NegativeTtl \in Nat /\ unreadAt'[t] = unreadAt[t]
        BY <1>3, <3>1, Times, CacheConstants DEF IInv
      <4>2. unreadAt[t] <= now /\ ~(unreadAt[t] + NegativeTtl < now')
        BY <1>3, <3>1, <4>1 DEF IInv, UnreadLately
      <4>3. QED
        BY <1>2, <4>1, <4>2
    <3>2. QED
      BY <3>1 DEF UnreadLately
  <2>4. QED
    BY <1>1, <1>2, <1>3, <1>4, <2>1, <2>2, <2>3, CallsAsTheyAre, EntriesStep
<1>6. QED
  BY <1>3, <1>5, Unanswered DEF IInv

LEMMA RevokeIInv == ASSUME IInv, NEW ts, Revoke(ts) PROVE IInv'
<1>1. PICK cs \in [Calls -> CallType] : cs = calls
  BY CallsAsTheyAre
<1>2. /\ now' = now /\ claims' = claims /\ discovery' = discovery
      /\ calls' = calls /\ cache' = cache /\ answered' = {} /\ unreadAt' = unreadAt
  BY DEF Revoke
<1>3. now \in Nat /\ now \in 0..MaxTime /\ Ttl \in Nat /\ PostMax \in Nat
  BY Times, CacheConstants DEF IInv, TypeOK
<1>4. ASSUME NEW t \in Tokens
      PROVE  revokedAt'[t] = revokedAt[t] \/ (revokedAt[t] = Never /\ revokedAt'[t] = now)
  <2>1. revokedAt'[t] = IF t \in ts /\ claims[t].key = "keycloak" /\ revokedAt[t] = Never
                        THEN now ELSE revokedAt[t]
    BY DEF Revoke
  <2>2. QED
    BY <2>1
<1>5. revokedAt' \in [Tokens -> 0..MaxTime \cup {Never}]
  BY <1>3 DEF Revoke, IInv, TypeOK
<1>6. ASSUME NEW c \in Calls PROVE EntryOK(c, cs[c])'
  <2>1. cs[c] \in CallType /\ EntryOK(c, cs[c])
    BY <1>1, CallsAsTheyAre
  <2>2. cs[c].deadline \in Nat /\ cs[c].expires \in Nat /\ cs[c].token \in Tokens
    BY <2>1, Times DEF IInv
  <2>3. now # Never
    BY <1>3 DEF Never
  <2>4. /\ ~Active(cs[c].token) => ~Active(cs[c].token)'
        /\ Meant(cs[c].token) => Meant(cs[c].token)'
    BY <1>2, <1>4, <2>2, <2>3 DEF Active, Meant
  <2>5. cs[c].state \in {"posted", "sampled"} => cs[c].deadline <= now + PostMax
    BY <2>1 DEF EntryOK
  <2>6. cs[c].state = "done" /\ cs[c].active => cs[c].expires <= now + Ttl
    BY <2>1 DEF EntryOK
  <2>7. cs[c].state = "done" /\ cs[c].active => cs[c].expires <= now + (Ttl + PostMax)
    BY <1>3, <2>2, <2>6
  <2>8. QED
    BY <1>2, <1>4, <2>1, <2>2, <2>4, <2>5, <2>6, <2>7 DEF EntryOK
<1>7. TypeOK' /\ EntriesOK' /\ Awaited' /\ UnreadLately' /\ OneCall'
  <2>1. answered' \subseteq [token : Tokens, verdict : {"granted", "invalid", "forbidden", "error"}]
    BY <1>2
  <2>2. discovery' \in {"none", "pending", "known"}
    BY <1>2 DEF IInv, TypeOK
  <2>3. QED
    BY <1>1, <1>2, <1>3, <1>5, <1>6, <2>1, <2>2, CallsAsTheyAre, UnreadStays, EntriesStep
<1>8. QED
  BY <1>2, <1>7, Unanswered DEF IInv

-----------------------------------------------------------------------------
LEMMA LookupHitIInv == ASSUME IInv, NEW t \in Tokens, LookupHit(t) PROVE IInv'
<1>1. PICK cs \in [Calls -> CallType] : cs = calls
  BY CallsAsTheyAre
<1>2. /\ now' = now /\ claims' = claims /\ revokedAt' = revokedAt /\ discovery' = discovery
      /\ calls' = calls /\ cache' = cache /\ unreadAt' = unreadAt
  BY DEF LookupHit, keycloakVars
<1>3. cache[t] \in Calls /\ calls[cache[t]].token = t /\ now < calls[cache[t]].expires
  <2>1. cache[t] # NoCall /\ calls[cache[t]].expires > now
    BY DEF LookupHit, Hit
  <2>2. cache[t] \in Calls /\ calls[cache[t]] \in CallType /\ calls[cache[t]].token = t
    BY <2>1, CallsAsTheyAre
  <2>3. QED
    BY <2>1, <2>2, Times DEF IInv
<1>4. PICK e \in CallType : e = calls[cache[t]]
  BY <1>3, CallsAsTheyAre
<1>5. answered' = {} \/ (e.state \notin Pending /\ answered' = {[token |-> t, verdict |-> Verdict(t, e)]})
  BY <1>4 DEF LookupHit, InState
<1>6. ASSUME e.state \notin Pending
      PROVE  /\ Verdict(t, e) \in {"granted", "invalid", "forbidden", "error"}
             /\ Verdict(t, e) = "granted" =>
                  /\ Meant(t)
                  /\ claims[t].exp = NoExp \/ now <= claims[t].exp
                  /\ revokedAt[t] = Never \/ now <= revokedAt[t] + Ttl + PostMax
             /\ Verdict(t, e) = "invalid" => ~Active(t) \/ unreadAt[t] # Never
  <2>1. e.state \in {"done", "failed"}
    BY <1>3, <1>4, <1>6, CallsAsTheyAre, CacheConstants DEF CallType, States
  <2>2. EntryOK(cache[t], e) /\ e.token = t /\ now <= e.expires
    BY <1>3, <1>4, CallsAsTheyAre, Times DEF IInv
  <2>3. QED
    BY <1>3, <2>1, <2>2, VerdictSound DEF IInv
<1>7. LiveGrants' /\ FreshGrants' /\ HonestRefusals'
  BY <1>2, <1>5, <1>6, AnsweredSoundly, Unanswered DEF IInv
<1>8. ASSUME NEW c \in Calls PROVE EntryOK(c, cs[c])'
  <2>1. EntryOK(c, cs[c]) /\ cs[c] \in CallType
    BY <1>1, CallsAsTheyAre
  <2>2. cs[c].state \in Pending => cs[c].expires <= now \/ cache'[cs[c].token] = c
    BY <1>2, <2>1 DEF EntryOK
  <2>3. QED
    BY <1>2, <2>1, <2>2, EntryStays
<1>9. TypeOK' /\ EntriesOK' /\ Awaited' /\ UnreadLately' /\ OneCall'
  <2>1. answered' \subseteq [token : Tokens, verdict : {"granted", "invalid", "forbidden", "error"}]
    BY <1>5, <1>6
  <2>2. /\ discovery' \in {"none", "pending", "known"} /\ now' \in 0..MaxTime
        /\ revokedAt' \in [Tokens -> 0..MaxTime \cup {Never}]
    BY <1>2 DEF IInv, TypeOK
  <2>3. QED
    BY <1>1, <1>2, <1>8, <2>1, <2>2, CallsAsTheyAre, UnreadStays, EntriesStep
<1>10. QED
  BY <1>7, <1>9 DEF IInv

(* Pruning drops only expired entries, and changes none.                   *)
LEMMA PrunedKeeps ==
  ASSUME NEW cs \in [Calls -> CallType], NEW ca \in [Tokens -> Calls \cup {NoCall}]
  PROVE  /\ Pruned(ca, cs) \in [Tokens -> Calls \cup {NoCall}]
         /\ \A u \in Tokens :
              \/ Pruned(ca, cs)[u] = ca[u]
              \/ Pruned(ca, cs)[u] = NoCall /\ ca[u] # NoCall /\ cs[ca[u]].expires <= now
BY DEF Pruned

LEMMA LookupMissIInv == ASSUME IInv, NEW t \in Tokens, LookupMiss(t) PROVE IInv'
<1>1. PICK c \in Calls : calls[c].state = "idle" /\ StartCall(t, c)
  BY DEF LookupMiss, InState
<1> DEFINE awaits == {d \in Calls : InState(d, {"discovering"})}
           due == IF discovery = "known" THEN now + PostMax
                  ELSE IF discovery = "none" THEN now + DiscoverMax
                  ELSE calls[CHOOSE d \in awaits : TRUE].deadline
<1>2. PICK deadline : deadline = due
  <2> HIDE DEF due
  <2>1. QED
    OBVIOUS
<1> DEFINE entry == [token |-> t, active |-> FALSE, deadline |-> deadline,
                     expires |-> now + InFlight,
                     state |-> IF discovery = "known" THEN "posted" ELSE "discovering"]
<1>3. now \in Nat /\ now \in 0..MaxTime /\ InFlight \in Nat /\ PostMax \in Nat /\ DiscoverMax \in Nat
  BY Times, CacheConstants DEF IInv, TypeOK
<1>4. deadline \in Nat
  <2>1. CASE discovery = "pending"
    <3>1. {d \in Calls : InState(d, {"discovering"})} # {}
      BY <2>1 DEF IInv, Awaited
    <3>2. PICK d \in Calls : d = CHOOSE e \in awaits : TRUE
      BY <3>1
    <3>3. calls[d].deadline \in Nat
      BY CallsAsTheyAre, Times DEF IInv
    <3>4. QED
      BY <1>2, <2>1, <3>2, <3>3
  <2>2. CASE discovery # "pending"
    BY <1>2, <1>3, <2>2 DEF IInv, TypeOK
  <2>3. QED
    BY <2>1, <2>2
<1>5. entry \in CallType
  <2>1. now + InFlight \in 0..(MaxTime + Most(InFlight, Most(Ttl, NegativeTtl)))
    BY <1>3, KeptAtMost, CacheConstants
  <2>2. QED
    BY <1>4, <2>1 DEF CallType, States, Pending
<1>6. PICK cs \in [Calls -> CallType] : cs = [calls EXCEPT ![c] = entry]
  BY <1>5, CallsAsTheyAre
<1>7. PICK ca \in [Tokens -> Calls \cup {NoCall}] : ca = [cache EXCEPT ![t] = c]
  BY CallsAsTheyAre
<1>8. cs[c] = entry /\ \A d \in Calls \ {c} : cs[d] = calls[d]
  BY <1>6
<1>9. ca[t] = c /\ \A u \in Tokens \ {t} : ca[u] = cache[u]
  BY <1>7, CallsAsTheyAre
<1>10. cache' = Pruned(ca, cs) /\ calls' = Collected(cs, cache')
  BY <1>1, <1>2, <1>6, <1>7 DEF StartCall
<1>11. /\ now' = now /\ claims' = claims /\ revokedAt' = revokedAt /\ answered' = {}
       /\ discovery' = IF discovery = "none" THEN "pending" ELSE discovery
       /\ unreadAt' = unreadAt
  BY DEF LookupMiss, keycloakVars
<1>12. /\ cache' \in [Tokens -> Calls \cup {NoCall}]
       /\ \A u \in Tokens :
            cache'[u] = ca[u] \/ (cache'[u] = NoCall /\ ca[u] # NoCall /\ cs[ca[u]].expires <= now)
  BY <1>10, PrunedKeeps
<1>13. ASSUME NEW d \in Calls PROVE EntryOK(d, cs[d])'
  <2>1. CASE d = c
    <3>1. cs[d].expires <= now \/ cache'[cs[d].token] = d
      BY <1>8, <1>9, <1>12, <2>1
    <3>2. cs[d].state = "posted" => cs[d].deadline = now + PostMax
      BY <1>2, <1>8, <2>1
    <3>3. cs[d].state \in {"posted", "discovering"} /\ cs[d].active = FALSE
      BY <1>8, <2>1
    <3>4. QED
      BY <1>3, <1>11, <3>1, <3>2, <3>3 DEF EntryOK
  <2>2. CASE d # c
    <3>1. cs[d] = calls[d] /\ cs[d] \in CallType /\ EntryOK(d, cs[d])
      BY <1>8, <2>2, CallsAsTheyAre
    <3>2. cs[d].token \in Tokens /\ cs[d].expires \in Nat
      BY <3>1, Times DEF IInv
    <3>3. ASSUME cs[d].state \in Pending, ~(cs[d].expires <= now)
          PROVE  cache'[cs[d].token] = d
      <4>1. cache[cs[d].token] = d
        BY <3>1, <3>3 DEF EntryOK
      <4>2. cs[d].token # t
        BY <1>3, <3>1, <3>2, <3>3, <4>1, CacheConstants DEF LookupMiss, Hit
      <4>3. ca[cs[d].token] = d
        BY <1>9, <3>2, <4>1, <4>2
      <4>4. QED
        BY <1>12, <3>2, <3>3, <4>3
    <3>4. QED
      BY <1>11, <3>1, <3>3, EntryStays
  <2>3. QED
    BY <2>1, <2>2
<1>14. ASSUME NEW u \in Tokens, cache'[u] # NoCall
       PROVE  cs[cache'[u]].token = u /\ cs[cache'[u]].state \notin {"idle", "failed"}
  <2>1. cache'[u] = ca[u]
    BY <1>12, <1>14
  <2>2. CASE u = t
    BY <1>8, <1>9, <2>1, <2>2
  <2>3. CASE u # t
    <3>1. cache'[u] = cache[u] /\ cache[u] # NoCall
      BY <1>9, <1>14, <2>1, <2>3
    <3>2. /\ cache[u] \in Calls /\ cache[u] # c /\ calls[cache[u]].token = u
          /\ calls[cache[u]].state \notin {"idle", "failed"}
      BY <1>1, <3>1, CallsAsTheyAre
    <3>3. QED
      BY <1>8, <3>1, <3>2
  <2>4. QED
    BY <2>2, <2>3
<1>15. discovery' = "pending" => \E d \in Calls : cs[d].state = "discovering"
  BY <1>8, <1>11
<1>16. TypeOK' /\ EntriesOK' /\ Awaited' /\ UnreadLately' /\ OneCall'
  <2>1. answered' \subseteq [token : Tokens, verdict : {"granted", "invalid", "forbidden", "error"}]
    BY <1>11
  <2>2. /\ discovery' \in {"none", "pending", "known"} /\ now' \in 0..MaxTime
        /\ revokedAt' \in [Tokens -> 0..MaxTime \cup {Never}]
    BY <1>11 DEF IInv, TypeOK
  <2>3. QED
    BY <1>10, <1>11, <1>12, <1>13, <1>14, <1>15, <2>1, <2>2, UnreadStays, EntriesStep
<1>17. QED
  BY <1>11, <1>16, Unanswered DEF IInv

LEMMA DiscoveredIInv == ASSUME IInv, Discovered PROVE IInv'
<1>1. now \in Nat /\ PostMax \in Nat /\ now + PostMax \in Nat
  BY Times, CacheConstants DEF IInv
<1>2. PICK cs : cs = [c \in Calls |-> IF InState(c, {"discovering"})
                      THEN [calls[c] EXCEPT !.state = "posted", !.deadline = now + PostMax]
                      ELSE calls[c]]
  OBVIOUS
<1>3. ASSUME NEW c \in Calls
      PROVE  /\ cs[c] \in CallType /\ cs[c].token = calls[c].token
             /\ cs[c].expires = calls[c].expires
             /\ cs[c].active = calls[c].active
             /\ cs[c] = calls[c] \/ (calls[c].state = "discovering" /\ cs[c].state = "posted"
                                     /\ cs[c].deadline = now + PostMax)
  <2>1. calls[c] \in CallType
    BY CallsAsTheyAre
  <2>2. CASE InState(c, {"discovering"})
    BY <1>1, <1>2, <2>1, <2>2 DEF CallType, States, Pending, InState
  <2>3. CASE ~InState(c, {"discovering"})
    BY <1>2, <2>1, <2>3
  <2>4. QED
    BY <2>2, <2>3
<1>4. cs \in [Calls -> CallType]
  BY <1>2, <1>3
<1>5. /\ now' = now /\ claims' = claims /\ revokedAt' = revokedAt /\ answered' = {}
      /\ calls' = cs /\ cache' = cache /\ discovery' = "known" /\ unreadAt' = unreadAt
  BY <1>2 DEF Discovered, keycloakVars
<1>6. ASSUME NEW c \in Calls PROVE EntryOK(c, cs[c])'
  <2>1. EntryOK(c, calls[c])
    BY CallsAsTheyAre
  <2>2. calls[c].state \in Pending => calls[c].expires <= now \/ cache[calls[c].token] = c
    BY <2>1 DEF EntryOK
  <2>3. cs[c].state \in Pending => cs[c].expires <= now \/ cache'[cs[c].token] = c
    BY <1>3, <1>5, <2>2 DEF Pending
  <2>4. CASE cs[c] = calls[c]
    BY <1>3, <1>5, <2>1, <2>3, <2>4, EntryStays
  <2>5. CASE cs[c].state = "posted" /\ cs[c].deadline = now + PostMax
    <3>1. cs[c].active => Meant(cs[c].token)'
      BY <1>3, <1>5, <2>1 DEF EntryOK, Meant
    <3>2. QED
      BY <1>1, <1>5, <2>3, <2>5, <3>1 DEF EntryOK
  <2>6. QED
    BY <1>3, <2>4, <2>5
<1>7. ASSUME NEW u \in Tokens, cache'[u] # NoCall
      PROVE  cs[cache'[u]].token = u /\ cs[cache'[u]].state \notin {"idle", "failed"}
  BY <1>3, <1>5, <1>7, CallsAsTheyAre
<1>8. TypeOK' /\ EntriesOK' /\ Awaited' /\ UnreadLately' /\ OneCall'
  <2>1. answered' \subseteq [token : Tokens, verdict : {"granted", "invalid", "forbidden", "error"}]
    BY <1>5
  <2>2. /\ discovery' \in {"none", "pending", "known"} /\ now' \in 0..MaxTime
        /\ revokedAt' \in [Tokens -> 0..MaxTime \cup {Never}]
        /\ cache' \in [Tokens -> Calls \cup {NoCall}]
    BY <1>5 DEF IInv, TypeOK
  <2>3. QED
    BY <1>4, <1>5, <1>6, <1>7, <2>1, <2>2, UnreadStays, EntriesStep
<1>9. QED
  BY <1>5, <1>8, Unanswered DEF IInv

LEMMA IntrospectIInv == ASSUME IInv, NEW c \in Calls, Introspect(c) PROVE IInv'
<1>1. calls[c] \in CallType /\ EntryOK(c, calls[c]) /\ calls[c].state = "posted"
  BY CallsAsTheyAre DEF Introspect, InState
<1>2. PICK e : e = [calls[c] EXCEPT !.state = "sampled", !.active = Active(calls[c].token)]
  OBVIOUS
<1>3. Active(calls[c].token) \in BOOLEAN
  BY DEF Active
<1>4. /\ e \in CallType /\ e.token = calls[c].token /\ e.state = "sampled"
      /\ e.active = Active(calls[c].token) /\ e.deadline = calls[c].deadline
      /\ e.expires = calls[c].expires
  BY <1>1, <1>2, <1>3, Zenon DEF CallType, States, Pending
<1>5. PICK cs \in [Calls -> CallType] : cs = [calls EXCEPT ![c] = e]
  BY <1>4, CallsAsTheyAre
<1>6. cs[c] = e /\ \A d \in Calls \ {c} : cs[d] = calls[d]
  BY <1>5
<1>7. /\ now' = now /\ claims' = claims /\ revokedAt' = revokedAt /\ answered' = {}
      /\ calls' = cs /\ cache' = cache /\ discovery' = discovery /\ unreadAt' = unreadAt
  BY <1>2, <1>5, CallsAsTheyAre DEF Introspect, keycloakVars
<1>8. ASSUME NEW d \in Calls PROVE EntryOK(d, cs[d])'
  <2>1. EntryOK(d, calls[d])
    BY CallsAsTheyAre
  <2>2. CASE d = c
    <3>1. Active(e.token)' <=> Active(e.token)
      BY <1>7 DEF Active, Meant
    <3>2. Active(e.token) => revokedAt[e.token] = Never /\ Meant(e.token) /\ Meant(e.token)'
      BY <1>7 DEF Active, Meant
    <3>3. e.active <=> Active(e.token)
      BY <1>3, <1>4
    <3>4. /\ now <= e.deadline /\ e.deadline <= now + PostMax
          /\ e.expires <= now \/ cache[e.token] = c
      BY <1>1, <1>4 DEF EntryOK, Pending
    <3>5. QED
      BY <1>4, <1>6, <1>7, <2>2, <3>1, <3>2, <3>3, <3>4 DEF EntryOK
  <2>3. CASE d # c
    <3>1. cs[d] \in CallType /\ EntryOK(d, cs[d])
      BY <1>6, <2>1, <2>3
    <3>2. cs[d].state \in Pending => cs[d].expires <= now \/ cache'[cs[d].token] = d
      BY <1>7, <3>1 DEF EntryOK
    <3>3. QED
      BY <1>7, <3>1, <3>2, EntryStays
  <2>4. QED
    BY <2>2, <2>3
<1>9. ASSUME NEW u \in Tokens, cache'[u] # NoCall
      PROVE  cs[cache'[u]].token = u /\ cs[cache'[u]].state \notin {"idle", "failed"}
  BY <1>4, <1>6, <1>7, <1>9, CallsAsTheyAre
<1>10. discovery' = "pending" => \E d \in Calls : cs[d].state = "discovering"
  BY <1>1, <1>6, <1>7, CallsAsTheyAre
<1>11. TypeOK' /\ EntriesOK' /\ Awaited' /\ UnreadLately' /\ OneCall'
  <2>1. answered' \subseteq [token : Tokens, verdict : {"granted", "invalid", "forbidden", "error"}]
    BY <1>7
  <2>2. /\ discovery' \in {"none", "pending", "known"} /\ now' \in 0..MaxTime
        /\ revokedAt' \in [Tokens -> 0..MaxTime \cup {Never}]
        /\ cache' \in [Tokens -> Calls \cup {NoCall}]
    BY <1>7 DEF IInv, TypeOK
  <2>3. QED
    BY <1>7, <1>8, <1>9, <1>10, <2>1, <2>2, UnreadStays, EntriesStep
<1>12. QED
  BY <1>7, <1>11, Unanswered DEF IInv

-----------------------------------------------------------------------------
(* The lifetime of an answer is a natural number, within the window.       *)
LEMMA ValidForWindow ==
  ASSUME TypeOK, NEW e \in CallType
  PROVE  /\ ValidFor(e) \in Nat
         /\ e.active => ValidFor(e) <= Ttl
         /\ now + ValidFor(e) \in 0..(MaxTime + Most(InFlight, Most(Ttl, NegativeTtl)))
<1>1. /\ now \in Nat /\ now \in 0..MaxTime /\ claims[e.token].exp \in Nat \cup {NoExp}
      /\ NoExp \notin Nat /\ Ttl \in Nat /\ NegativeTtl \in Nat /\ MaxTime \in Nat
  BY Times, CacheConstants DEF TypeOK
<1>2. ValidFor(e) \in Nat /\ (e.active => ValidFor(e) <= Ttl) /\ (~e.active => ValidFor(e) = NegativeTtl)
  BY <1>1 DEF ValidFor, Most, Least
<1>3. ValidFor(e) <= Most(InFlight, Most(Ttl, NegativeTtl))
  BY <1>1, <1>2, KeptAtMost
<1>4. QED
  BY <1>1, <1>2, <1>3, KeptAtMost

LEMMA SettleIInv == ASSUME IInv, NEW c \in Calls, Settle(c) PROVE IInv'
<1>1. calls[c] \in CallType /\ EntryOK(c, calls[c]) /\ calls[c].state = "sampled"
  BY CallsAsTheyAre DEF Settle, InState
<1>2. PICK e : e = [calls[c] EXCEPT !.state = "done", !.deadline = 0,
                                    !.expires = now + ValidFor(calls[c])]
  OBVIOUS
<1>3. /\ now \in Nat /\ Ttl \in Nat /\ PostMax \in Nat /\ ValidFor(calls[c]) \in Nat
      /\ calls[c].active => ValidFor(calls[c]) <= Ttl
      /\ now + ValidFor(calls[c]) \in 0..(MaxTime + Most(InFlight, Most(Ttl, NegativeTtl)))
  BY <1>1, ValidForWindow, Times, CacheConstants DEF IInv
<1>4. /\ e \in CallType /\ e.token = calls[c].token /\ e.state = "done"
      /\ e.active = calls[c].active /\ e.expires = now + ValidFor(calls[c])
  BY <1>1, <1>2, <1>3 DEF CallType, States
<1>5. EntryOK(c, e)
  <2>1. calls[c].deadline \in Nat /\ revokedAt[e.token] \in Int
    BY <1>1, <1>4, Times DEF IInv
  <2>2. now <= calls[c].deadline /\ (~e.active => ~Active(e.token))
    BY <1>1, <1>4 DEF EntryOK
  <2>3. e.active /\ revokedAt[e.token] # Never => calls[c].deadline <= revokedAt[e.token] + PostMax
    BY <1>1, <1>4 DEF EntryOK
  <2>4. e.active => e.expires <= now + Ttl
    BY <1>3, <1>4
  <2>5. e.active /\ revokedAt[e.token] # Never => e.expires <= revokedAt[e.token] + (Ttl + PostMax)
    BY <1>3, <1>4, <2>1, <2>2, <2>3, <2>4
  <2>6. e.active => Meant(e.token)
    BY <1>1, <1>4 DEF EntryOK
  <2>7. QED
    BY <1>4, <2>2, <2>4, <2>5, <2>6 DEF EntryOK, Pending
<1>6. PICK cs \in [Calls -> CallType] : cs = [calls EXCEPT ![c] = e]
  BY <1>4, CallsAsTheyAre
<1>7. cs[c] = e /\ \A d \in Calls \ {c} : cs[d] = calls[d]
  BY <1>6
<1>8. /\ now' = now /\ claims' = claims /\ revokedAt' = revokedAt
      /\ cache' = cache /\ discovery' = discovery /\ unreadAt' = unreadAt
  BY DEF Settle, Answered, keycloakVars
<1>9. /\ calls' = Collected(cs, cache')
      /\ answered' = {[token |-> e.token, verdict |-> Verdict(e.token, e)]}
  BY <1>2, <1>4, <1>6, <1>8 DEF Settle, Answered
<1>10. ASSUME NEW d \in Calls PROVE EntryOK(d, cs[d])'
  <2>1. cs[d] \in CallType /\ EntryOK(d, cs[d])
    BY <1>4, <1>5, <1>7, CallsAsTheyAre
  <2>2. cs[d].state \in Pending => cs[d].expires <= now \/ cache'[cs[d].token] = d
    BY <1>8, <2>1 DEF EntryOK
  <2>3. QED
    BY <1>8, <2>1, <2>2, EntryStays
<1>11. ASSUME NEW u \in Tokens, cache'[u] # NoCall
       PROVE  cs[cache'[u]].token = u /\ cs[cache'[u]].state \notin {"idle", "failed"}
  BY <1>4, <1>7, <1>8, <1>11, CallsAsTheyAre
<1>12. discovery' = "pending" => \E d \in Calls : cs[d].state = "discovering"
  BY <1>1, <1>7, <1>8, CallsAsTheyAre
<1>13. /\ Verdict(e.token, e) \in {"granted", "invalid", "forbidden", "error"}
       /\ LiveGrants' /\ FreshGrants' /\ HonestRefusals'
  <2>1. now <= e.expires
    BY <1>3, <1>4
  <2>2. /\ Verdict(e.token, e) \in {"granted", "invalid", "forbidden", "error"}
        /\ Verdict(e.token, e) = "granted" =>
             /\ Meant(e.token)
             /\ claims[e.token].exp = NoExp \/ now <= claims[e.token].exp
             /\ revokedAt[e.token] = Never \/ now <= revokedAt[e.token] + Ttl + PostMax
        /\ Verdict(e.token, e) = "invalid" => ~Active(e.token) \/ unreadAt[e.token] # Never
    BY <1>4, <1>5, <2>1, VerdictSound DEF IInv
  <2>3. QED
    BY <1>8, <1>9, <2>2, AnsweredSoundly DEF IInv
<1>14. TypeOK' /\ EntriesOK' /\ Awaited' /\ UnreadLately' /\ OneCall'
  <2>1. answered' \subseteq [token : Tokens, verdict : {"granted", "invalid", "forbidden", "error"}]
    BY <1>4, <1>9, <1>13, Times DEF IInv
  <2>2. /\ discovery' \in {"none", "pending", "known"} /\ now' \in 0..MaxTime
        /\ revokedAt' \in [Tokens -> 0..MaxTime \cup {Never}]
        /\ cache' \in [Tokens -> Calls \cup {NoCall}]
    BY <1>8 DEF IInv, TypeOK
  <2>3. QED
    BY <1>8, <1>9, <1>10, <1>11, <1>12, <2>1, <2>2, UnreadStays, EntriesStep
<1>15. QED
  BY <1>13, <1>14 DEF IInv

(* An unreadable answer: the entry says "not active" for one window.       *)
LEMMA SettleUnreadIInv == ASSUME IInv, NEW c \in Calls, SettleUnread(c) PROVE IInv'
<1>1. calls[c] \in CallType /\ EntryOK(c, calls[c]) /\ calls[c].state = "sampled"
  BY CallsAsTheyAre DEF SettleUnread, InState
<1>2. PICK u : u = [calls[c] EXCEPT !.active = FALSE]
  OBVIOUS
<1>3. u \in CallType /\ u.token = calls[c].token /\ ~u.active
  BY <1>1, <1>2 DEF CallType
<1>4. PICK e : e = [u EXCEPT !.state = "done", !.deadline = 0, !.expires = now + ValidFor(u)]
  OBVIOUS
<1>5. /\ now \in Nat /\ now \in 0..MaxTime /\ NegativeTtl \in Nat /\ ValidFor(u) = NegativeTtl
      /\ now + ValidFor(u) \in 0..(MaxTime + Most(InFlight, Most(Ttl, NegativeTtl)))
  BY <1>3, ValidForWindow, Times, CacheConstants DEF IInv, TypeOK, ValidFor
<1>6. /\ e \in CallType /\ e.token = calls[c].token /\ e.state = "done"
      /\ ~e.active /\ e.expires = now + NegativeTtl
  BY <1>3, <1>4, <1>5 DEF CallType, States
<1>7. PICK t \in Tokens : t = calls[c].token
  BY <1>1, Times DEF IInv
<1>8. PICK cs \in [Calls -> CallType] : cs = [calls EXCEPT ![c] = e]
  BY <1>6, CallsAsTheyAre
<1>9. cs[c] = e /\ \A d \in Calls \ {c} : cs[d] = calls[d]
  BY <1>8
<1>10. /\ now' = now /\ claims' = claims /\ revokedAt' = revokedAt
       /\ cache' = cache /\ discovery' = discovery
       /\ unreadAt' = [unreadAt EXCEPT ![t] = now]
  BY <1>7 DEF SettleUnread, Answered, keycloakVars
<1>11. /\ calls' = Collected(cs, cache')
       /\ answered' = {[token |-> t, verdict |-> Verdict(t, e)]}
  BY <1>2, <1>3, <1>4, <1>7, <1>8, <1>10 DEF SettleUnread, Answered
<1>12. /\ unreadAt'[t] = now /\ unreadAt' \in [Tokens -> 0..MaxTime \cup {Never}]
       /\ \A v \in Tokens : unreadAt'[v] \in {unreadAt[v], now}
  BY <1>5, <1>10 DEF IInv, TypeOK
<1>13. UnreadLately'
  BY <1>5, <1>10, <1>12 DEF IInv, UnreadLately
<1>14. Verdict(t, e) = "invalid"
  BY <1>6 DEF Verdict
<1>15. LiveGrants' /\ FreshGrants' /\ HonestRefusals'
  BY <1>5, <1>11, <1>12, <1>14 DEF LiveGrants, FreshGrants, HonestRefusals, Never
<1>16. ASSUME NEW d \in Calls PROVE EntryOK(d, cs[d])'
  <2>1. CASE d = c
    <3>1. unreadAt'[e.token] # Never /\ e.expires <= unreadAt'[e.token] + NegativeTtl
      BY <1>5, <1>6, <1>7, <1>12 DEF Never
    <3>2. QED
      BY <1>6, <1>9, <2>1, <3>1 DEF EntryOK, Pending
  <2>2. CASE d # c
    <3>1. cs[d] \in CallType /\ EntryOK(d, cs[d])
      BY <1>9, <2>2, CallsAsTheyAre
    <3>2. cs[d].state \in Pending => cs[d].expires <= now \/ cache'[cs[d].token] = d
      BY <1>10, <3>1 DEF EntryOK
    <3>3. QED
      BY <1>10, <3>1, <3>2, EntryStaysUnread
  <2>3. QED
    BY <2>1, <2>2
<1>17. ASSUME NEW v \in Tokens, cache'[v] # NoCall
       PROVE  cs[cache'[v]].token = v /\ cs[cache'[v]].state \notin {"idle", "failed"}
  BY <1>6, <1>9, <1>10, <1>17, CallsAsTheyAre
<1>18. discovery' = "pending" => \E d \in Calls : cs[d].state = "discovering"
  BY <1>1, <1>9, <1>10, CallsAsTheyAre
<1>19. TypeOK' /\ EntriesOK' /\ Awaited' /\ UnreadLately' /\ OneCall'
  <2>1. answered' \subseteq [token : Tokens, verdict : {"granted", "invalid", "forbidden", "error"}]
    BY <1>11, <1>14
  <2>2. /\ discovery' \in {"none", "pending", "known"} /\ now' \in 0..MaxTime
        /\ revokedAt' \in [Tokens -> 0..MaxTime \cup {Never}]
        /\ cache' \in [Tokens -> Calls \cup {NoCall}]
    BY <1>10 DEF IInv, TypeOK
  <2>3. QED
    BY <1>10, <1>11, <1>12, <1>13, <1>16, <1>17, <1>18, <2>1, <2>2, EntriesStep
<1>20. QED
  BY <1>15, <1>19 DEF IInv

(* Failing calls, all of them in flight.                                   *)
LEMMA RejectedIInv ==
  ASSUME IInv, NEW failed \in SUBSET Calls, \A c \in failed : calls[c].state \in Pending,
         Rejected(failed), discovery' \in {"none", "pending", "known"},
         discovery' = "pending" => \E c \in Calls \ failed : calls[c].state = "discovering"
  PROVE  IInv'
<1>1. PICK cs : cs = [c \in Calls |-> IF c \in failed
                      THEN [calls[c] EXCEPT !.state = "failed", !.deadline = 0] ELSE calls[c]]
  OBVIOUS
<1>2. ASSUME NEW c \in Calls
      PROVE  /\ cs[c] \in CallType /\ cs[c].token = calls[c].token
             /\ cs[c].active = calls[c].active
             /\ c \in failed => cs[c].state = "failed"
             /\ c \notin failed => cs[c] = calls[c]
  <2>1. calls[c] \in CallType
    BY CallsAsTheyAre
  <2>2. CASE c \in failed
    BY <1>1, <2>1, <2>2 DEF CallType, States
  <2>3. CASE c \notin failed
    BY <1>1, <2>1, <2>3
  <2>4. QED
    BY <2>2, <2>3
<1>3. cs \in [Calls -> CallType]
  BY <1>1, <1>2
<1>4. /\ now' = now /\ claims' = claims /\ revokedAt' = revokedAt
      /\ cache' = Forgotten(failed) /\ calls' = Collected(cs, cache') /\ unreadAt' = unreadAt
      /\ answered' = {[token |-> calls[c].token, verdict |-> Verdict(calls[c].token, cs[c])] : c \in failed}
  BY <1>1 DEF Rejected, keycloakVars
<1>5. /\ cache' \in [Tokens -> Calls \cup {NoCall}]
      /\ \A u \in Tokens : cache'[u] = IF cache[u] \in failed THEN NoCall ELSE cache[u]
  BY <1>4, CallsAsTheyAre DEF Forgotten
<1>6. ASSUME NEW d \in Calls PROVE EntryOK(d, cs[d])'
  <2>1. calls[d].token \in Tokens /\ EntryOK(d, calls[d])
    BY CallsAsTheyAre, Times DEF IInv
  <2>2. CASE d \in failed
    BY <1>2, <1>4, <2>1, <2>2 DEF EntryOK, Pending, Meant
  <2>3. CASE d \notin failed
    <3>1. cs[d] = calls[d]
      BY <1>2, <2>3
    <3>2. calls[d].state \in Pending => calls[d].expires <= now \/ cache'[calls[d].token] = d
      BY <1>5, <2>1, <2>3 DEF EntryOK
    <3>3. QED
      BY <1>2, <1>4, <2>1, <3>1, <3>2, EntryStays
  <2>4. QED
    BY <2>2, <2>3
<1>7. ASSUME NEW u \in Tokens, cache'[u] # NoCall
      PROVE  cs[cache'[u]].token = u /\ cs[cache'[u]].state \notin {"idle", "failed"}
  <2>1. cache'[u] = cache[u] /\ cache[u] \notin failed /\ cache[u] # NoCall
    BY <1>5, <1>7
  <2>2. QED
    BY <1>2, <2>1, CallsAsTheyAre
<1>8. discovery' = "pending" => \E d \in Calls : cs[d].state = "discovering"
  BY <1>2
<1>9. \A a \in answered' : a.token \in Tokens /\ a.verdict = "error"
  <2>1. \A c \in failed : Verdict(calls[c].token, cs[c]) = "error"
    BY <1>2 DEF Verdict
  <2>2. \A c \in failed : calls[c].token \in Tokens
    BY CallsAsTheyAre, Times DEF IInv
  <2>3. QED
    BY <1>4, <2>1, <2>2
<1>10. answered' \subseteq [token : Tokens, verdict : {"granted", "invalid", "forbidden", "error"}]
  <2>1. \A c \in failed : Verdict(calls[c].token, cs[c]) = "error"
    BY <1>2 DEF Verdict
  <2>2. \A c \in failed : calls[c].token \in Tokens
    BY CallsAsTheyAre, Times DEF IInv
  <2>3. QED
    BY <1>4, <2>1, <2>2
<1>11. LiveGrants' /\ FreshGrants' /\ HonestRefusals'
  BY <1>9 DEF LiveGrants, FreshGrants, HonestRefusals
<1>12. TypeOK' /\ EntriesOK' /\ Awaited' /\ UnreadLately' /\ OneCall'
  <2>1. now' \in 0..MaxTime /\ revokedAt' \in [Tokens -> 0..MaxTime \cup {Never}]
    BY <1>4 DEF IInv, TypeOK
  <2>2. QED
    BY <1>3, <1>4, <1>5, <1>6, <1>7, <1>8, <1>10, <2>1, UnreadStays, EntriesStep
<1>13. QED
  BY <1>11, <1>12 DEF IInv

LEMMA FailIInv == ASSUME IInv, NEW c \in Calls, Fail(c) PROVE IInv'
<1>1. calls[c].state \in {"posted", "sampled"} /\ Rejected({c}) /\ discovery' = discovery
  BY DEF Fail, InState
<1>2. discovery' = "pending" => \E d \in Calls \ {c} : calls[d].state = "discovering"
  BY <1>1, CallsAsTheyAre
<1>3. \A d \in {c} : calls[d].state \in Pending
  BY <1>1 DEF Pending
<1>4. discovery' \in {"none", "pending", "known"}
  BY <1>1 DEF IInv, TypeOK
<1>5. QED
  BY <1>1, <1>2, <1>3, <1>4, RejectedIInv

LEMMA DiscoveryFailsIInv == ASSUME IInv, DiscoveryFails PROVE IInv'
<1> DEFINE failed == {c \in Calls : InState(c, {"discovering"})}
<1>1. failed \in SUBSET Calls /\ \A c \in failed : calls[c].state \in Pending
  BY DEF InState, Pending
<1>2. Rejected(failed) /\ discovery' = "none"
  BY DEF DiscoveryFails
<1>3. PICK fs \in SUBSET Calls : fs = failed
  BY <1>1
<1>4. QED
  BY <1>1, <1>2, <1>3, RejectedIInv

-----------------------------------------------------------------------------
LEMMA NextIInv == ASSUME IInv, [Next]_vars PROVE IInv'
<1>1. CASE Tick
  BY <1>1, TickIInv
<1>2. CASE \E u \in Users : AdminLogoutUser(u)
  BY <1>2, RevokeIInv DEF AdminLogoutUser
<1>3. CASE \E t \in Tokens : RevokeToken(t)
  BY <1>3, RevokeIInv DEF RevokeToken
<1>4. CASE \E t \in Tokens : LookupHit(t)
  BY <1>4, LookupHitIInv
<1>5. CASE \E t \in Tokens : LookupMiss(t)
  BY <1>5, LookupMissIInv
<1>6. CASE Discovered
  BY <1>6, DiscoveredIInv
<1>7. CASE DiscoveryFails
  BY <1>7, DiscoveryFailsIInv
<1>8. CASE \E c \in Calls : Introspect(c)
  BY <1>8, IntrospectIInv
<1>9. CASE \E c \in Calls : Settle(c)
  BY <1>9, SettleIInv
<1>10. CASE \E c \in Calls : Fail(c)
  BY <1>10, FailIInv
<1>11. CASE \E c \in Calls : SettleUnread(c)
  BY <1>11, SettleUnreadIInv
<1>12. CASE UNCHANGED vars
  BY <1>12
  DEF vars, keycloakVars, IInv, TypeOK, EntriesOK, EntryOK, Awaited, LiveGrants, FreshGrants,
      HonestRefusals, UnreadLately, OneCall, InState, Active, Meant
<1>13. QED
  BY <1>1, <1>2, <1>3, <1>4, <1>5, <1>6, <1>7, <1>8, <1>9, <1>10, <1>11, <1>12 DEF Next

(* The inductive invariant of the cache.                                   *)
THEOREM CacheInvariant == Spec => []IInv
<1>1. QED
  BY InitIInv, NextIInv, PTL DEF Spec

(* The entries, the map and the answers keep their types, and the map      *)
(* refers to an entry of the token it is asked for, never to one of a call *)
(* that threw.                                                             *)
THEOREM TypeCorrect == Spec => []TypeOK
<1>1. IInv => TypeOK
  BY DEF IInv
<1>2. QED
  BY <1>1, CacheInvariant, PTL

(* A token that was revoked is granted for one window and one POST at      *)
(* most, whatever the window, the timeouts, the threshold and the schedule *)
(* of calls.                                                               *)
THEOREM RevocationIsBounded == Spec => []FreshGrants
<1>1. IInv => FreshGrants
  BY DEF IInv
<1>2. QED
  BY <1>1, CacheInvariant, PTL

(* A token is called invalid only when Keycloak would not honour it, or    *)
(* gave an unreadable answer about it not longer than one negative window  *)
(* ago, which is the one failure that is cached.                           *)
THEOREM RefusalsAreHonest == Spec => []HonestRefusals
<1>1. IInv => HonestRefusals
  BY DEF IInv
<1>2. QED
  BY <1>1, CacheInvariant, PTL

(* Two calls for one token are in flight only when one of them has been    *)
(* for longer than InFlight.                                               *)
THEOREM CallsAreShared == Spec => []OneCall
<1>1. IInv => OneCall
  BY DEF IInv
<1>2. QED
  BY <1>1, CacheInvariant, PTL

(* A good entry leaves the map only when it expires or its own call fails. *)
THEOREM EntriesStay == Spec => GoodEntriesStay
<1> DEFINE Stays == \A t \in Tokens : Hit(t) /\ cache'[t] # cache[t] =>
                      InState(cache[t], Pending) /\ calls'[cache[t]].state \notin Pending
<1>1. ASSUME IInv, [Next]_vars PROVE Stays
  <2> SUFFICES ASSUME NEW u \in Tokens, Hit(u), cache'[u] # cache[u]
               PROVE  calls[cache[u]].state \in Pending /\ calls'[cache[u]].state \notin Pending
    BY DEF InState
  <2>1. /\ cache[u] # NoCall /\ cache[u] \in Calls /\ calls[cache[u]].token = u
        /\ calls[cache[u]].state \notin {"idle", "failed"}
        /\ calls[cache[u]].expires > now /\ calls[cache[u]].expires \in Nat /\ now \in Nat
    BY <1>1, CallsAsTheyAre, Times DEF Hit, IInv
  <2>2. ASSUME NEW t \in Tokens, LookupMiss(t) PROVE FALSE
    <3>1. PICK c \in Calls : calls[c].state = "idle" /\ StartCall(t, c)
      BY <2>2 DEF LookupMiss, InState
    <3>2. PICK entry : cache' = Pruned([cache EXCEPT ![t] = c], [calls EXCEPT ![c] = entry])
      BY <3>1 DEF StartCall
    <3>3. PICK cs, ca : cs = [calls EXCEPT ![c] = entry] /\ ca = [cache EXCEPT ![t] = c]
      OBVIOUS
    <3>4. ca[u] = cache[u] /\ cs[ca[u]] = calls[cache[u]]
      BY <1>1, <2>1, <2>2, <3>1, <3>3, CallsAsTheyAre DEF LookupMiss
    <3>5. cache'[u] = ca[u] \/ cs[ca[u]].expires <= now
      BY <1>1, <3>2, <3>3, CallsAsTheyAre DEF Pruned
    <3>6. QED
      BY <2>1, <3>4, <3>5
  <2>3. ASSUME NEW failed \in SUBSET Calls, \A c \in failed : calls[c].state \in Pending,
               Rejected(failed)
        PROVE  calls[cache[u]].state \in Pending /\ calls'[cache[u]].state \notin Pending
    <3>1. cache[u] \in failed
      BY <2>3 DEF Rejected, Forgotten
    <3>2. PICK cs : cs = [c \in Calls |-> IF c \in failed
                          THEN [calls[c] EXCEPT !.state = "failed", !.deadline = 0] ELSE calls[c]]
      OBVIOUS
    <3>3. calls[cache[u]] \in CallType
      BY <1>1, <2>1, CallsAsTheyAre
    <3>4. cs[cache[u]].state = "failed"
      BY <2>1, <3>1, <3>2, <3>3 DEF CallType
    <3>5. calls' = Collected(cs, cache')
      BY <2>3, <3>2 DEF Rejected
    <3>6. calls'[cache[u]] \in {cs[cache[u]], Idle}
      BY <2>1, <3>5 DEF Collected
    <3>7. QED
      BY <2>3, <3>1, <3>4, <3>6, IdleType DEF Pending
  <2>4. PICK failed \in SUBSET Calls :
          Rejected(failed) /\ \A c \in failed : calls[c].state \in Pending
    <3>1. ASSUME NEW c \in Calls, Fail(c)
          PROVE  Rejected({c}) /\ \A d \in {c} : calls[d].state \in Pending
      BY <3>1 DEF Fail, InState, Pending
    <3>2. ASSUME DiscoveryFails
          PROVE  \E failed \in SUBSET Calls :
                   Rejected(failed) /\ \A c \in failed : calls[c].state \in Pending
      <4> DEFINE fs == {c \in Calls : InState(c, {"discovering"})}
      <4>1. Rejected(fs) /\ fs \in SUBSET Calls /\ \A c \in fs : calls[c].state \in Pending
        BY <3>2 DEF DiscoveryFails, InState, Pending
      <4>2. QED
        BY <4>1
    <3>3. (\E c \in Calls : Fail(c)) \/ DiscoveryFails
      BY <1>1, <2>2
      DEF Next, vars, Tick, AdminLogoutUser, RevokeToken, Revoke, LookupHit, Discovered,
          Introspect, Settle, SettleUnread, Answered
    <3>4. CASE DiscoveryFails
      BY <3>2, <3>4
    <3>5. CASE \E c \in Calls : Fail(c)
      <4>1. PICK c \in Calls : Fail(c)
        BY <3>5
      <4>2. {c} \in SUBSET Calls /\ Rejected({c}) /\ \A d \in {c} : calls[d].state \in Pending
        BY <3>1, <4>1
      <4>3. QED
        BY <4>2
    <3>6. QED
      BY <3>3, <3>4, <3>5
  <2>5. QED
    BY <2>3, <2>4
<1>2. QED
  BY <1>1, CacheInvariant, PTL DEF Spec, GoodEntriesStay

-----------------------------------------------------------------------------
(* The steps of the oracle: the clock, an end, or nothing but answers.     *)
LEMMA Asked ==
  ASSUME IInv, [Next]_vars
  PROVE  \/ Tick
         \/ \E ts \in SUBSET Tokens : Revoke(ts)
         \/ /\ now' = now /\ claims' = claims /\ revokedAt' = revokedAt
            /\ \E ts \in SUBSET Tokens :
                 unreadAt' = [t \in Tokens |-> IF t \in ts THEN now ELSE unreadAt[t]]
<1>1. CASE \E u \in Users : AdminLogoutUser(u)
  <2>1. PICK u \in Users : Revoke({t \in Tokens : UserOf[t] = u})
    BY <1>1 DEF AdminLogoutUser
  <2>2. {t \in Tokens : UserOf[t] = u} \in SUBSET Tokens
    OBVIOUS
  <2>3. QED
    BY <2>1, <2>2
<1>2. CASE \E t \in Tokens : RevokeToken(t)
  <2>1. PICK t \in Tokens : Revoke({t})
    BY <1>2 DEF RevokeToken
  <2>2. QED
    BY <2>1
<1>3. CASE \E c \in Calls : SettleUnread(c)
  <2>1. PICK c \in Calls : SettleUnread(c)
    BY <1>3
  <2>2. calls[c].token \in Tokens /\ unreadAt \in [Tokens -> 0..MaxTime \cup {Never}]
    BY CallsAsTheyAre, Times DEF IInv, TypeOK
  <2>3. PICK ts \in SUBSET Tokens : ts = {calls[c].token}
    BY <2>2
  <2>4. unreadAt' = [unreadAt EXCEPT ![calls[c].token] = now]
    BY <2>1 DEF SettleUnread
  <2>5. unreadAt' = [t \in Tokens |-> IF t \in ts THEN now ELSE unreadAt[t]]
    BY <2>2, <2>3, <2>4
  <2>6. QED
    BY <2>1, <2>5 DEF SettleUnread, Answered, keycloakVars
<1>4. CASE /\ ~(\E u \in Users : AdminLogoutUser(u)) /\ ~(\E t \in Tokens : RevokeToken(t))
           /\ ~(\E c \in Calls : SettleUnread(c)) /\ ~Tick
  <2>1. now' = now /\ claims' = claims /\ revokedAt' = revokedAt /\ unreadAt' = unreadAt
    BY <1>4
    DEF Next, vars, keycloakVars, LookupHit, LookupMiss, Discovered, DiscoveryFails, Introspect,
        Settle, Answered, Fail, Rejected
  <2>2. PICK ts \in SUBSET Tokens : ts = {}
    OBVIOUS
  <2>3. unreadAt' = [t \in Tokens |-> IF t \in ts THEN now ELSE unreadAt[t]]
    BY <2>1, <2>2 DEF IInv, TypeOK
  <2>4. QED
    BY <2>1, <2>3
<1>5. QED
  BY <1>1, <1>2, <1>3, <1>4

(* A token lives for the oracle while Keycloak would honour it.            *)
LEMMA LivesAlike ==
  ASSUME TypeOK, NEW t \in Tokens
  PROVE  /\ Until[t] = IF Meant(t) THEN claims[t].exp ELSE Never
         /\ Oracle!Valid(t) <=> Active(t)
<1>1. Until[t] = IF Meant(t) THEN claims[t].exp ELSE Never
  BY DEF Until
<1>2. now \in Nat /\ NoExp \notin Nat /\ claims[t].exp \in Nat \cup {NoExp}
  BY Times
<1>3. CASE Meant(t)
  BY <1>1, <1>2, <1>3 DEF Oracle!Valid, Active
<1>4. CASE ~Meant(t)
  <2>1. ~Active(t) /\ Until[t] = Never
    BY <1>1, <1>4 DEF Active
  <2>2. Never # NoExp
    BY CacheConstants DEF Never
  <2>3. ~(now < Never)
    BY <1>2 DEF Never
  <2>4. ~Oracle!Valid(t)
    BY <2>1, <2>2, <2>3 DEF Oracle!Valid
  <2>5. QED
    BY <1>1, <2>1, <2>4
<1>5. QED
  BY <1>1, <1>3, <1>4

(* What may be granted, as the oracle puts it.                             *)
LEMMA GrantedAlike ==
  ASSUME TypeOK, NEW t \in Tokens, Meant(t),
         claims[t].exp = NoExp \/ now <= claims[t].exp,
         revokedAt[t] = Never \/ now <= revokedAt[t] + Ttl + PostMax
  PROVE  Oracle!Grantable(t)
<1>1. now \in Nat /\ revokedAt[t] \in Int /\ Ttl \in Nat /\ PostMax \in Nat
  BY Times, CacheConstants
<1>2. Until[t] = claims[t].exp
  BY LivesAlike
<1>3. revokedAt[t] = Never \/ now <= revokedAt[t] + (Ttl + PostMax)
  BY <1>1
<1>4. QED
  BY <1>2, <1>3 DEF Oracle!Grantable

LEMMA UntilFixed == claims' = claims => Until' = Until
BY DEF Until, Meant

(* Whatever is cached, in flight or failing, the verifier is the oracle.   *)
THEOREM CacheImplementsOracle == Spec => ImplementsOracle
<1>1. Init => Oracle!Init
  <2> SUFFICES ASSUME Init PROVE Oracle!Init
    OBVIOUS
  <2>1. \A t \in Tokens : claims[t].exp \in Nat \cup {NoExp}
    BY InitIInv, Times DEF IInv
  <2>2. Until \in [Tokens -> Nat \cup {NoExp, Never}]
    BY <2>1 DEF Until
  <2>3. QED
    BY <2>2 DEF Init, Oracle!Init
<1>2. IInv /\ [Next]_vars => [Oracle!Next]_(Oracle!vars)
  <2> SUFFICES ASSUME IInv, [Next]_vars PROVE Oracle!Next
    OBVIOUS
  <2>1. CASE Tick
    <3>1. /\ now' = now + 1 /\ answered' = {} /\ Until' = Until /\ revokedAt' = revokedAt
          /\ unreadAt' = [t \in Tokens |-> IF unreadAt[t] + NegativeTtl < now' THEN Never ELSE unreadAt[t]]
      BY <2>1, UntilFixed DEF Tick, keycloakVars, Remembered
    <3>2. QED
      BY <3>1 DEF Oracle!Next, Oracle!Pass
  <2>2. CASE \E ts \in SUBSET Tokens : Revoke(ts)
    <3>1. PICK ts \in SUBSET Tokens : Revoke(ts)
      BY <2>2
    <3>2. PICK issued \in SUBSET Tokens : issued = {t \in ts : claims[t].key = "keycloak"}
      OBVIOUS
    <3>3. /\ revokedAt' = [t \in Tokens |-> IF t \in issued /\ revokedAt[t] = Never
                                             THEN now ELSE revokedAt[t]]
          /\ answered' = {} /\ now' = now /\ Until' = Until /\ unreadAt' = unreadAt
      BY <3>1, <3>2, UntilFixed DEF Revoke
    <3>4. Oracle!End(issued)
      BY <3>3 DEF Oracle!End
    <3>5. QED
      BY <3>4 DEF Oracle!Next
  <2>3. CASE /\ now' = now /\ claims' = claims /\ revokedAt' = revokedAt
             /\ \E ts \in SUBSET Tokens :
                  unreadAt' = [t \in Tokens |-> IF t \in ts THEN now ELSE unreadAt[t]]
    <3>1. IInv' /\ TypeOK
      BY NextIInv DEF IInv
    <3>2. ASSUME NEW a \in answered'
          PROVE  /\ a.verdict = "granted" => Oracle!Grantable(a.token)
                 /\ a.verdict = "invalid" => ~Oracle!Valid(a.token) \/ unreadAt'[a.token] # Never
      <4>1. a.token \in Tokens
        BY <3>1 DEF IInv, TypeOK
      <4>2. a.verdict = "invalid" => ~Active(a.token) \/ unreadAt'[a.token] # Never
        BY <2>3, <3>1 DEF IInv, HonestRefusals, Active, Meant
      <4>3. a.verdict = "granted" =>
              /\ Meant(a.token)
              /\ claims[a.token].exp = NoExp \/ now <= claims[a.token].exp
        BY <2>3, <3>1 DEF IInv, LiveGrants, Meant
      <4>4. a.verdict = "granted" =>
              revokedAt[a.token] = Never \/ now <= revokedAt[a.token] + Ttl + PostMax
        BY <2>3, <3>1 DEF IInv, FreshGrants
      <4>5. QED
        BY <3>1, <4>1, <4>2, <4>3, <4>4, GrantedAlike, LivesAlike
    <3>3. Until' = Until
      BY <2>3, UntilFixed
    <3>4. Oracle!Answer
      BY <2>3, <3>2, <3>3 DEF Oracle!Answer
    <3>5. QED
      BY <3>4 DEF Oracle!Next
  <2>4. QED
    BY <2>1, <2>2, <2>3, Asked
<1>3. QED
  BY <1>1, <1>2, CacheInvariant, PTL DEF Spec, ImplementsOracle, Oracle!Spec
=============================================================================
