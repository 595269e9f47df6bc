----------------------- MODULE ResourceServers_proofs -----------------------
(***************************************************************************)
(* Proofs about ResourceServers, for every value of its constants.         *)
(***************************************************************************)
EXTENDS ResourceServers, TLAPS

(***************************************************************************)
(* Tokens and verdicts                                                     *)
(***************************************************************************)
(* What a verdict of "granted" says.                                       *)
LEMMA GrantedToken ==
  ASSUME NEW t, NEW have, Verdict(t, have) = "granted"
  PROVE  /\ t.alg = "RS256" /\ t.claims.key = t.kid /\ t.kid \in have
         /\ ~(t.nbf > now + Tolerance)
         /\ t.claims.issuer = Verifier.issuer
         /\ t.claims.audience \cap Verifier.audience # {}
         /\ t.claims.exp # NoExp /\ t.claims.exp >= now
BY DEF Verdict, PythonVerdict, TypeScriptVerdict, JwtVerdict, JwtVerified, Signers, BearerAccepts

(* A verdict looks at the keys only through those that signed.             *)
LEMMA SameSigners ==
  ASSUME NEW t, NEW have, NEW keys, Signers(t, have) = Signers(t, keys)
  PROVE  Verdict(t, have) = Verdict(t, keys)
BY DEF Verdict, PythonVerdict, TypeScriptVerdict

(* No signature, no grant and no more than a refusal.                      *)
LEMMA Unsigned ==
  ASSUME NEW t, NEW have, Signers(t, have) = {}
  PROVE  Verdict(t, have) = "invalid"
BY DEF Verdict, PythonVerdict, TypeScriptVerdict, JwtVerdict, JwtVerified

LEMMA Verdicts ==
  ASSUME NEW t, NEW have
  PROVE  Verdict(t, have) \in {"granted", "invalid", "forbidden"}
BY DEF Verdict, PythonVerdict, TypeScriptVerdict, JwtVerdict

TokenType ==
  [made : {"valid", "alg", "tampered", "kid", "nbf", "aud", "iss"}, alg : {"RS256", "none"},
   kid : Nat, nbf : Nat,
   claims : [key : Nat, issuer : {IssuerUrl, "elsewhere"}, audience : {{AudienceUrl}, {"elsewhere"}},
             exp : Int, scope : SUBSET {SCOPE_TOOLS, SCOPE_ADMIN}, roles : SUBSET {ADMIN_ROLE},
             sub : {"alice", "bob"}, azp : {"alice", "bob"}]]

LEMMA MintedType ==
  ASSUME NEW t \in Minted
  PROVE  /\ t \in TokenType /\ t.made = "valid" /\ t.claims.key = t.kid /\ t.kid \in Kids
<1>1. PICK k \in Kids, user \in {"alice", "bob"}, exp \in Expiries : t = MintToken(k, user, exp)
  BY DEF Minted
<1>2. k \in Nat /\ exp \in Int /\ DemoUsers[user].scope \in SUBSET {SCOPE_TOOLS, SCOPE_ADMIN}
      /\ DemoUsers[user].roles \in SUBSET {ADMIN_ROLE}
  BY ServerConstants DEF Kids, DemoUsers
<1>3. QED
  BY <1>1, <1>2 DEF MintToken, TokenType

(* Every variant of a minted token but the token itself is refused.        *)
LEMMA BrokenRefused ==
  ASSUME TypeOK, Local, NEW t \in Minted, NEW b \in Broken(t), NEW have \in SUBSET (0..kids)
  PROVE  Verdict(b, have) # "granted"
<1> SUFFICES ASSUME Verdict(b, have) = "granted" PROVE FALSE
  OBVIOUS
<1>1. t \in TokenType /\ t.kid \in Kids /\ MaxKids \in Nat /\ MaxTime \in Nat /\ Tolerance \in Nat
      /\ now \in 0..MaxTime /\ kids \in 0..MaxKids
  BY MintedType, ServerConstants DEF TypeOK
<1>2. /\ b.alg = "RS256" /\ b.claims.key = b.kid /\ b.kid \in have /\ ~(b.nbf > now + Tolerance)
      /\ b.claims.issuer = IssuerUrl /\ b.claims.audience \cap {AudienceUrl} # {}
  BY GrantedToken DEF Verifier, LocalVerifier
<1>3. CASE b = [t EXCEPT !.made = "alg", !.alg = "none", !.claims.key = NoKey]
  BY <1>1, <1>2, <1>3 DEF TokenType
<1>4. CASE b = [t EXCEPT !.made = "tampered", !.claims.key = NoKey,
                         !.claims.scope = @ \cup {SCOPE_ADMIN}]
  <2>1. b.kid = t.kid
    BY <1>1, <1>4 DEF TokenType
  <2>2. b.claims.key = NoKey
    BY <1>1, <1>4 DEF TokenType
  <2>3. QED
    BY <1>1, <1>2, <2>1, <2>2 DEF Kids, NoKey
<1>5. CASE b = [t EXCEPT !.made = "kid", !.kid = MaxKids + 1]
  BY <1>1, <1>2, <1>5 DEF TokenType
<1>6. CASE b = [t EXCEPT !.made = "nbf", !.nbf = MaxTime + Tolerance + 1]
  BY <1>1, <1>2, <1>6 DEF TokenType
<1>7. CASE b = [t EXCEPT !.made = "aud", !.claims.audience = {"elsewhere"}]
  BY <1>1, <1>2, <1>7 DEF TokenType, AudienceUrl
<1>8. CASE b = [t EXCEPT !.made = "iss", !.claims.issuer = "elsewhere"]
  BY <1>1, <1>2, <1>8 DEF TokenType, IssuerUrl
<1>9. QED
  BY <1>3, <1>4, <1>5, <1>6, <1>7, <1>8 DEF Broken, Forged

(* What Keycloak issues, and what is forged from it.                       *)
LEMMA RealmType ==
  ASSUME NEW k \in Kids, NEW t \in RealmTokens(k)
  PROVE  t \in [made : {"valid"}, alg : {"RS256"}, kid : {k}, nbf : Nat,
                claims : [key : {k}, issuer : STRING, audience : SUBSET STRING,
                          exp : Int \cup {NoExp}, scope : SUBSET STRING, roles : SUBSET STRING,
                          sub : STRING, azp : STRING]]
BY RealmIssues DEF Kids

LEMMA ForgedFromRealm ==
  ASSUME NEW k \in Kids, NEW t \in RealmOrForged(k)
  PROVE  /\ t.kid = k
         /\ \/ t \in RealmTokens(k)
            \/ t.alg = "none" \/ t.claims.key = NoKey
<1>1. CASE t \in RealmTokens(k)
  BY <1>1, RealmType
<1>2. ASSUME NEW m \in RealmTokens(k), t \in Forged(m)
      PROVE  t.kid = k /\ (t.alg = "none" \/ t.claims.key = NoKey)
  <2> DEFINE C == [key : {k}, issuer : STRING, audience : SUBSET STRING,
                   exp : Int \cup {NoExp}, scope : SUBSET STRING, roles : SUBSET STRING,
                   sub : STRING, azp : STRING]
  <2>1. m \in [made : {"valid"}, alg : {"RS256"}, kid : {k}, nbf : Nat, claims : C]
    BY RealmType
  <2>2. m.kid = k /\ m.claims \in C
    BY <2>1
  <2>3. CASE t = [m EXCEPT !.made = "alg", !.alg = "none", !.claims.key = NoKey]
    <3> HIDE DEF C
    <3>1. t.kid = k /\ t.alg = "none"
      BY <2>1, <2>3
    <3>2. QED
      BY <3>1
  <2>4. CASE t = [m EXCEPT !.made = "tampered", !.claims.key = NoKey,
                           !.claims.scope = @ \cup {SCOPE_ADMIN}]
    <3>1. t.kid = k
      BY <2>1, <2>4
    <3>2. t.claims.key = NoKey
      BY <2>1, <2>2, <2>4
    <3>3. QED
      BY <3>1, <3>2
  <2>5. QED
    BY <1>2, <2>3, <2>4 DEF Forged
<1>3. QED
  BY <1>1, <1>2 DEF RealmOrForged

(* The servers differ.                                                     *)
LEMMA OneServer ==
  ASSUME Local \/ Realm
  PROVE  server # "01-api-key" /\ ~Mtls /\ ~(Local /\ Realm)
BY DEF Local, Realm, Python, Mtls, SoftFail

(* A granted token is sound and was signed by a key at hand.               *)
LEMMA GrantedIsSound ==
  ASSUME TypeOK, Local \/ Realm, NEW t \in Presented, NEW have \in SUBSET (0..kids),
         Verdict(t, have) = "granted"
  PROVE  /\ t.made = "valid" /\ t.claims.key = t.kid /\ t.kid \in Kids /\ t.kid \in have
         /\ t.claims.exp \in Int /\ now <= t.claims.exp
         /\ Realm => "mcp-server" \in t.claims.audience
<1>1. kids \in 0..MaxKids /\ MaxKids \in Nat /\ now \in Nat
  BY ServerConstants DEF TypeOK
<1>2. CASE Local
  <2>1. t \in Minted
    BY <1>2, OneServer, BrokenRefused DEF Presented, MintedOrBroken, RealmIssued
  <2>2. QED
    BY <1>1, <1>2, <2>1, MintedType, GrantedToken, OneServer DEF TokenType
<1>3. CASE Realm
  <2>0. PICK k \in Kids : t \in RealmOrForged(k)
    BY <1>3, OneServer DEF Presented, MintedOrBroken, RealmIssued
  <2>1. t \in RealmTokens(k)
    <3>1. t.alg = "RS256" /\ t.claims.key = t.kid
      BY <1>3, GrantedToken
    <3>2. k # NoKey
      BY DEF Kids, NoKey
    <3>3. QED
      BY <2>0, <3>1, <3>2, ForgedFromRealm
  <2>2. t.made = "valid" /\ t.kid = k /\ t.claims.key = k /\ t.claims.exp \in Int \cup {NoExp}
    BY <2>1, RealmType
  <2>3. Verifier.audience = {"mcp-server"}
    BY <1>3, OneServer DEF Verifier, RealmVerifier, LocalVerifier
  <2>4. QED
    BY <1>1, <2>2, <2>3, GrantedToken
<1>4. QED
  BY <1>2, <1>3

(***************************************************************************)
(* One request                                                             *)
(***************************************************************************)
(* A record of a request, whatever its fields hold.                        *)
Shaped(q) ==
  \E C, A, I, R : q \in [phase : Phases, cred : C, at : A, info : I, result : R]

LEMMA AnswerIs ==
  ASSUME NEW q, Shaped(q), NEW v, NEW info, NEW a, a = Answer(q, v, info)
  PROVE  /\ a \in [phase : Phases, cred : {q.cred}, at : {now, 0}, info : {info, None},
                   result : {v, None}]
         /\ a.cred = q.cred
         /\ v = "granted" =>
              a.phase = "granted" /\ a.at = now /\ a.info = info /\ a.result = None
         /\ v # "granted" =>
              a.phase = "answered" /\ a.at = 0 /\ a.info = None /\ a.result = v
<1>1. PICK C, A, I, R : q \in [phase : Phases, cred : C, at : A, info : I, result : R]
  BY DEF Shaped
<1>2. PICK phase, at, info1, result :
        /\ phase = IF v = "granted" THEN "granted" ELSE "answered"
        /\ at = IF v = "granted" THEN now ELSE 0
        /\ info1 = IF v = "granted" THEN info ELSE None
        /\ result = IF v = "granted" THEN None ELSE v
  OBVIOUS
<1>3. phase \in Phases
  BY <1>2 DEF Phases
<1>4. a = [q EXCEPT !.phase = phase, !.at = at, !.info = info1, !.result = result]
  BY <1>2, Zenon DEF Answer
<1>5. /\ a \in [phase : Phases, cred : {q.cred}, at : {at}, info : {info1}, result : {result}]
      /\ a.phase = phase /\ a.cred = q.cred /\ a.at = at /\ a.info = info1 /\ a.result = result
  BY <1>1, <1>3, <1>4
<1>6. QED
  BY <1>2, <1>5

LEMMA IdleWith ==
  ASSUME NEW c, NEW q, q = [Idle EXCEPT !.cred = c]
  PROVE  Shaped(q) /\ q.cred = c
<1>1. q \in [phase : Phases, cred : {c}, at : {0}, info : {None}, result : {None}] /\ q.cred = c
  BY DEF Idle, Phases
<1>2. QED
  BY <1>1 DEF Shaped

LEMMA RequestShaped == ASSUME NEW q, RequestOK(q) PROVE Shaped(q)
BY DEF RequestOK, Shaped

In(q) == q.phase = "granted" \/ q.result \in {"add", "admin_only", "service_only"}

(* What the properties and the invariant say of one request.               *)
EntitledTo(q) ==
  /\ In(q) /\ (Local \/ Realm) =>
       q.cred.made = "valid" /\ q.cred.claims.key = q.cred.kid /\ q.at <= q.cred.claims.exp
  /\ In(q) /\ Realm => "mcp-server" \in q.cred.claims.audience
  /\ In(q) /\ Mtls => q.cred.trusted /\ q.cred.cn \in AllowedCn
  /\ q.result = "admin_only" =>
       /\ Local => SCOPE_ADMIN \in q.cred.claims.scope
       /\ Realm => SCOPE_ADMIN \in q.cred.claims.scope /\ ADMIN_ROLE \in q.cred.claims.roles
       /\ Mtls => ADMIN_ROLE \in q.cred.ou
       /\ server = "01-api-key" => SCOPE_ADMIN \in ApiKeys[q.cred].scopes
  /\ q.result = "service_only" => q.cred.claims.azp \in AllowedClients

Known(q) ==
  /\ q.phase = "granted" => q.info = InfoOf(q.cred)
  /\ q.phase = "granted" /\ (Local \/ Realm) => q.cred.kid \in Kids /\ q.cred.claims.exp \in Int
  /\ q.phase = "fetching" => Local \/ Realm
  /\ q.phase \in {"authorized", "unauthorized"} => Mtls
  /\ q.phase = "authorized" => q.cred.trusted

InTime(q) ==
  (Local \/ Realm) /\ ~Python /\ q.phase = "granted" =>
    issuer = q.cred.kid \/ withdrawn[q.cred.kid] + CacheMaxAge + FetchMax > q.at

Sound(q) == RequestOK(q) /\ Known(q) /\ InTime(q) /\ EntitledTo(q)

LEMMA SoundIs ==
  ASSUME DOMAIN requests = Requests, \A r \in Requests : Sound(requests[r])
  PROVE  KnownCallers /\ WithdrawnInTime /\ Entitled /\ \A r \in Requests : RequestOK(requests[r])
<1>1. KnownCallers
  BY DEF Sound, Known, KnownCallers
<1>2. WithdrawnInTime
  BY DEF Sound, InTime, WithdrawnInTime, Granted
<1>3. Entitled
  BY DEF Sound, EntitledTo, In, Entitled
<1>4. QED
  BY <1>1, <1>2, <1>3 DEF Sound

LEMMA AreSound ==
  ASSUME IInv, NEW r \in Requests
  PROVE  Sound(requests[r])
<1>1. RequestOK(requests[r])
  BY DEF IInv, TypeOK
<1>2. Known(requests[r])
  BY DEF IInv, KnownCallers, Known
<1>3. InTime(requests[r])
  BY DEF IInv, WithdrawnInTime, InTime, Granted
<1>4. EntitledTo(requests[r])
  BY DEF IInv, Entitled, EntitledTo, In
<1>5. QED
  BY <1>1, <1>2, <1>3, <1>4 DEF Sound

LEMMA TimesOK ==
  ASSUME IInv
  PROVE  /\ now \in Nat /\ now \in 0..MaxTime /\ kids \in Nat /\ kids <= MaxKids
         /\ MaxKids \in Nat /\ MaxTime \in Nat /\ Tolerance \in Nat /\ CacheMaxAge \in Nat
         /\ CacheMaxAge > 0 /\ Cooldown \in Nat /\ Cooldown > 0 /\ FetchMax \in Nat
         /\ issuer \in 0..kids /\ withdrawn \in [Kids -> -1..now]
         /\ pinned \subseteq 1..kids /\ cache \in [kid : 0..kids, at : 0..now]
         /\ DOMAIN requests = Requests
BY ServerConstants DEF IInv, TypeOK

LEMMA TokensAreSome ==
  ASSUME Local \/ Realm, NEW t \in Presented
  PROVE  t # None /\ InfoOf(t) = Info(t)
<1>1. t # None
  BY OneServer, NothingElse DEF Presented, MintedOrBroken, RealmIssued
<1>2. QED
  BY <1>1, OneServer DEF InfoOf

(* The answer to a token, given the keys at hand.                          *)
LEMMA TokenAnswered ==
  ASSUME IInv, Local \/ Realm, NEW q, Shaped(q), NEW t \in Presented, q.cred = t,
         NEW have \in SUBSET (0..kids),
         ~Python => \A k \in have \cap Kids :
                      issuer = k \/ withdrawn[k] + CacheMaxAge + FetchMax > now,
         NEW a, a = Answer(q, Verdict(t, have), Info(t))
  PROVE  Sound(a)
<1>1. PICK v : v = Verdict(t, have)
  OBVIOUS
<1>2. PICK info : info = Info(t)
  OBVIOUS
<1>3. v \in {"granted", "invalid", "forbidden"}
  BY <1>1, Verdicts
<1>4. /\ a \in [phase : Phases, cred : {t}, at : {now, 0}, info : {info, None}, result : {v, None}]
      /\ a.cred = t
      /\ v = "granted" => a.phase = "granted" /\ a.at = now /\ a.info = info /\ a.result = None
      /\ v # "granted" => a.phase = "answered" /\ a.at = 0 /\ a.info = None /\ a.result = v
  BY <1>1, <1>2, AnswerIs
<1>5. t # None /\ InfoOf(t) = info
  BY <1>2, TokensAreSome
<1>6. RequestOK(a)
  <2>1. a.at \in 0..now /\ a.info \in {None, InfoOf(a.cred)} /\ a.result \in Results \cup {None}
    BY <1>3, <1>4, <1>5, TimesOK DEF Results
  <2>2. a \in [phase : Phases, cred : {None} \cup Presented, at : 0..now,
               info : {None, InfoOf(a.cred)}, result : Results \cup {None}]
    BY <1>4, <2>1
  <2>3. QED
    BY <1>4, <1>5, <2>2 DEF RequestOK
<1>7. CASE v # "granted"
  <2>1. a.phase = "answered" /\ a.result \notin {"add", "admin_only", "service_only"}
    BY <1>3, <1>4, <1>7
  <2>2. QED
    BY <1>6, <2>1 DEF Sound, Known, InTime, EntitledTo, In
<1>8. CASE v = "granted"
  <2>1. /\ t.made = "valid" /\ t.claims.key = t.kid /\ t.kid \in Kids /\ t.kid \in have
        /\ t.claims.exp \in Int /\ now <= t.claims.exp
        /\ Realm => "mcp-server" \in t.claims.audience
    BY <1>1, <1>8, GrantedIsSound DEF IInv
  <2>2. a.phase = "granted" /\ a.at = now /\ a.info = InfoOf(a.cred) /\ a.result = None /\ a.cred = t
    BY <1>4, <1>5, <1>8
  <2>3. a.result # "admin_only" /\ a.result # "service_only"
    BY <2>2, NothingElse DEF Results
  <2>4. Known(a) /\ InTime(a)
    BY <2>1, <2>2 DEF Known, InTime
  <2>5. EntitledTo(a)
    BY <2>1, <2>2, <2>3, OneServer DEF EntitledTo
  <2>6. QED
    BY <1>6, <2>4, <2>5 DEF Sound
<1>9. QED
  BY <1>7, <1>8

(***************************************************************************)
(* Steps, by what they touch                                               *)
(***************************************************************************)
(* Which server it is does not change, nor what it takes and says.         *)
LEMMA ServerSame ==
  ASSUME server' = server
  PROVE  /\ Local' = Local /\ Realm' = Realm /\ Python' = Python /\ Mtls' = Mtls
         /\ Presented' = Presented
<1>1. Local' = Local /\ Realm' = Realm /\ Python' = Python /\ Mtls' = Mtls
  BY DEF Local, Realm, Python, Mtls, SoftFail
<1>2. Presented' = Presented
  BY DEF Presented, MintedOrBroken, RealmIssued, Local, Mtls, SoftFail
<1>3. QED
  BY <1>1, <1>2

(* Requests that are sound stay so while keys are published and time goes. *)
LEMMA StaySound ==
  ASSUME server' = server, now \in Nat, now' \in Nat, now <= now', DOMAIN requests' = Requests,
         \A r \in Requests : Sound(requests'[r]),
         \A r \in Requests :
           requests'[r].phase = "granted" /\ (Local \/ Realm) /\ ~Python =>
             \/ issuer' = requests'[r].cred.kid
             \/ withdrawn'[requests'[r].cred.kid] + CacheMaxAge + FetchMax > requests'[r].at
  PROVE  (KnownCallers /\ WithdrawnInTime /\ Entitled /\ \A r \in Requests : RequestOK(requests[r]))'
<1> DEFINE Same == Local' = Local /\ Realm' = Realm /\ Python' = Python /\ Mtls' = Mtls
<1>0. Same
  BY ServerSame
<1>1. KnownCallers'
  <2> SUFFICES ASSUME NEW r \in Requests
        PROVE  /\ requests'[r].phase = "granted" => requests'[r].info = InfoOf(requests[r].cred)'
               /\ requests'[r].phase = "granted" /\ (Local \/ Realm)' =>
                    requests'[r].cred.kid \in Kids /\ requests'[r].cred.claims.exp \in Int
               /\ requests'[r].phase = "fetching" => (Local \/ Realm)'
               /\ requests'[r].phase \in {"authorized", "unauthorized"} => Mtls'
               /\ requests'[r].phase = "authorized" => requests'[r].cred.trusted
    BY DEF KnownCallers
  <2>1. Known(requests'[r])
    BY DEF Sound
  <2>2. InfoOf(requests'[r].cred) = InfoOf(requests[r].cred)'
    BY DEF InfoOf, Info, EffectiveScopes, Local, Mtls, SoftFail, Python
  <2>3. QED
    BY <1>0, <2>1, <2>2 DEF Known
<1>2. WithdrawnInTime'
  BY <1>0 DEF WithdrawnInTime, Granted
<1>3. Entitled'
  <2> SUFFICES ASSUME NEW r \in Requests, NEW q, q = requests'[r]
        PROVE  /\ In(q) /\ (Local \/ Realm)' =>
                    q.cred.made = "valid" /\ q.cred.claims.key = q.cred.kid /\ q.at <= q.cred.claims.exp
               /\ In(q) /\ Realm' => "mcp-server" \in q.cred.claims.audience
               /\ In(q) /\ Mtls' => q.cred.trusted /\ q.cred.cn \in AllowedCn
               /\ q.result = "admin_only" =>
                    /\ Local' => SCOPE_ADMIN \in q.cred.claims.scope
                    /\ Realm' => SCOPE_ADMIN \in q.cred.claims.scope /\ ADMIN_ROLE \in q.cred.claims.roles
                    /\ Mtls' => ADMIN_ROLE \in q.cred.ou
                    /\ server' = "01-api-key" => SCOPE_ADMIN \in ApiKeys[q.cred].scopes
               /\ q.result = "service_only" => q.cred.claims.azp \in AllowedClients
    BY DEF Entitled, In
  <2>1. EntitledTo(q)
    BY DEF Sound
  <2>2. QED
    BY <1>0, <2>1 DEF EntitledTo
<1>4. ASSUME NEW r \in Requests PROVE RequestOK(requests[r])'
  <2>1. PICK q : q = requests'[r]
    OBVIOUS
  <2>2. RequestOK(q)
    BY <2>1 DEF Sound
  <2>3. InfoOf(q.cred) = InfoOf(requests[r].cred)'
    BY <2>1 DEF InfoOf, Info, EffectiveScopes, Local, Mtls, SoftFail, Python
  <2>4. q \in [phase : Phases, cred : {None} \cup Presented', at : 0..now',
               info : {None, InfoOf(requests[r].cred)'}, result : Results \cup {None}]
    BY <2>2, <2>3, ServerSame DEF RequestOK
  <2>5. q.phase \in {"fetching", "authorized", "granted"} => q.cred # None
    BY <2>2 DEF RequestOK
  <2>6. QED
    BY <2>1, <2>4, <2>5 DEF RequestOK
<1>5. QED
  BY <1>1, <1>2, <1>3, <1>4

(* A step of the verifier: requests go on and stay sound.                  *)
LEMMA VerifierStep ==
  ASSUME IInv, UNCHANGED <<now, server, issuerVars>>, table' \subseteq DOMAIN ApiKeys,
         DOMAIN requests' = Requests, \A r \in Requests : Sound(requests'[r]),
         cache' \in [kid : 0..kids, at : 0..now],
         cache'.kid # NoKey => PublishedSince(cache'.kid, cache'.at - FetchMax),
         pinned' \subseteq 1..kids, ~Python => pinned' = {},
         fetch' # None => /\ fetch' \in [started : 0..now, kid : 0..kids]
                          /\ now <= fetch'.started + FetchMax
                          /\ fetch'.kid # NoKey => PublishedSince(fetch'.kid, fetch'.started),
         (fetch' # None) = (Waiting' # {})
  PROVE  IInv'
<1> USE DEF issuerVars
<1>1. (KnownCallers /\ WithdrawnInTime /\ Entitled /\ \A o \in Requests : RequestOK(requests[o]))'
  BY TimesOK, StaySound DEF Sound, InTime
<1>2. TypeOK'
  BY <1>1 DEF IInv, TypeOK
<1>3. KeysInTime'
  BY DEF KeysInTime, PublishedSince, Python
<1>4. QED
  BY <1>1, <1>2, <1>3 DEF IInv

(* One request goes on as a, and nobody waits more or less.                *)
LEMMA RequestStep ==
  ASSUME IInv, NEW r \in Requests, NEW a, Sound(a), requests' = [requests EXCEPT ![r] = a],
         a.phase # "fetching", requests[r].phase # "fetching",
         UNCHANGED <<now, server, issuerVars, cache, fetch>>,
         table' \subseteq DOMAIN ApiKeys,
         pinned' \subseteq 1..kids, ~Python => pinned' = {}
  PROVE  IInv'
<1>1. /\ DOMAIN requests' = Requests /\ requests'[r] = a
      /\ \A o \in Requests \ {r} : requests'[o] = requests[o]
  BY TimesOK
<1>2. \A o \in Requests : Sound(requests'[o])
  BY <1>1, AreSound
<1>3. Waiting' = Waiting
  BY <1>1 DEF Waiting
<1>4. /\ fetch # None => /\ fetch \in [started : 0..now, kid : 0..kids]
                         /\ now <= fetch.started + FetchMax
                         /\ fetch.kid # NoKey => PublishedSince(fetch.kid, fetch.started)
      /\ (fetch # None) = (Waiting # {})
      /\ cache.kid # NoKey => PublishedSince(cache.kid, cache.at - FetchMax)
      /\ cache \in [kid : 0..kids, at : 0..now]
  BY DEF IInv, TypeOK, KeysInTime
<1>5. QED
  BY <1>1, <1>2, <1>3, <1>4, VerifierStep

(* A step around the verifier: keys are made, published and withdrawn, and *)
(* time goes.                                                              *)
LEMMA AroundStep ==
  ASSUME IInv, UNCHANGED <<server, requests, cache, pinned>>, table' \subseteq DOMAIN ApiKeys,
         now' \in 0..MaxTime, now <= now', kids' \in 0..MaxKids, kids <= kids',
         file' \in {NoKey, Torn} \cup 1..kids', issuer' \in 0..kids',
         loaders' \in [Loaders -> [phase : {"none", "generated", "loaded"}, kid : 0..kids']],
         withdrawn' \in [Kids -> -1..now'],
         \A k \in Kids : \A time \in Int :
           time <= now /\ PublishedSince(k, time) => issuer' = k \/ withdrawn'[k] >= time,
         fetch' # None => /\ fetch' \in [started : 0..now', kid : 0..kids']
                          /\ now' <= fetch'.started + FetchMax
                          /\ fetch'.kid # NoKey =>
                               issuer' = fetch'.kid \/ withdrawn'[fetch'.kid] >= fetch'.started,
         (fetch' # None) = (fetch # None)
  PROVE  IInv'
<1>1. \A r \in Requests : Sound(requests'[r])
  BY AreSound
<1>2. ASSUME NEW r \in Requests, requests'[r].phase = "granted", Local \/ Realm, ~Python
      PROVE  \/ issuer' = requests'[r].cred.kid
             \/ withdrawn'[requests'[r].cred.kid] + CacheMaxAge + FetchMax > requests'[r].at
  <2>1. PICK q : q = requests[r]
    OBVIOUS
  <2>2. PICK k : k = q.cred.kid
    OBVIOUS
  <2>3. q.at \in 0..now /\ k \in Kids
        /\ (issuer = k \/ withdrawn[k] + CacheMaxAge + FetchMax > q.at)
    <3>1. Sound(q) /\ q.phase = "granted"
      BY <1>2, <2>1, AreSound
    <3>2. QED
      BY <1>2, <2>2, <3>1 DEF Sound, RequestOK, Known, InTime
  <2>4. PICK time \in Int : time = q.at + 1 - CacheMaxAge - FetchMax
    BY <2>3, TimesOK
  <2>5. time <= now /\ withdrawn[k] \in Int /\ withdrawn'[k] \in Int
    BY <2>3, <2>4, TimesOK
  <2>6. PublishedSince(k, time)
    BY <2>3, <2>4, <2>5, TimesOK DEF PublishedSince
  <2>7. issuer' = k \/ withdrawn'[k] >= time
    BY <2>3, <2>5, <2>6
  <2>8. QED
    BY <2>1, <2>2, <2>3, <2>4, <2>5, <2>7, TimesOK
<1>3. now \in Nat /\ now' \in Nat /\ DOMAIN requests' = Requests
  BY TimesOK
<1>4. (KnownCallers /\ WithdrawnInTime /\ Entitled /\ \A o \in Requests : RequestOK(requests[o]))'
  BY <1>1, <1>2, <1>3, StaySound
<1>5. TypeOK'
  <2>1. Waiting' = Waiting
    BY DEF Waiting
  <2>2. pinned' \subseteq 1..kids' /\ cache' \in [kid : 0..kids', at : 0..now']
    BY TimesOK
  <2>3. server' \in Servers /\ (fetch' # None) = (Waiting' # {})
    BY <2>1 DEF IInv, TypeOK
  <2>4. QED
    BY <1>3, <1>4, <2>2, <2>3 DEF TypeOK
<1>6. KeysInTime'
  <2>1. CASE cache.kid = NoKey
    BY <2>1, ServerSame DEF IInv, KeysInTime, PublishedSince
  <2>2. CASE cache.kid # NoKey
    <3>1. cache.kid \in Kids /\ cache.at - FetchMax \in Int /\ cache.at - FetchMax <= now
      BY <2>2, TimesOK DEF Kids, NoKey
    <3>2. PublishedSince(cache.kid, cache.at - FetchMax)
      BY <2>2 DEF IInv, KeysInTime
    <3>3. issuer' = cache.kid \/ withdrawn'[cache.kid] >= cache.at - FetchMax
      BY <3>1, <3>2
    <3>4. QED
      BY <3>3, ServerSame DEF IInv, KeysInTime, PublishedSince
  <2>3. QED
    BY <2>1, <2>2
<1>7. QED
  BY <1>4, <1>5, <1>6 DEF IInv

(* What is published is known to be so from now on; what was is withdrawn. *)
LEMMA PublishIs ==
  ASSUME IInv, NEW k \in 0..MaxKids, Publish(k)
  PROVE  /\ withdrawn' \in [Kids -> -1..now]
         /\ \A i \in Kids : \A time \in Int :
              time <= now /\ PublishedSince(i, time) => issuer' = i \/ withdrawn'[i] >= time
<1>1. \A i \in Kids : withdrawn[i] \in -1..now /\ withdrawn'[i] \in {-1, now, withdrawn[i]}
  BY TimesOK DEF Publish
<1>2. withdrawn' \in [Kids -> -1..now]
  BY <1>1, TimesOK DEF Publish
<1>3. QED
  BY <1>1, <1>2, TimesOK DEF Publish, PublishedSince

(***************************************************************************)
(* The steps around the verifier                                           *)
(***************************************************************************)
(* The facts of IInv about the request for the keys.                       *)
LEMMA FetchOK ==
  ASSUME IInv
  PROVE  /\ fetch # None => /\ fetch \in [started : 0..now, kid : 0..kids]
                            /\ now <= fetch.started + FetchMax
                            /\ fetch.kid # NoKey => PublishedSince(fetch.kid, fetch.started)
         /\ file \in {NoKey, Torn} \cup 1..kids /\ table \subseteq DOMAIN ApiKeys
         /\ loaders \in [Loaders -> [phase : {"none", "generated", "loaded"}, kid : 0..kids]]
BY DEF IInv, TypeOK, KeysInTime

(* A request under way goes on whatever is published.                      *)
LEMMA FetchGoesOn ==
  ASSUME IInv, fetch' = fetch, now' = now, kids <= kids', kids' \in Nat,
         \A k \in Kids : \A time \in Int :
           time <= now /\ PublishedSince(k, time) => issuer' = k \/ withdrawn'[k] >= time
  PROVE  /\ fetch' # None => /\ fetch' \in [started : 0..now', kid : 0..kids']
                             /\ now' <= fetch'.started + FetchMax
                             /\ fetch'.kid # NoKey =>
                                  issuer' = fetch'.kid \/ withdrawn'[fetch'.kid] >= fetch'.started
         /\ (fetch' # None) = (fetch # None)
<1>1. CASE fetch = None
  BY <1>1
<1>2. CASE fetch # None
  <2>1. fetch \in [started : 0..now', kid : 0..kids'] /\ fetch.started \in Int /\ fetch.started <= now
        /\ (fetch.kid # NoKey => fetch.kid \in Kids)
    BY <1>2, FetchOK, TimesOK DEF Kids, NoKey
  <2>2. QED
    BY <1>2, <2>1, FetchOK
<1>3. QED
  BY <1>1, <1>2

LEMMA LoaderSteps ==
  ASSUME IInv, NEW l \in Loaders,
         (\E rotate \in BOOLEAN : LoadKeys(l, rotate)) \/ Persist(l) \/ Listen(l) \/ MintDone(l)
  PROVE  IInv'
<1> DEFINE LoadersAre(n) == [Loaders -> [phase : {"none", "generated", "loaded"}, kid : 0..n]]
<1>1. \A k \in Kids : \A time \in Int :
        time <= now /\ PublishedSince(k, time) => issuer = k \/ withdrawn[k] >= time
  BY DEF PublishedSince
<1>2. CASE \E rotate \in BOOLEAN : LoadKeys(l, rotate)
  <2>1. PICK rotate \in BOOLEAN : LoadKeys(l, rotate)
    BY <1>2
  <2>2. UNCHANGED <<now, server, file, issuer, kids, withdrawn, cache, pinned, fetch, table, requests>>
    BY <2>1 DEF LoadKeys, verifierVars
  <2>3. PICK n \in [phase : {"none", "generated", "loaded"}, kid : 0..kids] :
          loaders' = [loaders EXCEPT ![l] = n]
    <3>1. CASE file \in Kids /\ loaders' = [loaders EXCEPT ![l] = [phase |-> "loaded", kid |-> file]]
      <4>1. file \in 0..kids
        BY <3>1, FetchOK, TimesOK DEF Kids, NoKey, Torn
      <4>2. QED
        BY <3>1, <4>1
    <3>2. CASE loaders' = [loaders EXCEPT ![l] = [phase |-> "generated", kid |-> NoKey]]
      <4>1. [phase |-> "generated", kid |-> NoKey]
              \in [phase : {"none", "generated", "loaded"}, kid : 0..kids]
        BY TimesOK DEF NoKey
      <4>2. QED
        BY <3>2, <4>1
    <3>3. QED
      BY <2>1, <3>1, <3>2 DEF LoadKeys
  <2>4. loaders' \in LoadersAre(kids)
    BY <2>3, FetchOK
  <2>5. QED
    BY <1>1, <2>2, <2>4, AroundStep, FetchGoesOn, FetchOK, TimesOK
<1>3. CASE Persist(l)
  <2>1. UNCHANGED <<now, server, issuer, withdrawn, cache, pinned, fetch, table, requests>>
    BY <1>3 DEF Persist, verifierVars
  <2>2. kids' \in 0..MaxKids /\ kids <= kids' /\ file' \in {NoKey, Torn} \cup 1..kids'
    BY <1>3, TimesOK DEF Persist
  <2>3. PICK n \in [phase : {"none", "generated", "loaded"}, kid : 0..kids'] :
          loaders' = [loaders EXCEPT ![l] = n]
    <3>1. NoLoader \in [phase : {"none", "generated", "loaded"}, kid : 0..kids']
      BY <2>2, TimesOK DEF NoLoader, NoKey
    <3>2. CASE loaders' = [loaders EXCEPT ![l] = NoLoader]
      BY <3>1, <3>2
    <3>3. CASE kids' = kids + 1
               /\ loaders' = [loaders EXCEPT ![l] = [phase |-> "loaded", kid |-> kids + 1]]
      <4>1. [phase |-> "loaded", kid |-> kids + 1]
              \in [phase : {"none", "generated", "loaded"}, kid : 0..kids']
        BY <3>3, TimesOK
      <4>2. QED
        BY <3>3, <4>1
    <3>4. QED
      BY <1>3, <3>2, <3>3 DEF Persist
  <2>4. loaders' \in LoadersAre(kids')
    BY <2>2, <2>3, FetchOK, TimesOK
  <2>5. issuer' \in 0..kids' /\ withdrawn' \in [Kids -> -1..now'] /\ now' \in 0..MaxTime
    BY <2>1, <2>2, TimesOK
  <2>6. QED
    BY <1>1, <2>1, <2>2, <2>4, <2>5, AroundStep, FetchGoesOn, FetchOK, TimesOK
<1>4. CASE Listen(l) \/ MintDone(l)
  <2>1. UNCHANGED <<now, server, file, kids, cache, pinned, fetch, table, requests>>
        /\ loaders' = [loaders EXCEPT ![l] = NoLoader]
    BY <1>4 DEF Listen, MintDone, verifierVars
  <2>2. NoLoader \in [phase : {"none", "generated", "loaded"}, kid : 0..kids]
    BY TimesOK DEF NoLoader, NoKey
  <2>3. loaders' \in LoadersAre(kids)
    BY <2>1, <2>2, FetchOK
  <2>4. CASE UNCHANGED <<issuer, withdrawn>>
    BY <1>1, <2>1, <2>3, <2>4, AroundStep, FetchGoesOn, FetchOK, TimesOK
  <2>5. CASE Publish(loaders[l].kid)
    <3>1. loaders[l].kid \in 0..kids
      BY FetchOK
    <3>2. issuer' \in 0..kids
      BY <2>5, <3>1 DEF Publish
    <3>3. loaders[l].kid \in 0..MaxKids
      BY <3>1, TimesOK
    <3>4. QED
      BY <2>1, <2>3, <2>5, <3>2, <3>3, PublishIs, AroundStep, FetchGoesOn, FetchOK, TimesOK
  <2>6. QED
    BY <1>4, <2>4, <2>5 DEF Listen, MintDone
<1>5. QED
  BY <1>2, <1>3, <1>4

LEMMA EndpointSteps ==
  ASSUME IInv, Stop \/ RealmUp
  PROVE  IInv'
<1>1. UNCHANGED <<now, server, file, loaders, cache, pinned, fetch, table, requests>>
  BY DEF Stop, RealmUp, verifierVars
<1>2. PICK k \in 0..MaxKids :
        Publish(k) /\ kids' \in 0..MaxKids /\ kids <= kids' /\ k \in 0..kids'
  BY TimesOK DEF Stop, RealmUp, NoKey
<1>3. issuer' = k
  BY <1>2 DEF Publish
<1>4. file' \in {NoKey, Torn} \cup 1..kids'
      /\ loaders' \in [Loaders -> [phase : {"none", "generated", "loaded"}, kid : 0..kids']]
  BY <1>1, <1>2, FetchOK, TimesOK
<1>5. QED
  BY <1>1, <1>2, <1>3, <1>4, PublishIs, AroundStep, FetchGoesOn, FetchOK, TimesOK

LEMMA ClockStep ==
  ASSUME IInv, Tick
  PROVE  IInv'
<1>1. now' = now + 1 /\ now' \in 0..MaxTime
      /\ UNCHANGED <<server, file, loaders, issuer, kids, withdrawn, cache, pinned, fetch, table, requests>>
  BY TimesOK DEF Tick, issuerVars, verifierVars
<1>2. withdrawn' \in [Kids -> -1..now'] /\ now <= now'
  BY <1>1, TimesOK
<1>3. \A k \in Kids : \A time \in Int :
        time <= now /\ PublishedSince(k, time) => issuer' = k \/ withdrawn'[k] >= time
  BY <1>1 DEF PublishedSince
<1>4. fetch' # None => /\ fetch' \in [started : 0..now', kid : 0..kids']
                       /\ now' <= fetch'.started + FetchMax
                       /\ fetch'.kid # NoKey =>
                            issuer' = fetch'.kid \/ withdrawn'[fetch'.kid] >= fetch'.started
  <2> SUFFICES ASSUME fetch # None
        PROVE  /\ fetch \in [started : 0..now + 1, kid : 0..kids]
               /\ now + 1 <= fetch.started + FetchMax
               /\ fetch.kid # NoKey => issuer = fetch.kid \/ withdrawn[fetch.kid] >= fetch.started
    BY <1>1
  <2>1. now < fetch.started + FetchMax
    BY DEF Tick
  <2>2. QED
    BY <2>1, FetchOK, TimesOK DEF PublishedSince
<1>5. QED
  BY <1>1, <1>2, <1>3, <1>4, AroundStep, FetchOK, TimesOK

LEMMA ReadStep ==
  ASSUME IInv, FetchRead
  PROVE  IInv'
<1>1. UNCHANGED <<now, server, file, loaders, issuer, kids, withdrawn, cache, pinned, table, requests>>
  BY DEF FetchRead, issuerVars
<1>2. fetch # None /\ fetch \in [started : 0..now, kid : 0..kids] /\ now <= fetch.started + FetchMax
  BY FetchOK DEF FetchRead
<1>3. PICK f : f = fetch'
  OBVIOUS
<1>4. f \in [started : 0..now, kid : 0..kids] /\ f.started = fetch.started /\ f.kid = issuer
  BY <1>2, <1>3, TimesOK DEF FetchRead
<1>5. f # None
  <2>1. f \in [started : Nat, kid : Nat]
    BY <1>4, TimesOK
  <2>2. QED
    BY <2>1, NothingElse
<1>6. fetch' # None => /\ fetch' \in [started : 0..now', kid : 0..kids']
                       /\ now' <= fetch'.started + FetchMax
                       /\ fetch'.kid # NoKey =>
                            issuer' = fetch'.kid \/ withdrawn'[fetch'.kid] >= fetch'.started
  BY <1>1, <1>2, <1>3, <1>4
<1>7. \A k \in Kids : \A time \in Int :
        time <= now /\ PublishedSince(k, time) => issuer' = k \/ withdrawn'[k] >= time
  BY <1>1 DEF PublishedSince
<1>8. QED
  BY <1>1, <1>2, <1>3, <1>5, <1>6, <1>7, AroundStep, FetchOK, TimesOK

(***************************************************************************)
(* The steps of a token                                                    *)
(***************************************************************************)
(* What an issuer has made, and mint.ts has broken, may be presented.      *)
LEMMA TokensArrive ==
  ASSUME IInv, Local \/ Realm, NEW k \in 1..kids,
         NEW t \in (IF Local THEN LocalTokens(k) ELSE RealmOrForged(k))
  PROVE  t \in Presented
<1>1. k \in Kids
  BY TimesOK DEF Kids
<1>2. CASE Local
  <2> DEFINE minted(user) == {MintToken(k, user, exp) : exp \in {e \in Expiries : e <= now + Ttl}}
  <2>1. minted("alice") \subseteq Minted /\ minted("bob") \subseteq Minted
    BY <1>1 DEF Minted
  <2>2. CASE t \in minted("alice") \cup minted("bob")
    BY <1>2, <2>1, <2>2, OneServer DEF Presented, MintedOrBroken, RealmIssued
  <2>3. CASE \E m \in minted("alice") : t \in Broken(m)
    BY <1>2, <2>1, <2>3, OneServer DEF Presented, MintedOrBroken, RealmIssued
  <2>4. QED
    BY <1>2, <2>2, <2>3 DEF LocalTokens
<1>3. CASE ~Local
  BY <1>1, <1>3, OneServer DEF Presented, MintedOrBroken, RealmIssued
<1>4. QED
  BY <1>2, <1>3

(* In TypeScript keys that are fresh are the published ones, or were not   *)
(* long ago.                                                               *)
LEMMA FreshKeys ==
  ASSUME IInv, Fresh, ~Python, NEW have, have = pinned \cup {cache.kid}
  PROVE  /\ have = {cache.kid} /\ cache.kid \in Kids
         /\ \A k \in have \cap Kids :
              issuer = k \/ withdrawn[k] + CacheMaxAge + FetchMax > now
<1>1. pinned = {} /\ cache.kid # NoKey /\ now < cache.at + CacheMaxAge
      /\ PublishedSince(cache.kid, cache.at - FetchMax)
  BY DEF IInv, KeysInTime, Fresh
<1>2. cache.kid \in Kids /\ cache.at \in Int /\ withdrawn[cache.kid] \in Int
  BY <1>1, TimesOK DEF Kids, NoKey
<1>3. issuer = cache.kid \/ withdrawn[cache.kid] + CacheMaxAge + FetchMax > now
  BY <1>1, <1>2, TimesOK DEF PublishedSince
<1>4. QED
  BY <1>1, <1>2, <1>3

(* Tokens that come from Keycloak name a key.                              *)
LEMMA RealmKid ==
  ASSUME Realm, NEW t \in Presented
  PROVE  t.kid \in Kids
BY OneServer, ForgedFromRealm DEF Presented, MintedOrBroken, RealmIssued

(* Who has to wait for the keys is sound, and so is a connection.          *)
LEMMA WaitingIsSound ==
  ASSUME IInv, Local \/ Realm, NEW t \in Presented, NEW a,
         a = [Idle EXCEPT !.phase = "fetching", !.cred = t]
  PROVE  Sound(a) /\ a.phase = "fetching"
<1>1. /\ a \in [phase : {"fetching"}, cred : {t}, at : {0}, info : {None}, result : {None}]
      /\ a.phase = "fetching" /\ a.cred = t /\ a.result = None
  BY DEF Idle
<1>2. a \in [phase : Phases, cred : {None} \cup Presented, at : 0..now,
             info : {None, InfoOf(a.cred)}, result : Results \cup {None}]
  BY <1>1, TimesOK DEF Phases
<1>3. RequestOK(a)
  BY <1>1, <1>2, TokensAreSome DEF RequestOK
<1>4. None \notin Results
  BY NothingElse
<1>5. QED
  BY <1>1, <1>3, <1>4 DEF Sound, Known, InTime, EntitledTo, In, Results

LEMMA JwtStep ==
  ASSUME IInv, NEW r \in Requests, ArriveJwt(r)
  PROVE  IInv'
<1>1. /\ Local \/ Realm
      /\ requests[r].phase = "idle" /\ UNCHANGED <<now, server, issuerVars, table>>
  BY DEF ArriveJwt
<1>2. PICK k \in 1..kids : \E t \in (IF Local THEN LocalTokens(k) ELSE RealmOrForged(k)) : VerifyJwt(r, t)
  BY DEF ArriveJwt
<1>3. PICK t \in Presented : VerifyJwt(r, t)
  BY <1>1, <1>2, TokensArrive
<1>4. PICK have : have = pinned \cup {cache.kid}
  OBVIOUS
<1>5. have \in SUBSET (0..kids)
  BY <1>4, TimesOK
<1>6. CASE AtHand(t) \/ (Fresh /\ Cooling)
  <2>1. PICK q : q = [Idle EXCEPT !.cred = t]
    OBVIOUS
  <2>2. PICK a : a = Answer(q, Verdict(t, have), Info(t))
    OBVIOUS
  <2>3. /\ requests' = [requests EXCEPT ![r] = a] /\ UNCHANGED <<cache, fetch>>
        /\ pinned' = IF Python THEN pinned \cup ({t.kid} \cap have) ELSE {}
    BY <1>3, <1>4, <1>6, <2>1, <2>2 DEF VerifyJwt
  <2>4. ~Python => Fresh
    BY <1>6 DEF AtHand, IInv, KeysInTime
  <2>5. Shaped(q) /\ q.cred = t
    BY <2>1, IdleWith
  <2>6. Sound(a)
    BY <1>1, <1>3, <1>4, <1>5, <2>2, <2>4, <2>5, FreshKeys, TokenAnswered
  <2>7. a.phase # "fetching"
    BY <2>2, <2>5, AnswerIs
  <2>8. Python => t.kid \in Kids
    BY <1>3, RealmKid DEF Realm
  <2>9. pinned' \subseteq 1..kids /\ (~Python => pinned' = {})
    BY <1>5, <2>3, <2>8, TimesOK DEF Kids
  <2>10. table' \subseteq DOMAIN ApiKeys
    BY <1>1, FetchOK
  <2>11. QED
    BY <1>1, <2>3, <2>6, <2>7, <2>9, <2>10, RequestStep
<1>7. CASE ~(AtHand(t) \/ (Fresh /\ Cooling))
  <2>1. PICK a : a = [Idle EXCEPT !.phase = "fetching", !.cred = t]
    OBVIOUS
  <2>2. PICK new : new = [started |-> now, kid |-> NoKey]
    OBVIOUS
  <2>3. /\ requests' = [requests EXCEPT ![r] = a] /\ UNCHANGED <<cache, pinned>>
        /\ fetch' = IF fetch = None THEN new ELSE fetch
    BY <1>3, <1>7, <2>1, <2>2 DEF VerifyJwt
  <2>4. Sound(a) /\ a.phase = "fetching"
    BY <1>1, <1>3, <2>1, WaitingIsSound
  <2>5. /\ DOMAIN requests' = Requests /\ requests'[r] = a
        /\ \A o \in Requests \ {r} : requests'[o] = requests[o]
    BY <2>3, TimesOK
  <2>6. \A o \in Requests : Sound(requests'[o])
    BY <2>4, <2>5, AreSound
  <2>7. Waiting' # {}
    BY <2>4, <2>5 DEF Waiting
  <2>8. new \in [started : 0..now, kid : 0..kids] /\ new.started = now /\ new.kid = NoKey
    BY <2>2, TimesOK DEF NoKey
  <2>9. new # None
    <3>1. new \in [started : Nat, kid : Nat]
      BY <2>8, TimesOK
    <3>2. QED
      BY <3>1, NothingElse
  <2>10. fetch' # None
    BY <2>3, <2>9
  <2>11. /\ fetch' \in [started : 0..now, kid : 0..kids] /\ now <= fetch'.started + FetchMax
         /\ fetch'.kid # NoKey => PublishedSince(fetch'.kid, fetch'.started)
    BY <2>3, <2>8, FetchOK, TimesOK
  <2>12. /\ cache.kid # NoKey => PublishedSince(cache.kid, cache.at - FetchMax)
         /\ ~Python => pinned = {}
    BY DEF IInv, KeysInTime
  <2>13. QED
    BY <1>1, <2>3, <2>5, <2>6, <2>7, <2>10, <2>11, <2>12, FetchOK, TimesOK, VerifierStep
<1>8. QED
  BY <1>6, <1>7

(* A request that waits has a token, and there is a server for tokens.     *)
LEMMA WaitingHasToken ==
  ASSUME IInv, NEW r \in Waiting
  PROVE  /\ r \in Requests /\ (Local \/ Realm)
         /\ Shaped(requests[r]) /\ requests[r].cred \in Presented
<1>1. r \in Requests /\ requests[r].phase = "fetching" /\ Sound(requests[r])
  BY AreSound DEF Waiting
<1>2. QED
  BY <1>1, RequestShaped DEF Sound, Known, RequestOK

LEMMA SettleStep ==
  ASSUME IInv, FetchSettles
  PROVE  IInv'
<1>1. PICK have : have = pinned \cup {fetch.kid}
  OBVIOUS
<1>2. /\ fetch # None /\ fetch.kid # NoKey /\ fetch' = None
      /\ UNCHANGED <<now, server, issuerVars, table>>
      /\ cache' = [kid |-> fetch.kid, at |-> now]
      /\ pinned' = IF Python THEN pinned \cup ({requests[r].cred.kid : r \in Waiting} \cap have) ELSE {}
      /\ requests' = [r \in Requests |->
           IF r \in Waiting
             THEN Answer(requests[r], Verdict(requests[r].cred, have), Info(requests[r].cred))
             ELSE requests[r]]
  BY <1>1 DEF FetchSettles
<1>3. /\ fetch \in [started : 0..now, kid : 0..kids] /\ now <= fetch.started + FetchMax
      /\ PublishedSince(fetch.kid, fetch.started) /\ fetch.kid \in 1..kids /\ fetch.kid \in Kids
  BY <1>2, FetchOK, TimesOK DEF Kids, NoKey
<1>4. have \in SUBSET (1..kids)
  BY <1>1, <1>3, TimesOK
<1>5. withdrawn[fetch.kid] \in Int
  BY <1>3, TimesOK
<1>6. ~Python => \A k \in have \cap Kids :
        issuer = k \/ withdrawn[k] + CacheMaxAge + FetchMax > now
  <2>1. ~Python => have = {fetch.kid}
    BY <1>1 DEF IInv, KeysInTime
  <2>2. issuer = fetch.kid \/ withdrawn[fetch.kid] + CacheMaxAge + FetchMax > now
    BY <1>3, <1>5, TimesOK DEF PublishedSince
  <2>3. QED
    BY <2>1, <2>2
<1>7. ASSUME NEW r \in Requests
      PROVE  Sound(requests'[r]) /\ requests'[r].phase # "fetching"
  <2>1. CASE r \in Waiting
    <3>1. PICK q : q = requests[r]
      OBVIOUS
    <3>2. PICK t : t = q.cred
      OBVIOUS
    <3>3. PICK a : a = Answer(q, Verdict(t, have), Info(t))
      OBVIOUS
    <3>4. requests'[r] = a
      BY <1>2, <2>1, <3>1, <3>2, <3>3
    <3>5. (Local \/ Realm) /\ Shaped(q) /\ t \in Presented
      BY <2>1, <3>1, <3>2, WaitingHasToken
    <3>6. have \in SUBSET (0..kids)
      BY <1>4, TimesOK
    <3>7. Sound(a)
      BY <1>6, <3>2, <3>3, <3>5, <3>6, TokenAnswered
    <3>8. QED
      BY <3>3, <3>4, <3>5, <3>7, AnswerIs
  <2>2. CASE r \notin Waiting
    BY <1>2, <2>2, AreSound DEF Waiting
  <2>3. QED
    BY <2>1, <2>2
<1>8. DOMAIN requests' = Requests /\ Waiting' = {} /\ (fetch' # None) = (Waiting' # {})
  BY <1>2, <1>7 DEF Waiting
<1>9. /\ cache' \in [kid : 0..kids, at : 0..now]
      /\ PublishedSince(cache'.kid, cache'.at - FetchMax)
  BY <1>2, <1>3, <1>5, TimesOK DEF PublishedSince
<1>10. pinned' \subseteq 1..kids /\ (~Python => pinned' = {})
  BY <1>2, <1>4, TimesOK
<1>11. QED
  BY <1>2, <1>7, <1>8, <1>9, <1>10, FetchOK, VerifierStep

(* A plain refusal is sound whatever was asked.                            *)
LEMMA RefusedIsSound ==
  ASSUME IInv, NEW q, RequestOK(q), NEW v \in {"invalid", "forbidden", "error"}, NEW info,
         NEW a, a = Answer(q, v, info)
  PROVE  Sound(a) /\ a.phase = "answered" /\ a.result = v
<1>1. /\ a \in [phase : Phases, cred : {q.cred}, at : {now, 0}, info : {info, None}, result : {v, None}]
      /\ a.cred = q.cred /\ a.phase = "answered" /\ a.at = 0 /\ a.info = None /\ a.result = v
  BY AnswerIs, RequestShaped
<1>2. a \in [phase : Phases, cred : {None} \cup Presented, at : 0..now,
             info : {None, InfoOf(a.cred)}, result : Results \cup {None}]
  BY <1>1, TimesOK DEF RequestOK, Results
<1>3. RequestOK(a)
  BY <1>1, <1>2 DEF RequestOK
<1>4. QED
  BY <1>1, <1>3 DEF Sound, Known, InTime, EntitledTo, In

LEMMA FailStep ==
  ASSUME IInv, FetchFails
  PROVE  IInv'
<1>1. PICK v : v = IF Python THEN "invalid" ELSE "error"
  OBVIOUS
<1>2. /\ fetch' = None /\ UNCHANGED <<now, server, issuerVars, cache, pinned, table>>
      /\ requests' = [r \in Requests |->
           IF r \in Waiting THEN Answer(requests[r], v, None) ELSE requests[r]]
  BY <1>1 DEF FetchFails
<1>3. v \in {"invalid", "forbidden", "error"}
  BY <1>1
<1>4. ASSUME NEW r \in Requests
      PROVE  Sound(requests'[r]) /\ requests'[r].phase # "fetching"
  <2>1. CASE r \in Waiting
    <3>1. PICK a : a = Answer(requests[r], v, None)
      OBVIOUS
    <3>2. requests'[r] = a
      BY <1>2, <2>1, <3>1
    <3>3. RequestOK(requests[r])
      BY AreSound DEF Sound
    <3>4. QED
      BY <1>3, <3>1, <3>2, <3>3, RefusedIsSound
  <2>2. CASE r \notin Waiting
    BY <1>2, <2>2, AreSound DEF Waiting
  <2>3. QED
    BY <2>1, <2>2
<1>5. DOMAIN requests' = Requests /\ Waiting' = {} /\ (fetch' # None) = (Waiting' # {})
  BY <1>2, <1>4 DEF Waiting
<1>6. /\ cache.kid # NoKey => PublishedSince(cache.kid, cache.at - FetchMax)
      /\ ~Python => pinned = {}
  BY DEF IInv, KeysInTime
<1>7. QED
  BY <1>2, <1>4, <1>5, <1>6, FetchOK, TimesOK, VerifierStep

(***************************************************************************)
(* The steps of the other requests                                         *)
(***************************************************************************)
LEMMA IdleIsSound ==
  ASSUME IInv
  PROVE  Sound(Idle)
<1>1. None \notin Results
  BY NothingElse
<1>2. RequestOK(Idle)
  BY TimesOK DEF RequestOK, Idle, Phases
<1>3. QED
  BY <1>1, <1>2 DEF Sound, Known, InTime, EntitledTo, In, Idle, Results

(* A step of one request that leaves the verifier alone.                   *)
LEMMA OtherStep ==
  ASSUME IInv, NEW r \in Requests, NEW a, Sound(a), requests' = [requests EXCEPT ![r] = a],
         a.phase # "fetching", requests[r].phase # "fetching",
         UNCHANGED <<now, server, issuerVars, verifierVars, table>>
  PROVE  IInv'
<1>1. pinned \subseteq 1..kids /\ (~Python => pinned = {})
  BY TimesOK DEF IInv, KeysInTime
<1>2. QED
  BY <1>1, FetchOK, RequestStep DEF verifierVars

LEMMA ApiKeyStep ==
  ASSUME IInv, NEW r \in Requests, NEW key \in DOMAIN ApiKeys, ArriveApiKey(r, key)
  PROVE  IInv'
<1>1. PICK q : q = [Idle EXCEPT !.cred = key]
  OBVIOUS
<1>2. PICK v : v = KeyVerdict(key)
  OBVIOUS
<1>3. PICK info : info = KeyInfo(key)
  OBVIOUS
<1>4. PICK a : a = Answer(q, v, info)
  OBVIOUS
<1>5. server = "01-api-key" /\ requests[r].phase = "idle" /\ requests' = [requests EXCEPT ![r] = a]
      /\ UNCHANGED <<now, server, issuerVars, verifierVars, table>>
  BY <1>1, <1>2, <1>3, <1>4 DEF ArriveApiKey
<1>6. key \in Presented /\ ~Local /\ ~Realm /\ ~Mtls
  BY <1>5 DEF Presented, MintedOrBroken, RealmIssued, Local, Realm, Python, Mtls, SoftFail
<1>7. key # None /\ InfoOf(key) = info /\ None \notin Results
  BY <1>3, <1>5, NothingElse DEF InfoOf
<1>8. v \in {"granted", "invalid", "forbidden"}
  BY <1>2 DEF KeyVerdict
<1>9. /\ a \in [phase : Phases, cred : {key}, at : {now, 0}, info : {info, None}, result : {v, None}]
      /\ a.cred = key
      /\ v = "granted" => a.phase = "granted" /\ a.at = now /\ a.info = info /\ a.result = None
      /\ v # "granted" => a.phase = "answered" /\ a.at = 0 /\ a.info = None /\ a.result = v
  BY <1>1, <1>4, IdleWith, AnswerIs
<1>10. a.at \in 0..now /\ a.info \in {None, InfoOf(a.cred)} /\ a.result \in Results \cup {None}
  BY <1>7, <1>8, <1>9, TimesOK DEF Results
<1>11. RequestOK(a)
  BY <1>6, <1>7, <1>9, <1>10 DEF RequestOK
<1>12. a.phase \in {"granted", "answered"} /\ a.result \notin {"add", "admin_only", "service_only"}
  BY <1>7, <1>8, <1>9 DEF Results
<1>13. Sound(a)
  BY <1>6, <1>7, <1>9, <1>11, <1>12 DEF Sound, Known, InTime, EntitledTo, In
<1>14. QED
  BY <1>5, <1>12, <1>13, OtherStep

LEMMA HandshakeStep ==
  ASSUME IInv, NEW r \in Requests, NEW cert \in Certificates \cup {None}, Handshake(r, cert)
  PROVE  IInv'
<1>1. PICK phase \in {"authorized", "unauthorized"} :
        phase = IF Authorized(cert) THEN "authorized" ELSE "unauthorized"
  OBVIOUS
<1>2. PICK a : a = [Idle EXCEPT !.phase = phase, !.cred = cert, !.at = now]
  OBVIOUS
<1>3. Mtls /\ requests[r].phase = "idle" /\ requests' = [requests EXCEPT ![r] = a]
      /\ UNCHANGED <<now, server, issuerVars, verifierVars, table>>
  BY <1>1, <1>2 DEF Handshake
<1>4. /\ a \in [phase : {phase}, cred : {cert}, at : {now}, info : {None}, result : {None}]
      /\ a.phase = phase /\ a.cred = cert /\ a.result = None
  BY <1>2 DEF Idle
<1>5. ~Local /\ ~Realm /\ server # "01-api-key"
  BY <1>3 DEF Local, Realm, Python, Mtls, SoftFail
<1>6. Presented = Certificates
  BY <1>3, <1>5 DEF Presented, MintedOrBroken, RealmIssued
<1>7. a \in [phase : Phases, cred : {None} \cup Presented, at : 0..now,
             info : {None, InfoOf(a.cred)}, result : Results \cup {None}]
  BY <1>4, <1>6, TimesOK DEF Phases
<1>8. RequestOK(a)
  BY <1>1, <1>4, <1>7 DEF RequestOK, Authorized
<1>9. phase = "authorized" => cert.trusted
  BY <1>1 DEF Authorized
<1>10. None \notin Results
  BY NothingElse
<1>11. Sound(a)
  BY <1>3, <1>4, <1>5, <1>8, <1>9, <1>10 DEF Sound, Known, InTime, EntitledTo, In, Results
<1>12. QED
  BY <1>3, <1>4, <1>11, OtherStep

LEMMA MtlsStep ==
  ASSUME IInv, NEW r \in Requests, ArriveMtls(r)
  PROVE  IInv'
<1>1. PICK q : q = requests[r]
  OBVIOUS
<1>2. PICK v : v = CertAuth(q)
  OBVIOUS
<1>3. PICK info : info = CertInfo(q.cred)
  OBVIOUS
<1>4. PICK a : a = Answer(q, v, info)
  OBVIOUS
<1>5. q.phase \in {"authorized", "unauthorized"} /\ requests' = [requests EXCEPT ![r] = a]
      /\ UNCHANGED <<now, server, issuerVars, verifierVars, table>>
  BY <1>1, <1>2, <1>3, <1>4 DEF ArriveMtls
<1>6. Sound(q)
  BY <1>1, AreSound
<1>7. Mtls /\ RequestOK(q) /\ (q.phase = "authorized" => q.cred.trusted /\ q.cred # None)
  BY <1>5, <1>6 DEF Sound, Known, RequestOK
<1>8. v \in {"granted", "invalid", "forbidden"}
      /\ (v = "granted" => q.phase = "authorized" /\ q.cred.cn \in AllowedCn)
  BY <1>2 DEF CertAuth
<1>9. CASE v # "granted"
  BY <1>1, <1>4, <1>5, <1>7, <1>8, <1>9, RefusedIsSound, OtherStep
<1>10. CASE v = "granted"
  <2>1. ~Local /\ ~Realm /\ server # "01-api-key"
    BY <1>7 DEF Local, Realm, Python, Mtls, SoftFail
  <2>2. InfoOf(q.cred) = info
    BY <1>3, <1>7, <1>8, <1>10, <2>1 DEF InfoOf
  <2>3. /\ a \in [phase : Phases, cred : {q.cred}, at : {now, 0}, info : {info, None}, result : {v, None}]
        /\ a.cred = q.cred /\ a.phase = "granted" /\ a.at = now /\ a.info = info /\ a.result = None
    BY <1>4, <1>7, <1>10, RequestShaped, AnswerIs
  <2>4. a \in [phase : Phases, cred : {None} \cup Presented, at : 0..now,
               info : {None, InfoOf(a.cred)}, result : Results \cup {None}]
    BY <1>7, <2>2, <2>3, TimesOK DEF RequestOK
  <2>5. RequestOK(a)
    BY <1>7, <1>8, <1>10, <2>3, <2>4 DEF RequestOK
  <2>6. None \notin Results
    BY NothingElse
  <2>7. Sound(a)
    BY <1>7, <1>8, <1>10, <2>1, <2>2, <2>3, <2>5, <2>6
    DEF Sound, Known, InTime, EntitledTo, In, Results
  <2>8. QED
    BY <1>1, <1>5, <2>3, <2>7, OtherStep
<1>11. QED
  BY <1>9, <1>10

(* What the caller's scopes say of the credential.                         *)
LEMMA AdminMeans ==
  ASSUME NEW c, c # None, SCOPE_ADMIN \in InfoOf(c).scopes
  PROVE  /\ Local => SCOPE_ADMIN \in c.claims.scope
         /\ Realm => SCOPE_ADMIN \in c.claims.scope /\ ADMIN_ROLE \in c.claims.roles
         /\ Mtls => ADMIN_ROLE \in c.ou
         /\ server = "01-api-key" => SCOPE_ADMIN \in ApiKeys[c].scopes
<1>1. CASE server = "01-api-key"
  BY <1>1 DEF InfoOf, KeyInfo, Local, Realm, Python, Mtls, SoftFail
<1>2. CASE Mtls
  <2>1. SCOPE_ADMIN \in CertInfo(c).scopes
    BY <1>2 DEF InfoOf, Mtls, SoftFail
  <2>2. ADMIN_ROLE \in c.ou
    BY <2>1 DEF CertInfo, SCOPE_ADMIN, SCOPE_TOOLS
  <2>3. QED
    BY <1>2, <2>2, OneServer DEF Mtls, SoftFail
<1>3. CASE server # "01-api-key" /\ ~Mtls
  <2>1. SCOPE_ADMIN \in EffectiveScopes(c.claims)
    BY <1>3 DEF InfoOf, Info
  <2>2. Local => SCOPE_ADMIN \in c.claims.scope
    BY <2>1 DEF EffectiveScopes, TokenScopes
  <2>3. Realm => SCOPE_ADMIN \in c.claims.scope /\ ADMIN_ROLE \in c.claims.roles
    BY <2>1, OneServer DEF EffectiveScopes, PythonScopes, KeycloakEffectiveScopes, TokenScopes
  <2>4. QED
    BY <1>3, <2>2, <2>3
<1>4. QED
  BY <1>1, <1>2, <1>3

LEMMA ToolStep ==
  ASSUME IInv, NEW r \in Requests, NEW tool \in {"add", "admin_only", "service_only"},
         CallTool(r, tool)
  PROVE  IInv'
<1>1. PICK q : q = requests[r]
  OBVIOUS
<1>2. PICK result : result = IF ToolAllowed(tool, q.info) THEN tool ELSE "denied"
  OBVIOUS
<1>3. PICK a : a = [q EXCEPT !.phase = "answered", !.at = 0, !.result = result]
  OBVIOUS
<1>4. /\ q.phase = "granted" /\ (tool = "service_only" => server = "05-keycloak-client-credentials")
      /\ UNCHANGED <<now, server, issuerVars, verifierVars, table>>
  BY <1>1 DEF CallTool
<1>5. requests' = [requests EXCEPT ![r] = a]
  BY <1>1, <1>2, <1>3, TimesOK DEF CallTool
<1>6. Sound(q) /\ RequestOK(q)
  BY <1>1, AreSound DEF Sound
<1>7. /\ a \in [phase : Phases, cred : {q.cred}, at : {0}, info : {q.info}, result : {result}]
      /\ a.phase = "answered" /\ a.cred = q.cred /\ a.at = 0 /\ a.result = result
  BY <1>3, <1>6 DEF RequestOK, Phases
<1>8. result \in {"add", "admin_only", "service_only", "denied"}
  BY <1>2
<1>9. a \in [phase : Phases, cred : {None} \cup Presented, at : 0..now,
             info : {None, InfoOf(a.cred)}, result : Results \cup {None}]
  BY <1>6, <1>7, <1>8, TimesOK DEF RequestOK, Results
<1>10. RequestOK(a)
  BY <1>7, <1>9 DEF RequestOK
<1>11. q.info = InfoOf(q.cred) /\ q.cred # None
  BY <1>4, <1>6 DEF Sound, Known, RequestOK
<1>12. Local \/ Realm =>
         q.cred.made = "valid" /\ q.cred.claims.key = q.cred.kid /\ 0 <= q.cred.claims.exp
  <2> SUFFICES ASSUME Local \/ Realm
        PROVE q.cred.made = "valid" /\ q.cred.claims.key = q.cred.kid /\ 0 <= q.cred.claims.exp
    OBVIOUS
  <2>1. q.cred.made = "valid" /\ q.cred.claims.key = q.cred.kid /\ q.at <= q.cred.claims.exp
    BY <1>4, <1>6 DEF Sound, EntitledTo, In
  <2>2. q.cred.claims.exp \in Int /\ q.at \in 0..now
    BY <1>4, <1>6 DEF Sound, Known, RequestOK
  <2>3. QED
    BY <2>1, <2>2, TimesOK
<1>13. (Realm => "mcp-server" \in q.cred.claims.audience) /\ (Mtls => q.cred.trusted /\ q.cred.cn \in AllowedCn)
  BY <1>4, <1>6 DEF Sound, EntitledTo, In
<1>14. result = "admin_only" => SCOPE_ADMIN \in InfoOf(q.cred).scopes
  BY <1>2, <1>11 DEF ToolAllowed, DemoTool, RequireScope
<1>15. result = "service_only" => q.cred.claims.azp \in AllowedClients
  <2> SUFFICES ASSUME result = "service_only" PROVE q.cred.claims.azp \in AllowedClients
    OBVIOUS
  <2>1. tool = "service_only" /\ q.info.clientId \in AllowedClients
    BY <1>2 DEF ToolAllowed, ServiceOnly
  <2>2. server = "05-keycloak-client-credentials"
    BY <1>4, <2>1
  <2>3. InfoOf(q.cred) = Info(q.cred)
    BY <1>11, <2>2 DEF InfoOf, Mtls, SoftFail
  <2>4. QED
    BY <1>11, <2>1, <2>3 DEF Info
<1>16. EntitledTo(a)
  <2>1. result = "admin_only" =>
          /\ Local => SCOPE_ADMIN \in q.cred.claims.scope
          /\ Realm => SCOPE_ADMIN \in q.cred.claims.scope /\ ADMIN_ROLE \in q.cred.claims.roles
          /\ Mtls => ADMIN_ROLE \in q.cred.ou
          /\ server = "01-api-key" => SCOPE_ADMIN \in ApiKeys[q.cred].scopes
    BY <1>11, <1>14, AdminMeans
  <2>2. QED
    BY <1>7, <1>12, <1>13, <1>15, <2>1 DEF EntitledTo
<1>17. Sound(a)
  BY <1>7, <1>10, <1>16 DEF Sound, Known, InTime
<1>18. QED
  BY <1>1, <1>4, <1>5, <1>7, <1>17, OtherStep

LEMMA FinishStep ==
  ASSUME IInv, NEW r \in Requests, Finish(r)
  PROVE  IInv'
<1>1. requests' = [requests EXCEPT ![r] = Idle] /\ requests[r].phase = "answered"
      /\ UNCHANGED <<now, server, issuerVars, verifierVars, table>>
  BY DEF Finish
<1>2. Idle.phase # "fetching"
  BY DEF Idle
<1>3. QED
  BY <1>1, <1>2, IdleIsSound, OtherStep

(* A step that leaves all but the table alone.                             *)
LEMMA TableStep ==
  ASSUME IInv, UNCHANGED <<now, server, issuerVars, verifierVars, requests>>,
         table' \subseteq DOMAIN ApiKeys
  PROVE  IInv'
<1>1. \A k \in Kids : \A time \in Int :
        time <= now /\ PublishedSince(k, time) => issuer' = k \/ withdrawn'[k] >= time
  BY DEF PublishedSince, issuerVars
<1>2. QED
  BY <1>1, AroundStep, FetchGoesOn, FetchOK, TimesOK DEF issuerVars, verifierVars

(***************************************************************************)
(* Theorems                                                                *)
(***************************************************************************)
LEMMA Initially == Init => IInv
<1> SUFFICES ASSUME Init PROVE IInv
  OBVIOUS
<1>1. None \notin Results
  BY NothingElse
<1>2. MaxKids \in Nat /\ MaxTime \in Nat /\ FetchMax \in Nat
  BY ServerConstants
<1>3. \A r \in Requests : requests[r] = Idle
  BY DEF Init
<1>4. Idle.phase = "idle" /\ Idle.result = None
  BY DEF Idle
<1>5. TypeOK
  <2>1. Idle \in [phase : Phases, cred : {None} \cup Presented, at : 0..now,
                  info : {None, InfoOf(Idle.cred)}, result : Results \cup {None}]
    BY DEF Init, Idle, Phases
  <2>2. RequestOK(Idle)
    BY <1>4, <2>1 DEF RequestOK
  <2>3. Waiting = {} /\ fetch = None
    BY <1>3, <1>4 DEF Waiting, Init
  <2>4. now \in 0..MaxTime /\ server \in Servers /\ table \subseteq DOMAIN ApiKeys
        /\ file \in {NoKey, Torn} \cup 1..kids
    BY <1>2 DEF Init, ParsedKeys
  <2>5. kids \in 0..MaxKids /\ issuer \in 0..kids
    BY <1>2, ServerConstants DEF Init, NoKey
  <2>6. loaders \in [Loaders -> [phase : {"none", "generated", "loaded"}, kid : 0..kids]]
    BY <2>5, <1>2 DEF Init, NoLoader, NoKey
  <2>7. withdrawn \in [Kids -> -1..now] /\ pinned \subseteq 1..kids
    BY DEF Init
  <2>8. cache \in [kid : 0..kids, at : 0..now]
    BY <2>5, <1>2 DEF Init, NoKey
  <2>9. DOMAIN requests = Requests /\ \A r \in Requests : RequestOK(requests[r])
    BY <1>3, <2>2 DEF Init
  <2>10. QED
    BY <2>3, <2>4, <2>5, <2>6, <2>7, <2>8, <2>9 DEF TypeOK
<1>6. KeysInTime
  BY DEF KeysInTime, Init
<1>7. KnownCallers /\ WithdrawnInTime /\ Entitled
  BY <1>1, <1>3, <1>4 DEF KnownCallers, WithdrawnInTime, Granted, Entitled, Results
<1>8. QED
  BY <1>5, <1>6, <1>7 DEF IInv

LEMMA Inductive == IInv /\ [Next]_vars => IInv'
<1> SUFFICES ASSUME IInv, [Next]_vars PROVE IInv'
  OBVIOUS
<1>1. CASE UNCHANGED vars
  BY <1>1, TableStep, FetchOK DEF vars, issuerVars, verifierVars
<1>2. ASSUME NEW key \in DOMAIN ApiKeys, RemoveKey(key) PROVE IInv'
  BY <1>2, TableStep, FetchOK DEF RemoveKey
<1>3. ASSUME NEW r \in Requests,
             \/ ArriveJwt(r) \/ ArriveMtls(r) \/ Finish(r)
             \/ \E key \in DOMAIN ApiKeys : ArriveApiKey(r, key)
             \/ \E cert \in Certificates \cup {None} : Handshake(r, cert)
             \/ \E tool \in {"add", "admin_only", "service_only"} : CallTool(r, tool)
      PROVE  IInv'
  BY <1>3, JwtStep, MtlsStep, FinishStep, ApiKeyStep, HandshakeStep, ToolStep
<1>4. CASE Next
  BY <1>2, <1>3, <1>4, LoaderSteps, EndpointSteps, ReadStep, SettleStep, FailStep, ClockStep DEF Next
<1>5. QED
  BY <1>1, <1>4

(* The invariant: the keys at hand were published not long ago, and every  *)
(* request that was let in is known by a sound credential.                 *)
THEOREM ServersInvariant == Spec => []IInv
BY Initially, Inductive, PTL DEF Spec

(* Values keep their kinds, and a request for the keys is under way        *)
(* exactly while somebody waits for them.                                  *)
THEOREM TypeCorrect == Spec => []TypeOK
<1>1. IInv => TypeOK
  BY DEF IInv
<1>2. QED
  BY <1>1, ServersInvariant, PTL

(* In TypeScript a key that was withdrawn lets nobody in for longer than   *)
(* jose keeps it and a request for the keys takes.                         *)
THEOREM WithdrawnKeysAge == Spec => []WithdrawnInTime
<1>1. IInv => WithdrawnInTime
  BY DEF IInv
<1>2. QED
  BY <1>1, ServersInvariant, PTL

(* No server lets a caller in, or at a tool, who lacks what the credential *)
(* must say.                                                               *)
THEOREM OnlyEntitled == Spec => []Entitled
<1>1. IInv => Entitled
  BY DEF IInv
<1>2. QED
  BY <1>1, ServersInvariant, PTL

(* In TypeScript a good token is refused only in the cooldown, for want of *)
(* its key: never because of an outage or of keys that are too old.        *)
THEOREM RefusalsAreHonest == Spec => RefusedHonestly
<1> DEFINE Honest(r) ==
      /\ requests[r].phase # "answered" /\ requests'[r].phase = "answered"
      /\ requests'[r].result = "invalid"
      /\ (Local \/ Realm) /\ Good(requests'[r].cred) /\ ~Python
      => cache'.kid # requests'[r].cred.kid /\ now < cache'.at + Cooldown
<1>1. ASSUME IInv, [Next]_vars, NEW r \in Requests PROVE Honest(r)
  <2> SUFFICES ASSUME requests[r].phase # "answered", requests'[r].phase = "answered",
                      requests'[r].result = "invalid", Local \/ Realm,
                      Good(requests'[r].cred), ~Python
               PROVE  cache'.kid # requests'[r].cred.kid /\ now < cache'.at + Cooldown
    OBVIOUS
  <2> DEFINE cred == requests'[r].cred
  <2>1. issuer = cred.kid /\ Verdict(cred, {issuer}) # "invalid" /\ pinned = {}
    BY <1>1 DEF Good, IInv, KeysInTime
  <2>2. ASSUME NEW have, cred.kid \in have PROVE Verdict(cred, have) # "invalid"
    <3>1. PICK c : c = cred
      OBVIOUS
    <3>2. Signers(c, have) = Signers(c, {issuer})
      BY <2>1, <2>2, <3>1 DEF Signers
    <3>3. Verdict(c, have) = Verdict(c, {issuer})
      BY <3>2, SameSigners
    <3>4. QED
      BY <2>1, <3>1, <3>3
  <2>3. ASSUME NEW o \in Requests, ArriveJwt(o) PROVE cache'.kid # cred.kid /\ now < cache'.at + Cooldown
    <3>1. o = r
      BY <1>1, <2>3, TimesOK DEF ArriveJwt, VerifyJwt
    <3>2. PICK t : VerifyJwt(r, t)
      BY <2>3, <3>1 DEF ArriveJwt
    <3>3. PICK q : q = [Idle EXCEPT !.cred = t]
      OBVIOUS
    <3>4. PICK a : a = Answer(q, Verdict(t, {cache.kid}), Info(t))
      OBVIOUS
    <3>5. /\ AtHand(t) \/ (Fresh /\ Cooling)
          /\ requests'[r] = a /\ cache' = cache
      <4>1. CASE AtHand(t) \/ (Fresh /\ Cooling)
        BY <1>1, <2>1, <3>2, <3>3, <3>4, <4>1, TimesOK DEF VerifyJwt
      <4>2. CASE ~(AtHand(t) \/ (Fresh /\ Cooling))
        <5>1. requests'[r] = [Idle EXCEPT !.phase = "fetching", !.cred = t]
          BY <1>1, <3>2, <4>2, TimesOK DEF VerifyJwt
        <5>2. QED
          BY <5>1 DEF Idle
      <4>3. QED
        BY <4>1, <4>2
    <3>6. /\ a.cred = t
          /\ Verdict(t, {cache.kid}) # "granted" => a.result = Verdict(t, {cache.kid})
          /\ Verdict(t, {cache.kid}) = "granted" => a.phase = "granted"
      BY <3>3, <3>4, IdleWith, AnswerIs
    <3>7. cred = t /\ Verdict(t, {cache.kid}) = "invalid"
      BY <3>5, <3>6
    <3>8. cache.kid # cred.kid
      BY <2>2, <3>7
    <3>9. t.alg = "RS256"
      BY <2>1, <3>7, Unsigned DEF Signers
    <3>10. ~AtHand(t)
      BY <2>1, <3>7, <3>8, <3>9 DEF AtHand
    <3>11. QED
      BY <3>5, <3>8, <3>10 DEF Cooling
  <2>4. ASSUME FetchSettles PROVE cache'.kid # cred.kid /\ now < cache'.at + Cooldown
    <3>1. r \in Waiting
      BY <2>4 DEF FetchSettles
    <3>2. Shaped(requests[r])
      BY <1>1, <3>1, WaitingHasToken
    <3>3. PICK q, v, info :
            q = requests[r] /\ v = Verdict(q.cred, {fetch.kid}) /\ info = Info(q.cred)
      OBVIOUS
    <3>4. PICK a : a = Answer(q, v, info)
      OBVIOUS
    <3>5. requests'[r] = a /\ cache'.kid = fetch.kid /\ cache'.at = now
      BY <2>1, <2>4, <3>1, <3>3, <3>4 DEF FetchSettles
    <3>6. a.cred = q.cred /\ (v = "granted" => a.phase = "granted") /\ (v # "granted" => a.result = v)
      BY <3>2, <3>3, <3>4, AnswerIs
    <3>7. cred = q.cred /\ v = "invalid"
      BY <3>5, <3>6
    <3>8. fetch.kid # cred.kid
      BY <2>2, <3>3, <3>7
    <3>9. QED
      BY <1>1, <3>5, <3>8, TimesOK
  <2>5. ~FetchFails
    <3> SUFFICES ASSUME FetchFails PROVE FALSE
      OBVIOUS
    <3>1. r \in Waiting
      BY DEF FetchFails
    <3>2. PICK a : a = Answer(requests[r], "error", None)
      OBVIOUS
    <3>3. requests'[r] = a
      BY <3>1, <3>2 DEF FetchFails
    <3>4. a.result = "error"
      BY <1>1, <3>1, <3>2, WaitingHasToken, AnswerIs
    <3>5. QED
      BY <3>3, <3>4
  <2>6. ASSUME NEW o \in Requests, NEW tool \in {"add", "admin_only", "service_only"}, CallTool(o, tool)
        PROVE  FALSE
    <3>1. o = r
      BY <1>1, <2>6, TimesOK DEF CallTool
    <3>2. PICK result : result = IF ToolAllowed(tool, requests[r].info) THEN tool ELSE "denied"
      OBVIOUS
    <3>3. PICK q : q = requests[r]
      OBVIOUS
    <3>4. requests'[r] = [q EXCEPT !.phase = "answered", !.at = 0, !.result = result]
      BY <1>1, <2>6, <3>1, <3>2, <3>3, TimesOK DEF CallTool
    <3>5. RequestOK(q)
      BY <1>1, <3>3, AreSound DEF Sound
    <3>6. requests'[r].result = result
      BY <3>4, <3>5 DEF RequestOK
    <3>7. QED
      BY <3>2, <3>6
  <2>7. ASSUME NEW o \in Requests, ArriveMtls(o) \/ Finish(o)
                 \/ (\E key \in DOMAIN ApiKeys : ArriveApiKey(o, key))
                 \/ (\E cert \in Certificates \cup {None} : Handshake(o, cert))
        PROVE  FALSE
    <3>1. server # "01-api-key" /\ ~Mtls
      BY OneServer
    <3>2. ~ArriveMtls(o)
      BY <1>1, <3>1, AreSound DEF ArriveMtls, Sound, Known
    <3>3. Finish(o)
      BY <2>7, <3>1, <3>2 DEF ArriveApiKey, Handshake
    <3>4. requests'[r] = Idle \/ requests'[r] = requests[r]
      BY <1>1, <3>3, TimesOK DEF Finish
    <3>5. QED
      BY <3>4 DEF Idle
  <2>8. requests' # requests
    OBVIOUS
  <2>9. QED
    BY <1>1, <2>3, <2>4, <2>5, <2>6, <2>7, <2>8
    DEF Next, vars, LoadKeys, Persist, Listen, MintDone, Stop, RealmUp, FetchRead, RemoveKey, Tick
<1>2. IInv /\ [Next]_vars =>
        [\A r \in Requests :
           LET q == requests'[r] IN
           /\ requests[r].phase # "answered" /\ q.phase = "answered" /\ q.result = "invalid"
           /\ (Local \/ Realm) /\ Good(q.cred) /\ ~Python
           => cache'.kid # q.cred.kid /\ now < cache'.at + Cooldown]_vars
  BY <1>1
<1>3. QED
  BY <1>2, ServersInvariant, PTL DEF Spec, RefusedHonestly
=============================================================================
