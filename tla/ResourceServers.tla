--------------------------- MODULE ResourceServers ---------------------------
(***************************************************************************)
(* The examples that verify what a caller presents and hand the request to *)
(* the demo tools: 01 (API keys), 02 (JWTs of the local issuer), 04 and 05 *)
(* (JWTs of Keycloak), 08 (client certificates) and 11 (04 in Python).  A  *)
(* behaviour is about one of them, the server.                             *)
(*                                                                         *)
(* The JWT examples get the signing key from a JWKS endpoint and keep it:  *)
(* jose by age and cooldown (external), PyJWKClient in two caches, one of  *)
(* them without an age (external).  Meanwhile the issuer is restarted and  *)
(* its key replaced; the local issuer has its key from a file it shares    *)
(* with mint.ts and with a second issuer started by mistake.               *)
(***************************************************************************)
EXTENDS JwtPolicy, FiniteSets

CONSTANTS
  Servers,          \* the examples to look at
  Requests,         \* slots for requests
  Loaders,          \* slots for processes that load the local issuer's key
  RealmTokens(_),   \* what Keycloak issues, by signing key
  ApiKeys,          \* per API key: [principal, scopes]
  Certificates,     \* client certificates: [cn, ou, trusted, notAfter]
  AllowedCn,        \* MTLS_ALLOWED_CN
  AllowedClients,   \* MCP_ALLOWED_CLIENTS
  None,
  MaxKids,          \* bound on the signing keys made
  Expiries,         \* expiration times of the local issuer's tokens
  Ttl,              \* longest lifetime of such a token
  Tolerance,        \* clockToleranceSec
  CacheMaxAge,      \* age at which jose drops the keys
  Cooldown,         \* time jose waits before it looks for a new key
  FetchMax,         \* timeout of the JWKS request
  MaxTime           \* bound on the clock

ASSUME ServerConstants ==
  /\ {MaxKids, Ttl, Tolerance, CacheMaxAge, Cooldown, FetchMax, MaxTime} \subseteq Nat
  /\ 0 < MaxKids /\ 0 < Cooldown /\ Cooldown <= CacheMaxAge
  /\ Expiries \subseteq Int

(* Keycloak signs what it issues with the key it names (external).         *)
ASSUME RealmIssues ==
  \A k \in 1..MaxKids : RealmTokens(k) \subseteq
    [made : {"valid"}, alg : {"RS256"}, kid : {k}, nbf : Nat,
     claims : [key : {k}, issuer : STRING, audience : SUBSET STRING, exp : Int \cup {NoExp},
               scope : SUBSET STRING, roles : SUBSET STRING, sub : STRING, azp : STRING]]

VARIABLES
  now,         \* the clock
  server,      \* the example
  file,        \* 02-issuer-keys.json: a key, NoKey or Torn
  loaders,     \* per slot: issuer.ts or mint.ts on its way to a key
  issuer,      \* the key published at the JWKS endpoint, NoKey when it is down
  kids,        \* number of keys made
  withdrawn,   \* history: per key no longer published since when, or -1
  cache,       \* the verifier's keys: [kid, at]
  pinned,      \* keys PyJWKClient has looked up before
  fetch,       \* the JWKS request under way: [started, kid] or None
  table,       \* the API keys still in the table
  requests     \* per slot: the request or the connection

vars == <<now, server, file, loaders, issuer, kids, withdrawn, cache, pinned, fetch,
          table, requests>>
issuerVars == <<file, loaders, issuer, kids, withdrawn>>
verifierVars == <<cache, pinned, fetch>>

NoKey == 0
Torn == -1
Kids == 1..MaxKids
Local == server = "02-jwt-local"
Python == server = "11-python-mcp-keycloak"
Realm == server \in {"04-keycloak-resource-server", "05-keycloak-client-credentials"} \/ Python
SoftFail == server = "08-mtls MTLS_SOFT_FAIL=1"
Mtls == server = "08-mtls" \/ SoftFail
NoLoader == [phase |-> "none", kid |-> NoKey]
Idle == [phase |-> "idle", cred |-> None, at |-> 0, info |-> None, result |-> None]

(* parseApiKeys(): of two entries for one key the later one counts.        *)
ParsedKeys == DOMAIN ApiKeys

(* Keycloak runs before its resource servers do; the local issuer need not.*)
Init ==
  /\ now = 0 /\ server \in Servers
  /\ file = NoKey /\ loaders = [l \in Loaders |-> NoLoader]
  /\ issuer = IF Realm THEN 1 ELSE NoKey
  /\ kids = IF Realm THEN 1 ELSE 0
  /\ withdrawn = [k \in Kids |-> -1]
  /\ cache = [kid |-> NoKey, at |-> 0] /\ pinned = {} /\ fetch = None
  /\ table = ParsedKeys
  /\ requests = [r \in Requests |-> Idle]

(***************************************************************************)
(* The local issuer: loadIssuerKeys(), then listen() or signing a token    *)
(***************************************************************************)
LoadKeys(l, rotate) ==
  /\ Local /\ loaders[l].phase = "none"
  /\ \/ /\ ~rotate /\ file \in Kids
        /\ loaders' = [loaders EXCEPT ![l] = [phase |-> "loaded", kid |-> file]]
     \/ /\ rotate \/ file = NoKey
        /\ loaders' = [loaders EXCEPT ![l] = [phase |-> "generated", kid |-> NoKey]]
  /\ UNCHANGED <<now, server, file, issuer, kids, withdrawn, verifierVars, table, requests>>

(* persist() writes the file in place: a crash leaves it unreadable, and   *)
(* nothing but --rotate starts the issuer again.  The key gets its number  *)
(* here, where it first is of use to anybody.                              *)
Persist(l) ==
  /\ loaders[l].phase = "generated"
  /\ \/ /\ kids < MaxKids
        /\ kids' = kids + 1 /\ file' = kids + 1
        /\ loaders' = [loaders EXCEPT ![l] = [phase |-> "loaded", kid |-> kids + 1]]
     \/ /\ file' = Torn
        /\ loaders' = [loaders EXCEPT ![l] = NoLoader]
        /\ UNCHANGED kids
  /\ UNCHANGED <<now, server, issuer, withdrawn, verifierVars, table, requests>>

Publish(k) ==
  /\ issuer' = k
  /\ withdrawn' = [i \in Kids |-> IF i = k THEN -1 ELSE IF i = issuer THEN now ELSE withdrawn[i]]

(* The port of a running issuer is taken: the second one ends here, after  *)
(* it has changed the file.                                                *)
Listen(l) ==
  /\ loaders[l].phase = "loaded"
  /\ IF issuer = NoKey THEN Publish(loaders[l].kid) ELSE UNCHANGED <<issuer, withdrawn>>
  /\ loaders' = [loaders EXCEPT ![l] = NoLoader]
  /\ UNCHANGED <<now, server, file, kids, verifierVars, table, requests>>

(* mint.ts, or an issuer that is stopped here.                             *)
MintDone(l) ==
  /\ loaders[l].phase = "loaded"
  /\ loaders' = [loaders EXCEPT ![l] = NoLoader]
  /\ UNCHANGED <<now, server, file, issuer, kids, withdrawn, verifierVars, table, requests>>

(* The JWKS endpoint goes away, comes back, and Keycloak replaces its key  *)
(* (external).                                                             *)
Stop ==
  /\ issuer # NoKey /\ Publish(NoKey)
  /\ UNCHANGED <<now, server, file, loaders, kids, verifierVars, table, requests>>

RealmUp ==
  /\ Realm
  /\ \/ issuer = NoKey /\ Publish(kids) /\ UNCHANGED kids
     \/ kids < MaxKids /\ kids' = kids + 1 /\ Publish(kids + 1)
  /\ UNCHANGED <<now, server, file, loaders, verifierVars, table, requests>>

(***************************************************************************)
(* Tokens: [made, alg, kid, nbf, claims], made being how it was made       *)
(***************************************************************************)
IssuerUrl == "02-issuer"
AudienceUrl == "02/mcp"
DemoUsers ==
  [user \in {"alice", "bob"} |->
    IF user = "alice" THEN [scope |-> {SCOPE_TOOLS}, roles |-> {}]
    ELSE [scope |-> {SCOPE_TOOLS, SCOPE_ADMIN}, roles |-> {ADMIN_ROLE}]]

(* mintToken(), for a user of POST /token.  A ttl given by the caller may  *)
(* be negative, so that a token may have expired when it is made.          *)
MintToken(k, user, exp) ==
  [made |-> "valid", alg |-> "RS256", kid |-> k, nbf |-> 0,
   claims |-> [key |-> k, issuer |-> IssuerUrl, audience |-> {AudienceUrl}, exp |-> exp,
               scope |-> DemoUsers[user].scope, roles |-> DemoUsers[user].roles,
               sub |-> user, azp |-> user]]

(* The same without a good signature (alg stands for the alg-none and      *)
(* hs256 variants of mint.ts), which anybody can make of any token.        *)
Forged(t) ==
  {[t EXCEPT !.made = "alg", !.alg = "none", !.claims.key = NoKey],
   [t EXCEPT !.made = "tampered", !.claims.key = NoKey, !.claims.scope = @ \cup {SCOPE_ADMIN}]}

RealmOrForged(k) == RealmTokens(k) \cup UNION {Forged(t) : t \in RealmTokens(k)}

(* mint.ts: the same, broken in one way.                                   *)
Broken(t) == Forged(t) \cup
  {[t EXCEPT !.made = "kid", !.kid = MaxKids + 1],
   [t EXCEPT !.made = "nbf", !.nbf = MaxTime + Tolerance + 1],
   [t EXCEPT !.made = "aud", !.claims.audience = {"elsewhere"}],
   [t EXCEPT !.made = "iss", !.claims.issuer = "elsewhere"]}

LocalTokens(k) ==
  LET Minted(user) == {MintToken(k, user, exp) : exp \in {e \in Expiries : e <= now + Ttl}}
      longest == {t \in Minted("alice") : \A e \in Expiries : e <= t.claims.exp}
  IN Minted("alice") \cup Minted("bob") \cup UNION {Broken(t) : t \in longest}

(***************************************************************************)
(* Verification                                                            *)
(***************************************************************************)
LocalVerifier ==
  [issuer |-> IssuerUrl, audience |-> {AudienceUrl}, tolerance |-> Tolerance,
   requiredScopes |-> {SCOPE_TOOLS}]

RealmVerifier == [LocalVerifier EXCEPT !.issuer = "realm", !.audience = {"mcp-server"}]

Verifier == IF Local THEN LocalVerifier ELSE RealmVerifier

(* Mutant: no role policy.                                                 *)
EffectiveAsGranted(claims) == TokenScopes(claims)

(* The Python twin of the role policy.                                     *)
PythonScopes(claims) ==
  IF ADMIN_ROLE \in claims.roles THEN claims.scope ELSE claims.scope \ {SCOPE_ADMIN}

(* The local issuer decides about scopes alone; with Keycloak roles count. *)
EffectiveScopes(claims) ==
  IF Local THEN TokenScopes(claims)
  ELSE IF Python THEN PythonScopes(claims)
  ELSE KeycloakEffectiveScopes(claims)

(* The keys in have that may have signed the token: RS256, by its kid.     *)
Signers(t, have) == IF t.alg = "RS256" THEN have \cap {t.kid} ELSE {}

TypeScriptVerdict(t, have) ==
  IF t.nbf > now + Tolerance THEN "invalid"
  ELSE JwtVerdict(t.claims, Signers(t, have), TRUE, Verifier, EffectiveScopes(t.claims), now)

(* verify_token(), behind a middleware that looks at the expiry before the *)
(* scopes.                                                                 *)
PythonVerdict(t, have) ==
  IF t.nbf > now + Tolerance \/ ~JwtVerified(t.claims, Signers(t, have), Verifier, now)
     \/ ~BearerAccepts(t.claims.exp, now) THEN "invalid"
  ELSE IF Verifier.requiredScopes \subseteq EffectiveScopes(t.claims) THEN "granted"
  ELSE "forbidden"

(* What becomes of a token when the keys in have are at hand.              *)
Verdict(t, have) == IF Python THEN PythonVerdict(t, have) ELSE TypeScriptVerdict(t, have)

Info(t) == [clientId |-> t.claims.azp, scopes |-> EffectiveScopes(t.claims)]

Answer(r, v, info) ==
  [r EXCEPT !.phase = IF v = "granted" THEN "granted" ELSE "answered",
            !.at = IF v = "granted" THEN now ELSE 0,
            !.info = IF v = "granted" THEN info ELSE None,
            !.result = IF v = "granted" THEN None ELSE v]

(* Mutants: keys without an age; every wait for new keys as long as that.  *)
FreshForever == cache.kid # NoKey
CoolingLong == cache.kid # NoKey /\ now < cache.at + CacheMaxAge

Fresh == cache.kid # NoKey /\ now < cache.at + CacheMaxAge
Cooling == cache.kid # NoKey /\ now < cache.at + Cooldown /\ ~Python

(* The key is at hand, or there is none for the algorithm (jose): the      *)
(* answer is known at once.                                                *)
AtHand(t) ==
  t.kid \in pinned \/ (Fresh /\ (t.kid = cache.kid \/ (t.alg # "RS256" /\ ~Python)))

VerifyJwt(r, t) ==
  LET have == pinned \cup {cache.kid} IN
  IF AtHand(t) \/ (Fresh /\ Cooling)
    THEN /\ requests' = [requests EXCEPT ![r] = Answer([Idle EXCEPT !.cred = t], Verdict(t, have), Info(t))]
         /\ pinned' = IF Python THEN pinned \cup ({t.kid} \cap have) ELSE {}
         /\ UNCHANGED <<cache, fetch>>
    ELSE /\ requests' = [requests EXCEPT ![r] = [Idle EXCEPT !.phase = "fetching", !.cred = t]]
         /\ fetch' = IF fetch = None THEN [started |-> now, kid |-> NoKey] ELSE fetch
         /\ UNCHANGED <<cache, pinned>>

ArriveJwt(r) ==
  /\ Local \/ Realm
  /\ requests[r].phase = "idle"
  /\ \E k \in 1..kids : \E t \in (IF Local THEN LocalTokens(k) ELSE RealmOrForged(k)) : VerifyJwt(r, t)
  /\ UNCHANGED <<now, server, issuerVars, table>>

FetchRead ==
  /\ fetch # None /\ fetch.kid = NoKey /\ issuer # NoKey
  /\ fetch' = [fetch EXCEPT !.kid = issuer]
  /\ UNCHANGED <<now, server, issuerVars, cache, pinned, table, requests>>

Waiting == {r \in Requests : requests[r].phase = "fetching"}

(* Everybody who waited for the keys goes on with the new ones.  (The      *)
(* Python requests each ask for themselves; here they share one.)          *)
FetchSettles ==
  /\ fetch # None /\ fetch.kid # NoKey
  /\ LET have == pinned \cup {fetch.kid} IN
     /\ cache' = [kid |-> fetch.kid, at |-> now]
     /\ pinned' = IF Python THEN pinned \cup ({requests[r].cred.kid : r \in Waiting} \cap have) ELSE {}
     /\ requests' = [r \in Requests |->
          IF r \in Waiting
            THEN Answer(requests[r], Verdict(requests[r].cred, have), Info(requests[r].cred))
            ELSE requests[r]]
  /\ fetch' = None
  /\ UNCHANGED <<now, server, issuerVars, table>>

(* Mutant: who waits for the keys is not told that they cannot be had.     *)
FetchFailsUnheard ==
  /\ fetch # None
  /\ fetch' = None
  /\ UNCHANGED <<now, server, issuerVars, cache, pinned, table, requests>>

(* No keys: 500 in TypeScript, and 401 in Python like any failure.         *)
FetchFails ==
  /\ fetch # None
  /\ fetch' = None
  /\ requests' = [r \in Requests |->
       IF r \in Waiting THEN Answer(requests[r], IF Python THEN "invalid" ELSE "error", None)
       ELSE requests[r]]
  /\ UNCHANGED <<now, server, issuerVars, cache, pinned, table>>

(* 01: the table is read on every request, and may change in between.      *)
KeyVerdict(key) ==
  IF key \notin table THEN "invalid"
  ELSE IF SCOPE_TOOLS \notin ApiKeys[key].scopes THEN "forbidden"
  ELSE "granted"

KeyInfo(key) == [clientId |-> ApiKeys[key].principal, scopes |-> ApiKeys[key].scopes]

ArriveApiKey(r, key) ==
  /\ server = "01-api-key" /\ requests[r].phase = "idle"
  /\ requests' = [requests EXCEPT ![r] =
       Answer([Idle EXCEPT !.cred = key], KeyVerdict(key), KeyInfo(key))]
  /\ UNCHANGED <<now, server, issuerVars, verifierVars, table>>

RemoveKey(key) ==
  /\ server = "01-api-key" /\ key \in table
  /\ table' = table \ {key}
  /\ UNCHANGED <<now, server, issuerVars, verifierVars, requests>>

(* 08: the certificate is judged in the handshake; without one, or with a  *)
(* bad one, there is a connection only with MTLS_SOFT_FAIL.                *)
Authorized(cert) == cert # None /\ cert.trusted /\ now <= cert.notAfter

Handshake(r, cert) ==
  /\ Mtls /\ requests[r].phase = "idle"
  /\ Authorized(cert) \/ SoftFail
  /\ requests' = [requests EXCEPT ![r] =
       [Idle EXCEPT !.phase = IF Authorized(cert) THEN "authorized" ELSE "unauthorized",
                    !.cred = cert, !.at = now]]
  /\ UNCHANGED <<now, server, issuerVars, verifierVars, table>>

CertAuth(q) ==
  IF q.phase # "authorized" THEN "invalid"
  ELSE IF q.cred.cn \notin AllowedCn THEN "forbidden"
  ELSE "granted"

CertInfo(cert) ==
  [clientId |-> cert.cn,
   scopes |-> {SCOPE_TOOLS} \cup (IF ADMIN_ROLE \in cert.ou THEN {SCOPE_ADMIN} ELSE {})]

(* A request on the connection, however long after the handshake.          *)
ArriveMtls(r) ==
  /\ requests[r].phase \in {"authorized", "unauthorized"}
  /\ requests' = [requests EXCEPT ![r] =
       Answer(requests[r], CertAuth(requests[r]), CertInfo(requests[r].cred))]
  /\ UNCHANGED <<now, server, issuerVars, verifierVars, table>>

(***************************************************************************)
(* The tools, and what goes on around                                      *)
(***************************************************************************)
RequireScope(info, scope) == scope \in info.scopes

(* whoami and add are for everybody, and add stands for both.              *)
DemoTool(tool, info) == tool = "add" \/ RequireScope(info, SCOPE_ADMIN)

ServiceOnly(info) == info.clientId \in AllowedClients

ToolAllowed(tool, info) ==
  IF tool = "service_only" THEN ServiceOnly(info) ELSE DemoTool(tool, info)

CallTool(r, tool) ==
  /\ requests[r].phase = "granted"
  /\ tool = "service_only" => server = "05-keycloak-client-credentials"
  /\ requests' = [requests EXCEPT ![r].phase = "answered", ![r].at = 0,
                                  ![r].result = IF ToolAllowed(tool, requests[r].info) THEN tool ELSE "denied"]
  /\ UNCHANGED <<now, server, issuerVars, verifierVars, table>>

Finish(r) ==
  /\ requests[r].phase = "answered"
  /\ requests' = [requests EXCEPT ![r] = Idle]
  /\ UNCHANGED <<now, server, issuerVars, verifierVars, table>>

Tick ==
  /\ now < MaxTime
  /\ fetch # None => now < fetch.started + FetchMax
  /\ now' = now + 1
  /\ UNCHANGED <<server, issuerVars, verifierVars, table, requests>>

Next ==
  \/ \E l \in Loaders : (\E rotate \in BOOLEAN : LoadKeys(l, rotate)) \/ Persist(l) \/ Listen(l) \/ MintDone(l)
  \/ Stop \/ RealmUp
  \/ FetchRead \/ FetchSettles \/ FetchFails
  \/ \E r \in Requests :
       \/ ArriveJwt(r) \/ ArriveMtls(r) \/ Finish(r)
       \/ \E key \in DOMAIN ApiKeys : ArriveApiKey(r, key)
       \/ \E cert \in Certificates \cup {None} : Handshake(r, cert)
       \/ \E tool \in {"add", "admin_only", "service_only"} : CallTool(r, tool)
  \/ \E key \in DOMAIN ApiKeys : RemoveKey(key)
  \/ Tick

Spec == Init /\ [][Next]_vars

(***************************************************************************)
(* Properties                                                              *)
(***************************************************************************)
Results == {"invalid", "forbidden", "error", "denied", "add", "admin_only", "service_only"}
Phases == {"idle", "fetching", "authorized", "unauthorized", "granted", "answered"}

(* What may be presented to the server, and what it says of the caller.    *)
Minted == {MintToken(k, user, exp) : k \in Kids, user \in {"alice", "bob"}, exp \in Expiries}
MintedOrBroken == Minted \cup UNION {Broken(t) : t \in Minted}
RealmIssued == UNION {RealmOrForged(k) : k \in Kids}
Presented ==
  IF server = "01-api-key" THEN DOMAIN ApiKeys
  ELSE IF Mtls THEN Certificates
  ELSE IF Local THEN MintedOrBroken
  ELSE RealmIssued

InfoOf(cred) ==
  IF cred = None THEN None
  ELSE IF server = "01-api-key" THEN KeyInfo(cred)
  ELSE IF Mtls THEN CertInfo(cred)
  ELSE Info(cred)

RequestOK(q) ==
  /\ q \in [phase : Phases, cred : {None} \cup Presented, at : 0..now,
             info : {None, InfoOf(q.cred)}, result : Results \cup {None}]
  /\ q.phase \in {"fetching", "authorized", "granted"} => q.cred # None

(* Every value is of its kind, and a request for the keys is under way     *)
(* exactly while somebody waits for them.                                  *)
TypeOK ==
  /\ now \in 0..MaxTime /\ server \in Servers /\ table \subseteq DOMAIN ApiKeys
  /\ kids \in 0..MaxKids /\ file \in {NoKey, Torn} \cup 1..kids /\ issuer \in 0..kids
  /\ loaders \in [Loaders -> [phase : {"none", "generated", "loaded"}, kid : 0..kids]]
  /\ withdrawn \in [Kids -> -1..now] /\ pinned \subseteq 1..kids
  /\ cache \in [kid : 0..kids, at : 0..now]
  /\ fetch # None => fetch \in [started : 0..now, kid : 0..kids] /\ now <= fetch.started + FetchMax
  /\ (fetch # None) = (Waiting # {})
  /\ DOMAIN requests = Requests /\ \A r \in Requests : RequestOK(requests[r])

Granted == {r \in Requests : requests[r].phase = "granted"}

(* A signing key that was withdrawn is good for less than the age of the   *)
(* cache and the time of the request that filled it, in TypeScript; Python *)
(* pins the keys it has used and has no such bound.                        *)
WithdrawnInTime ==
  (Local \/ Realm) /\ ~Python =>
    \A r \in Granted :
      \/ issuer = requests[r].cred.kid
      \/ withdrawn[requests[r].cred.kid] + CacheMaxAge + FetchMax > requests[r].at

(* What a request gets, the credential entitles it to: no broken token is  *)
(* let in, admin_only needs the grant and, from Keycloak, the role, and    *)
(* service_only an allow-listed client; a certificate is of the CA and on  *)
(* the list.                                                               *)
Entitled ==
  \A r \in Requests :
    LET q == requests[r]
        in == q.phase = "granted" \/ q.result \in {"add", "admin_only", "service_only"}
    IN /\ in /\ (Local \/ Realm) =>
            q.cred.made = "valid" /\ q.cred.claims.key = q.cred.kid /\ q.at <= q.cred.claims.exp
       /\ in /\ Realm => "mcp-server" \in q.cred.claims.audience
       /\ in /\ Mtls => q.cred.trusted /\ q.cred.cn \in AllowedCn
       /\ q.result = "admin_only" =>
            /\ Local => SCOPE_ADMIN \in q.cred.claims.scope
            /\ Realm => SCOPE_ADMIN \in q.cred.claims.scope /\ ADMIN_ROLE \in q.cred.claims.roles
            /\ Mtls => ADMIN_ROLE \in q.cred.ou
            /\ server = "01-api-key" => SCOPE_ADMIN \in ApiKeys[q.cred].scopes
       /\ q.result = "service_only" => q.cred.claims.azp \in AllowedClients

(* Good(t) would be let in by a verifier that had the newest keys.         *)
Good(t) == issuer = t.kid /\ Verdict(t, {issuer}) # "invalid"

(* In TypeScript a token signed with the key that is published now is      *)
(* called invalid only if the keys at hand have another one, and came      *)
(* within the cooldown: never because of an outage, or of older keys.      *)
RefusedHonestly ==
  [][\A r \in Requests :
       LET q == requests'[r] IN
       /\ requests[r].phase # "answered" /\ q.phase = "answered" /\ q.result = "invalid"
       /\ (Local \/ Realm) /\ Good(q.cred) /\ ~Python
       => cache'.kid # q.cred.kid /\ now < cache'.at + Cooldown]_vars

(***************************************************************************)
(* What they rest on; ResourceServers_proofs proves it                     *)
(***************************************************************************)
ASSUME NothingElse ==
  /\ None \notin [started : Nat, kid : Nat] /\ None \notin Certificates
  /\ None \notin DOMAIN ApiKeys \cup Results
  /\ None \notin RealmIssued \cup MintedOrBroken
  /\ Servers \subseteq {"01-api-key", "02-jwt-local", "04-keycloak-resource-server",
                       "05-keycloak-client-credentials", "08-mtls", "08-mtls MTLS_SOFT_FAIL=1",
                       "11-python-mcp-keycloak"}

(* The request for the keys, and with them the cache, has a key that was   *)
(* published when the request was made or later.                           *)
PublishedSince(k, time) == issuer = k \/ withdrawn[k] >= time

KeysInTime ==
  /\ fetch # None /\ fetch.kid # NoKey => PublishedSince(fetch.kid, fetch.started)
  /\ cache.kid # NoKey => PublishedSince(cache.kid, cache.at - FetchMax)
  /\ ~Python => pinned = {}

(* A request that was let in is known by what it presented, a token that   *)
(* expires and has a key; and an authorized connection by its certificate. *)
KnownCallers ==
  \A r \in Requests :
    LET q == requests[r] IN
    /\ q.phase = "granted" => q.info = InfoOf(q.cred)
    /\ q.phase = "granted" /\ (Local \/ Realm) => q.cred.kid \in Kids /\ q.cred.claims.exp \in Int
    /\ q.phase = "fetching" => Local \/ Realm
    /\ q.phase \in {"authorized", "unauthorized"} => Mtls
    /\ q.phase = "authorized" => q.cred.trusted

IInv == TypeOK /\ KeysInTime /\ KnownCallers /\ WithdrawnInTime /\ Entitled
=============================================================================
