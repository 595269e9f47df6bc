----------------------------- MODULE EmbeddedAS -----------------------------
(***************************************************************************)
(* The authorization server of examples/03-oauth-embedded-as: provider.ts, *)
(* the login and consent pages of pages.ts, and the SDK's /token handler   *)
(* that awaits provider.challengeForAuthorizationCode, then the PKCE check,*)
(* then provider.exchangeAuthorizationCode.  Every provider method is one  *)
(* synchronous run of the event loop and so one action; the awaits of the  *)
(* SDK handler are where two token requests interleave.                    *)
(*                                                                         *)
(* A Map is a set of records with its key as a field.  randomId() is a     *)
(* choice of an identifier never drawn before.  Token strings are          *)
(* abstracted to the call of issueTokens that made them: the access and    *)
(* the refresh token of one call share an identifier, and a family is      *)
(* named by the first pair issued in it.                                   *)
(***************************************************************************)
EXTENDS Integers, FiniteSets

CONSTANTS
  Users,            \* keys of the USERS table
  Grantable,        \* Grantable[u]: the grantableScopes of user u
  Clients,          \* every client_id that may ever be registered
  PreRegistered,    \* the clients of preRegisteredClients()
  Uris, Verifiers, ScopeNames, Hrefs,  \* what requests may carry
  Resource,         \* options.resource, the only resource this server accepts
  None,             \* an absent optional field
  Txns, Codes, Pairs,  \* pools of identifiers: transactions, codes, token pairs
  Requests,         \* slots for concurrent POST /token requests carrying a code
  AuthorizeRequests,   \* the /authorize requests clients make
  TokenRequests,    \* the authorization_code grant requests clients make
  RefreshRequests,  \* the refresh_token grant requests clients make
  TxnTtl, CodeTtl, UsedCodeMemory,  \* lifetimes in clock ticks (ms in the code)
  AccessTtl, RefreshTtl,            \* lifetimes in seconds
  TicksPerSec,      \* clock ticks in one second
  MaxTime           \* bound on the clock

SCOPE_TOOLS == "mcp:tools"
SCOPE_ADMIN == "mcp:admin"
SCOPES_SUPPORTED == {SCOPE_TOOLS, SCOPE_ADMIN}

(* Identifiers of different kinds differ, absent fields are recognisable,  *)
(* and lifetimes are positive numbers.                                     *)
ASSUME ConstantsOK ==
  /\ Grantable \in [Users -> SUBSET SCOPES_SUPPORTED]
  /\ PreRegistered \subseteq Clients
  /\ None \notin Users \cup Codes \cup Pairs
  /\ Txns \cap Codes = {} /\ Txns \cap Pairs = {} /\ Codes \cap Pairs = {}
  /\ TxnTtl \in Nat /\ CodeTtl \in Nat /\ UsedCodeMemory \in Nat
  /\ AccessTtl \in Nat /\ RefreshTtl \in Nat
  /\ TicksPerSec \in Nat \ {0} /\ MaxTime \in Nat

(* The shape of requests; the SDK has authenticated the client.  Optional  *)
(* fields may be None, and no scope parameter is the empty set.            *)
ASSUME RequestsOK ==
  /\ AuthorizeRequests \subseteq
       [client : Clients, uri : Uris, challenge : Verifiers,
        scopes : SUBSET ScopeNames, resource : Hrefs \cup {None}]
  /\ TokenRequests \subseteq
       [client : Clients, verifier : Verifiers, uri : Uris \cup {None},
        resource : Hrefs \cup {None}]
  /\ RefreshRequests \subseteq
       [client : Clients, scopes : SUBSET ScopeNames, resource : Hrefs \cup {None}]

VARIABLES
  now,            \* Date.now(), in ticks
  clients,        \* the clients map: ids of the registered clients
  txns,           \* the txns map
  codes,          \* the codes map
  usedCodes,      \* the usedCodes map
  accessTokens,   \* the accessTokens map
  refreshTokens,  \* the refreshTokens map
  consentPages,   \* consent pages open in browser tabs: the txn and the user shown
  inflight,       \* per slot: a code request between the challenge and the exchange
  drawn,          \* identifiers randomId() has returned so far
  approvals,      \* history: the accepted consents
  issued,         \* history: the calls of issueTokens
  ended,          \* history: families revoked, or lost with the process
  reused          \* history: codes refused after they had been redeemed

tokens  == <<accessTokens, refreshTokens>>
history == <<approvals, issued, ended, reused>>
vars == <<now, clients, txns, codes, usedCodes, tokens, consentPages, inflight,
          drawn, history>>

NowSec == now \div TicksPerSec
Idle == [code |-> None]

-----------------------------------------------------------------------------
(* Mutant of LiveUsed: forgets a spent code one tick early.                *)
ForgetfulLiveUsed == {x \in usedCodes : x.expiresAt > now}

(* prune(): what every map keeps of its records.  Transactions, codes and  *)
(* spent codes live up to and including their deadline, tokens do not.     *)
LiveTxns    == {x \in txns          : x.expiresAt >= now}
LiveCodes   == {x \in codes         : x.expiresAt >= now}
LiveUsed    == {x \in usedCodes     : x.expiresAt >= now}
LiveAccess  == {x \in accessTokens  : x.expiresAt > NowSec}
LiveRefresh == {x \in refreshTokens : x.expiresAt > NowSec}

(* Mutant of Without: revokes the first pair of the family only.           *)
WithoutFirst(tokenMap, family) == {x \in tokenMap : x.id # family}

(* Mutant of Without: revokes all the tokens of the family's client.       *)
WithoutClient(tokenMap, family) ==
  {x \in tokenMap : \A y \in tokenMap : y.family = family => y.client # x.client}

(* revokeFamily: what is left of a token map without one family.           *)
Without(tokenMap, family) == {x \in tokenMap : x.family # family}

(* Mutant of AccessRecord: the token is derived from the family.           *)
FamilyAccessRecord(n, grant) ==
  [id |-> grant.family, client |-> grant.client, scopes |-> grant.scopes,
   sub |-> grant.sub, resource |-> grant.resource, family |-> grant.family,
   expiresAt |-> NowSec + AccessTtl]

(* Mutant of RefreshRecord: every refresh token starts a family.           *)
OwnFamilyRefreshRecord(n, grant) ==
  [id |-> n, client |-> grant.client, scopes |-> grant.scopes, sub |-> grant.sub,
   resource |-> grant.resource, family |-> n,
   expiresAt |-> NowSec + RefreshTtl, rotated |-> FALSE]

(* issueTokens(grant): the records of the pair n.                          *)
AccessRecord(n, grant) ==
  [id |-> n, client |-> grant.client, scopes |-> grant.scopes, sub |-> grant.sub,
   resource |-> grant.resource, family |-> grant.family,
   expiresAt |-> NowSec + AccessTtl]
RefreshRecord(n, grant) ==
  [id |-> n, client |-> grant.client, scopes |-> grant.scopes, sub |-> grant.sub,
   resource |-> grant.resource, family |-> grant.family,
   expiresAt |-> NowSec + RefreshTtl, rotated |-> FALSE]

(* issueTokens adds a fresh pair to the maps access and refresh.  The      *)
(* history notes what was redeemed for it and by which request.            *)
IssueTokens(n, grant, access, refresh, source, by) ==
  /\ accessTokens'  = access \cup {AccessRecord(n, grant)}
  /\ refreshTokens' = refresh \cup {RefreshRecord(n, grant)}
  /\ drawn' = drawn \cup {n}
  /\ issued' = issued \cup
       {[id |-> n, family |-> grant.family, source |-> source,
         scopes |-> grant.scopes, by |-> by, at |-> now]}

Redeemed(source) == \E i \in issued : i.source = source

(* A resource parameter is refused when it names a foreign resource;       *)
(* record.resource, when set, is this server's own (see Authorize).        *)
ForeignResource(q) == q.resource \notin {None, Resource}

-----------------------------------------------------------------------------
Init ==
  /\ now = 0
  /\ clients = PreRegistered
  /\ txns = {} /\ codes = {} /\ usedCodes = {}
  /\ accessTokens = {} /\ refreshTokens = {}
  /\ consentPages = {}
  /\ inflight = [r \in Requests |-> Idle]
  /\ drawn = {}
  /\ approvals = {} /\ issued = {} /\ ended = {} /\ reused = {}

(* Time passes.                                                            *)
Tick ==
  /\ now < MaxTime
  /\ now' = now + 1
  /\ UNCHANGED <<clients, txns, codes, usedCodes, tokens, consentPages, inflight,
                 drawn, history>>

(* POST /register: the SDK generated a new client_id.                      *)
RegisterClient(c) ==
  /\ c \notin clients
  /\ clients' = clients \cup {c}
  /\ UNCHANGED <<now, txns, codes, usedCodes, tokens, consentPages, inflight,
                 drawn, history>>

-----------------------------------------------------------------------------
(* The human half: /authorize, the login page, the consent page.           *)

(* Mutant of AuthorizeAccepts: does not look at the resource.              *)
AuthorizeAcceptsAnyResource(q) == q.scopes \subseteq SCOPES_SUPPORTED

(* The checks of authorize on the scope and the resource.                  *)
AuthorizeAccepts(q) == q.scopes \subseteq SCOPES_SUPPORTED /\ ~ForeignResource(q)

PendingAuthorization(id, q) ==
  [id |-> id, client |-> q.client, uri |-> q.uri, challenge |-> q.challenge,
   scopes |-> IF q.scopes = {} THEN {SCOPE_TOOLS} ELSE q.scopes,
   resource |-> q.resource, sub |-> None, expiresAt |-> now + TxnTtl]

(* authorize: prune, then park an acceptable request under a fresh id.     *)
Authorize(q) ==
  /\ q.client \in clients
  /\ codes' = LiveCodes /\ usedCodes' = LiveUsed
  /\ accessTokens' = LiveAccess /\ refreshTokens' = LiveRefresh
  /\ \/ /\ ~AuthorizeAccepts(q)
        /\ txns' = LiveTxns
        /\ UNCHANGED drawn
     \/ /\ AuthorizeAccepts(q)
        /\ \E id \in Txns \ drawn :
             /\ txns' = LiveTxns \cup {PendingAuthorization(id, q)}
             /\ drawn' = drawn \cup {id}
  /\ UNCHANGED <<now, clients, consentPages, inflight, history>>

(* pending(): every page request on an expired transaction deletes it.     *)
ExpireTxn(txn) ==
  /\ txn.expiresAt < now
  /\ txns' = txns \ {txn}
  /\ UNCHANGED <<now, clients, codes, usedCodes, tokens, consentPages, inflight,
                 drawn, history>>

(* authenticate: POST /login with the right csrf and password binds the    *)
(* user, whoever signed in before.  (A wrong one changes nothing.)         *)
Authenticate(txn, u) ==
  /\ txn.expiresAt >= now
  /\ txns' = (txns \ {txn}) \cup {[txn EXCEPT !.sub = u]}
  /\ UNCHANGED <<now, clients, codes, usedCodes, tokens, consentPages, inflight,
                 drawn, history>>

(* What a consent page in a browser tab holds on to: the transaction its   *)
(* form will name and the user it shows (the csrf is the transaction's).   *)
ConsentPage(txn) == [txn |-> txn.id, sub |-> txn.sub]

(* consentView: GET /consent opens a page that names the signed-in user.   *)
ConsentView(txn) ==
  /\ txn.expiresAt >= now
  /\ txn.sub # None
  /\ consentPages' = consentPages \cup {ConsentPage(txn)}
  /\ UNCHANGED <<now, clients, txns, codes, usedCodes, tokens, inflight, drawn,
                 history>>

(* What consent can give: asked by the client and the user's to grant.     *)
GrantedScopes(txn) == txn.scopes \cap Grantable[txn.sub]

CodeRecord(code, txn) ==
  [code |-> code, client |-> txn.client, uri |-> txn.uri, challenge |-> txn.challenge,
   scopes |-> GrantedScopes(txn), resource |-> txn.resource, sub |-> txn.sub,
   expiresAt |-> now + CodeTtl]

(* The entry of one accepted consent in the history: the code, what it     *)
(* grants, and the user whom the submitted page named.                     *)
Approval(record, page) ==
  [code |-> record.code, client |-> record.client, uri |-> record.uri,
   challenge |-> record.challenge, scopes |-> record.scopes,
   resource |-> record.resource, sub |-> record.sub, shown |-> page.sub]

(* decide: POST /consent from an open page of the transaction spends it.   *)
(* The page only carries the transaction id and its csrf, so any open page *)
(* of the transaction will do.                                             *)
Decide(txn, page, accept) ==
  /\ txn.expiresAt >= now
  /\ txn.sub # None
  /\ page.txn = txn.id
  /\ txns' = txns \ {txn}
  /\ \/ /\ ~accept \/ GrantedScopes(txn) = {}
        /\ UNCHANGED <<codes, drawn, approvals>>
     \/ /\ accept /\ GrantedScopes(txn) # {}
        /\ \E code \in Codes \ drawn :
             LET record == CodeRecord(code, txn) IN
             /\ codes' = codes \cup {record}
             /\ drawn' = drawn \cup {code}
             /\ approvals' = approvals \cup {Approval(record, page)}
  /\ UNCHANGED <<now, clients, usedCodes, tokens, consentPages, inflight, issued,
                 ended, reused>>

-----------------------------------------------------------------------------
(* POST /token, grant_type=authorization_code, first half:                 *)
(* challengeForAuthorizationCode prunes and looks the code up.             *)

(* A spent code that is still remembered: its whole family is revoked.     *)
ChallengeReused(code) ==
  \E used \in LiveUsed :
    /\ used.code = code
    /\ accessTokens'  = Without(LiveAccess, used.family)
    /\ refreshTokens' = Without(LiveRefresh, used.family)
    /\ ended'  = ended \cup {used.family}
    /\ reused' = reused \cup {code}
    /\ UNCHANGED inflight

ChallengeUnknown(code) ==
  /\ \A x \in LiveUsed \cup LiveCodes : x.code # code
  /\ accessTokens' = LiveAccess /\ refreshTokens' = LiveRefresh
  /\ reused' = IF Redeemed(code) THEN reused \cup {code} ELSE reused
  /\ UNCHANGED <<inflight, ended>>

ChallengeFound(r, code, q) ==
  /\ \A used \in LiveUsed : used.code # code
  /\ \E record \in LiveCodes :
       /\ record.code = code
       /\ inflight' = [inflight EXCEPT ![r] =
            [code |-> code, challenge |-> record.challenge, request |-> q]]
  /\ accessTokens' = LiveAccess /\ refreshTokens' = LiveRefresh
  /\ UNCHANGED <<ended, reused>>

(* A client presents a code some browser was redirected with.              *)
PresentCode(r, code, q) ==
  /\ inflight[r] = Idle
  /\ q.client \in clients
  /\ code \in drawn
  /\ txns' = LiveTxns /\ codes' = LiveCodes /\ usedCodes' = LiveUsed
  /\ \/ ChallengeReused(code)
     \/ ChallengeUnknown(code)
     \/ ChallengeFound(r, code, q)
  /\ UNCHANGED <<now, clients, consentPages, drawn, approvals, issued>>

(* The SDK compares the S256 hash of the verifier with the challenge it    *)
(* read; hashing is abstracted to equality.                                *)
PkceFails(r) ==
  /\ inflight[r] # Idle
  /\ inflight[r].request.verifier # inflight[r].challenge
  /\ inflight' = [inflight EXCEPT ![r] = Idle]
  /\ UNCHANGED <<now, clients, txns, codes, usedCodes, tokens, consentPages, drawn,
                 history>>

(* Mutant of CodeAccepts: does not look at the client.                     *)
CodeAcceptsAnyClient(record, q) ==
  q.uri \in {None, record.uri} /\ ~ForeignResource(q)

(* The code is bound to the client, the redirect_uri and the resource.     *)
CodeAccepts(record, q) ==
  /\ record.client = q.client
  /\ q.uri \in {None, record.uri}
  /\ ~ForeignResource(q)

(* Mutant of ExchangeableCodes: acts on the record the challenge read.     *)
ChallengedCodes(code) ==
  {[code |-> a.code, client |-> a.client, uri |-> a.uri, challenge |-> a.challenge,
    scopes |-> a.scopes, resource |-> a.resource, sub |-> a.sub,
    expiresAt |-> now] : a \in {b \in approvals : b.code = code}}

(* The code record the exchange acts on: looked up again, not pruned.      *)
ExchangeableCodes(code) == {x \in codes : x.code = code /\ x.expiresAt >= now}

(* Second half: exchangeAuthorizationCode, after PKCE succeeded.           *)
ExchangeGone(code) ==
  /\ ExchangeableCodes(code) = {}
  /\ codes' = {x \in codes : x.code # code}
  /\ reused' = IF Redeemed(code) THEN reused \cup {code} ELSE reused
  /\ UNCHANGED <<usedCodes, tokens, drawn, issued>>

ExchangeRefused(code, q) ==
  /\ \E record \in ExchangeableCodes(code) : ~CodeAccepts(record, q)
  /\ UNCHANGED <<codes, usedCodes, tokens, drawn, issued, reused>>

ExchangeSucceeds(code, q) ==
  \E record \in ExchangeableCodes(code), n \in Pairs \ drawn :
    /\ CodeAccepts(record, q)
    /\ codes' = codes \ {record}
    /\ usedCodes' = usedCodes \cup
         {[code |-> code, family |-> n, expiresAt |-> now + UsedCodeMemory]}
    /\ IssueTokens(n, [client |-> record.client, scopes |-> record.scopes,
                       sub |-> record.sub, resource |-> record.resource,
                       family |-> n],
                   accessTokens, refreshTokens, code, q)
    /\ UNCHANGED reused

ExchangeCode(r) ==
  /\ inflight[r] # Idle
  /\ LET code == inflight[r].code
         q    == inflight[r].request
     IN /\ q.verifier = inflight[r].challenge
        /\ \/ ExchangeGone(code)
           \/ ExchangeRefused(code, q)
           \/ ExchangeSucceeds(code, q)
  /\ inflight' = [inflight EXCEPT ![r] = Idle]
  /\ UNCHANGED <<now, clients, txns, consentPages, approvals, ended>>

-----------------------------------------------------------------------------
(* POST /token, grant_type=refresh_token: exchangeRefreshToken.            *)

(* Mutant of RefreshAccepts: the scope may widen.                          *)
RefreshAcceptsAnyScope(record, q) == record.client = q.client /\ ~ForeignResource(q)

(* The checks of exchangeRefreshToken on the client, resource and scope.   *)
RefreshAccepts(record, q) ==
  /\ record.client = q.client
  /\ ~ForeignResource(q)
  /\ q.scopes \subseteq record.scopes

NarrowedScopes(record, q) == IF q.scopes = {} THEN record.scopes ELSE q.scopes

(* Unknown, expired, or refused without being rotated.                     *)
RefreshRefused(t, q) ==
  /\ \A x \in LiveRefresh : x.id = t => ~x.rotated /\ ~RefreshAccepts(x, q)
  /\ accessTokens' = LiveAccess /\ refreshTokens' = LiveRefresh
  /\ UNCHANGED <<drawn, issued, ended>>

(* A rotated token, whoever presents it: its family is revoked.            *)
RefreshReplayed(t) ==
  \E record \in LiveRefresh :
    /\ record.id = t
    /\ record.rotated
    /\ accessTokens'  = Without(LiveAccess, record.family)
    /\ refreshTokens' = Without(LiveRefresh, record.family)
    /\ ended' = ended \cup {record.family}
    /\ UNCHANGED <<drawn, issued>>

(* Mutant of Rotate: the old token stays good.                             *)
RotateNothing(record) == record

(* record.rotated = true.                                                  *)
Rotate(record) == [record EXCEPT !.rotated = TRUE]

RefreshSucceeds(t, q) ==
  \E record \in LiveRefresh, n \in Pairs \ drawn :
    /\ record.id = t
    /\ ~record.rotated
    /\ RefreshAccepts(record, q)
    /\ IssueTokens(n, [client |-> record.client, scopes |-> NarrowedScopes(record, q),
                       sub |-> record.sub, resource |-> record.resource,
                       family |-> record.family],
                   LiveAccess, (LiveRefresh \ {record}) \cup {Rotate(record)}, t, q)
    /\ UNCHANGED ended

RefreshToken(t, q) ==
  /\ q.client \in clients
  /\ t \in drawn
  /\ txns' = LiveTxns /\ codes' = LiveCodes /\ usedCodes' = LiveUsed
  /\ \/ RefreshRefused(t, q)
     \/ RefreshReplayed(t)
     \/ RefreshSucceeds(t, q)
  /\ UNCHANGED <<now, clients, consentPages, inflight, approvals, reused>>

-----------------------------------------------------------------------------
(* verifyAccessToken accepts the access token of pair t.                   *)
Accepted(t) ==
  \E record \in accessTokens :
    /\ record.id = t
    /\ record.expiresAt > NowSec
    /\ SCOPE_TOOLS \in record.scopes

(* verifyAccessToken deletes an expired token it is shown.                 *)
VerifyExpired(record) ==
  /\ record.expiresAt <= NowSec
  /\ accessTokens' = accessTokens \ {record}
  /\ UNCHANGED <<now, clients, txns, codes, usedCodes, refreshTokens, consentPages,
                 inflight, drawn, history>>

(* revokeToken with an access token: that token only.                      *)
RevokeAccess(record, c) ==
  /\ c \in clients
  /\ record.client = c
  /\ accessTokens' = accessTokens \ {record}
  /\ UNCHANGED <<now, clients, txns, codes, usedCodes, refreshTokens, consentPages,
                 inflight, drawn, history>>

(* revokeToken with a refresh token, rotated or not: its whole family.     *)
RevokeRefresh(record, c) ==
  /\ c \in clients
  /\ record.client = c
  /\ accessTokens'  = Without(accessTokens, record.family)
  /\ refreshTokens' = Without(refreshTokens, record.family)
  /\ ended' = ended \cup {record.family}
  /\ UNCHANGED <<now, clients, txns, codes, usedCodes, consentPages, inflight,
                 drawn, approvals, issued, reused>>

(* The process is restarted: every map is in memory only.                  *)
Restart ==
  /\ clients' = PreRegistered
  /\ txns' = {} /\ codes' = {} /\ usedCodes' = {}
  /\ accessTokens' = {} /\ refreshTokens' = {}
  /\ inflight' = [r \in Requests |-> Idle]
  /\ ended' = ended \cup {i.family : i \in issued}
  /\ UNCHANGED <<now, consentPages, drawn, approvals, issued, reused>>

Next ==
  \/ Tick
  \/ \E c \in Clients : RegisterClient(c)
  \/ \E q \in AuthorizeRequests : Authorize(q)
  \/ \E txn \in txns : ExpireTxn(txn)
  \/ \E txn \in txns, u \in Users : Authenticate(txn, u)
  \/ \E txn \in txns : ConsentView(txn)
  \/ \E txn \in txns, page \in consentPages, accept \in BOOLEAN : Decide(txn, page, accept)
  \/ \E r \in Requests, code \in Codes, q \in TokenRequests : PresentCode(r, code, q)
  \/ \E r \in Requests : PkceFails(r)
  \/ \E r \in Requests : ExchangeCode(r)
  \/ \E t \in Pairs, q \in RefreshRequests : RefreshToken(t, q)
  \/ \E record \in accessTokens : VerifyExpired(record)
  \/ \E record \in accessTokens, c \in Clients : RevokeAccess(record, c)
  \/ \E record \in refreshTokens, c \in Clients : RevokeRefresh(record, c)
  \/ Restart

Spec == Init /\ [][Next]_vars
-----------------------------------------------------------------------------
(* Types of the records the maps hold.                                     *)
TxnType ==
  [id : Txns, client : Clients, uri : Uris, challenge : Verifiers,
   scopes : SUBSET SCOPES_SUPPORTED, resource : {None, Resource},
   sub : Users \cup {None}, expiresAt : Nat]
CodeType ==
  [code : Codes, client : Clients, uri : Uris, challenge : Verifiers,
   scopes : SUBSET SCOPES_SUPPORTED, resource : {None, Resource},
   sub : Users, expiresAt : Nat]
UsedType == [code : Codes, family : Pairs, expiresAt : Nat]
AccessType ==
  [id : Pairs, client : Clients, scopes : SUBSET SCOPES_SUPPORTED, sub : Users,
   resource : {None, Resource}, family : Pairs, expiresAt : Nat]
RefreshType ==
  [id : Pairs, client : Clients, scopes : SUBSET SCOPES_SUPPORTED, sub : Users,
   resource : {None, Resource}, family : Pairs, expiresAt : Nat, rotated : BOOLEAN]
InflightType == [code : Codes, challenge : Verifiers, request : TokenRequests]
ApprovalType ==
  [code : Codes, client : Clients, uri : Uris, challenge : Verifiers,
   scopes : SUBSET SCOPES_SUPPORTED, resource : {None, Resource},
   sub : Users, shown : Users]
IssueType ==
  [id : Pairs, family : Pairs, source : Codes \cup Pairs,
   scopes : SUBSET SCOPES_SUPPORTED, by : TokenRequests \cup RefreshRequests,
   at : Nat]

(* TypeOK: every map of provider.ts holds records of its declared type; in *)
(* particular no record ever names a foreign resource or an unknown scope, *)
(* although requests do.                                                   *)
TypeOK ==
  /\ now \in Nat
  /\ clients \subseteq Clients
  /\ txns \subseteq TxnType
  /\ codes \subseteq CodeType
  /\ usedCodes \subseteq UsedType
  /\ accessTokens \subseteq AccessType
  /\ refreshTokens \subseteq RefreshType
  /\ consentPages \subseteq [txn : Txns, sub : Users]
  /\ inflight \in [Requests -> InflightType \cup {Idle}]
  /\ drawn \subseteq Txns \cup Codes \cup Pairs
  /\ approvals \subseteq ApprovalType
  /\ issued \subseteq IssueType
  /\ ended \subseteq Pairs
  /\ reused \subseteq Codes

-----------------------------------------------------------------------------
(* SingleUse: a code or a refresh token is redeemed at most once, however  *)
(* token requests interleave between the challenge and the exchange        *)
(* (provider.ts, "authorization codes are single-use").                    *)
SingleUse == \A i, j \in issued : i.source = j.source => i = j

(* EndedStaysDead: once a family was revoked - by code reuse, by replay of *)
(* a rotated token, by RFC 7009 - or lost in a restart, no token of it is  *)
(* left in either map, and none appears later (revokeFamily, against       *)
(* requests that were already under way).                                  *)
EndedStaysDead ==
  \A family \in ended : \A x \in accessTokens \cup refreshTokens : x.family # family

(* OneLiveRefresh: of the refresh tokens of a family at most one is not    *)
(* rotated, so a stolen copy and the original cannot both be redeemed.     *)
OneLiveRefresh ==
  \A x, y \in refreshTokens :
    x.family = y.family /\ ~x.rotated /\ ~y.rotated => x = y

(* Whether a token record carries no more than approval a gave.            *)
Within(x, a) ==
  /\ x.client = a.client /\ x.sub = a.sub /\ x.resource = a.resource
  /\ x.scopes \subseteq a.scopes

(* WithinConsent: every token descends from one accepted consent, whose    *)
(* client, user and resource it keeps and whose scopes it never widens     *)
(* through any number of refreshes; and no consent gave more than its user *)
(* may grant (decide, exchangeAuthorizationCode, exchangeRefreshToken).    *)
WithinConsent ==
  /\ \A x \in accessTokens \cup refreshTokens : \E i \in issued, a \in approvals :
       i.id = x.family /\ i.source = a.code /\ Within(x, a)
  /\ \A a \in approvals : a.scopes \subseteq Grantable[a.sub]

(* RedeemedByOwner: the request a code was redeemed by is bound to the     *)
(* consent behind it: same client, the verifier of its challenge, and the  *)
(* redirect_uri when it names one - although challenge and record are read *)
(* in two steps.                                                           *)
RedeemedByOwner ==
  \A i \in issued, a \in approvals : i.source = a.code =>
    /\ i.by.client = a.client
    /\ i.by.verifier = a.challenge
    /\ i.by.uri \in {None, a.uri}

(* When the refresh token of a call of issueTokens expires.                *)
RefreshExpiry(i) == (i.at \div TicksPerSec) + RefreshTtl

(* ReplayRecognisable: while a family is alive, its spent code is still    *)
(* remembered for UsedCodeMemory and each rotated refresh token until its  *)
(* own expiry, so presenting it again is recognised as a replay.           *)
ReplayRecognisable ==
  \A i \in issued : i.family \notin ended =>
    /\ i.source \in Codes /\ now <= i.at + UsedCodeMemory =>
         \E used \in usedCodes : used.code = i.source /\ used.family = i.family
    /\ \A j \in issued :
         j.id = i.source /\ NowSec < RefreshExpiry(j) =>
           \E x \in refreshTokens : x.id = j.id /\ x.rotated

(* NoResurrection: an access token that was issued and is not accepted any *)
(* more - expired, revoked, its family ended - is never accepted again.    *)
NoResurrection ==
  [][\A i \in issued : ~Accepted(i.id) => ~Accepted(i.id)']_vars

(* NothingLost: short of a restart, a code leaves its map only when it has *)
(* expired or was redeemed, and a refresh token only when it has expired   *)
(* or its own family ended: requests of other clients, refused requests    *)
(* and the revocation of another family do not touch them.                 *)
NothingLost ==
  [][\/ Restart
     \/ /\ \A x \in codes : x \in codes' \/ x.expiresAt < now \/ Redeemed(x.code)'
        /\ \A x \in refreshTokens :
             \/ \E y \in refreshTokens' : y.id = x.id
             \/ x.expiresAt <= NowSec
             \/ x.family \in ended']_vars

(* ReuseRevokes: the header of provider.ts says that reuse of a code       *)
(* "revokes every token issued from that code".                            *)
ReuseRevokes ==
  \A code \in reused : \A i \in issued : i.source = code =>
    \A x \in accessTokens \cup refreshTokens : x.family # i.family

(* ConsentAsShown: pages.ts says the consent page shows "as whom (user)":  *)
(* the user whose rights a code carries is the user the submitted page     *)
(* named.                                                                  *)
ConsentAsShown == \A a \in approvals : a.sub = a.shown
-----------------------------------------------------------------------------
(* What a client can redeem: the codes, which belong to no family yet, and *)
(* the refresh tokens that are not rotated.                                *)
Redeemable ==
  {[source |-> x.code, family |-> None] : x \in codes} \cup
  {[source |-> x.id, family |-> x.family] : x \in {y \in refreshTokens : ~y.rotated}}

Chain == INSTANCE GrantChain WITH
  Sources <- Codes \cup Pairs, known <- drawn, redeemable <- Redeemable

(* ImplementsChain: seen through its codes and refresh tokens the server   *)
(* is a GrantChain - redeeming consumes and yields one successor of the    *)
(* same family, and every other step, whatever its order among concurrent  *)
(* requests, only takes away.                                              *)
ImplementsChain == Chain!Spec

-----------------------------------------------------------------------------
(* The inductive strengthening the proofs use.                             *)

(* randomId() has returned every identifier in circulation.                *)
DrawnIds ==
  /\ \A x \in codes : x.code \in drawn
  /\ \A a \in approvals : a.code \in drawn
  /\ \A x \in accessTokens \cup refreshTokens : x.id \in drawn /\ x.family \in drawn
  /\ \A used \in usedCodes : used.family \in drawn
  /\ \A i \in issued : i.id \in drawn /\ i.family \in drawn /\ i.source \in drawn
  /\ \A r \in Requests : inflight[r] # Idle => inflight[r].code \in drawn
  /\ ended \subseteq drawn

(* The sets of records are maps: one record for a key.                     *)
UniqueKeys ==
  /\ \A x, y \in codes : x.code = y.code => x = y
  /\ \A x, y \in refreshTokens : x.id = y.id => x = y
  /\ \A a, b \in approvals : a.code = b.code => a = b

(* What can still be redeemed has not been redeemed.                       *)
Unredeemed ==
  /\ \A x \in codes : ~Redeemed(x.code)
  /\ \A x \in refreshTokens : ~x.rotated => ~Redeemed(x.id)

(* A code record says what was consented to, and a challenge read from it  *)
(* stays the right one while the SDK verifies it.                          *)
CodesApproved ==
  /\ \A x \in codes : \E a \in approvals :
       /\ a.code = x.code /\ a.client = x.client /\ a.uri = x.uri
       /\ a.challenge = x.challenge /\ a.scopes = x.scopes
       /\ a.resource = x.resource /\ a.sub = x.sub
  /\ \A r \in Requests, a \in approvals :
       inflight[r] # Idle /\ inflight[r].code = a.code =>
         inflight[r].challenge = a.challenge

(* A refresh token record still has the family and expiry it was given.    *)
IssuedRecords ==
  \A x \in refreshTokens, i \in issued : i.id = x.id =>
    x.family = i.family /\ x.expiresAt = RefreshExpiry(i)

(* ReplayRecognisable, with the deadlines up to which records are kept.    *)
Remembered ==
  \A i \in issued : i.family \notin ended =>
    /\ i.source \in Codes /\ now <= i.at + UsedCodeMemory =>
         \E used \in usedCodes :
           /\ used.code = i.source /\ used.family = i.family
           /\ used.expiresAt = i.at + UsedCodeMemory
    /\ \A j \in issued : j.id = i.source /\ NowSec < RefreshExpiry(j) =>
         \E x \in refreshTokens :
           /\ x.id = j.id /\ x.family = i.family /\ x.rotated
           /\ x.expiresAt = RefreshExpiry(j)

IInv ==
  /\ TypeOK /\ DrawnIds /\ UniqueKeys /\ Unredeemed /\ CodesApproved
  /\ IssuedRecords /\ Remembered
  /\ SingleUse /\ EndedStaysDead /\ OneLiveRefresh /\ WithinConsent /\ RedeemedByOwner
=============================================================================
