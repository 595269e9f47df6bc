---------------------------- MODULE AuthGateway ----------------------------
(***************************************************************************)
(* examples/09-auth-gateway: the gateway verifies a bearer token, signs a  *)
(* short-lived assertion of who it was and proxies the request to the      *)
(* internal server, which trusts the assertion once.  Assertions can also  *)
(* reach the internal server a second time, by a copy of a request.        *)
(*                                                                         *)
(* A request goes through the gateway's guard (awaited), the signing       *)
(* (awaited), the upstream request and the relay of its response; the      *)
(* internal server handles what it received on its own, whether anyone     *)
(* still waits for it or not.  The clock of the gateway is Skew ahead.     *)
(***************************************************************************)
EXTENDS JwtPolicy, FiniteSets

CONSTANTS
  Tokens,         \* bearer tokens
  ClaimsOf,       \* their claims
  Verifier,       \* the gateway's verifier: issuer, audience, requiredScopes, tolerance
  Keys,           \* the issuer's signing keys
  Requests,       \* slots for requests through the gateway
  Copies,         \* slots for requests sent to the internal server directly
  Jtis,           \* pool of assertion ids
  Forged,         \* an assertion not signed with the shared secret
  NoHeader,       \* no such header
  Skew,           \* gateway clock minus internal clock
  AssertionTtl,   \* ASSERTION_TTL_SECONDS
  Tolerance,      \* clockToleranceSec of the assertion verifier
  ReplayWindow,   \* replayWindowMs
  MaxTime         \* bound on the clock

ASSUME GatewayConstants ==
  /\ Skew \in Int /\ {AssertionTtl, Tolerance, ReplayWindow, MaxTime} \subseteq Nat
  /\ Requests \cap Copies = {} /\ {Forged, NoHeader} \cap Jtis = {} /\ Forged # NoHeader

(* The window covers the time an assertion is acceptable: 60 s against     *)
(* 30 s, 5 s and the skew.                                                 *)
ASSUME WindowCovers == AssertionTtl + Tolerance + Skew <= ReplayWindow

VARIABLES
  now,        \* the internal server's clock
  mode,       \* INTERNAL_TRUST_MODE
  requests,   \* per slot: the request through the gateway
  handling,   \* per slot of either kind: the request in the internal server
  asserted,   \* per jti: what its assertion says, or NoAssertion
  seen,       \* the internal server's replay memory: [jti, forgetAt]
  accepted,   \* history: jtis accepted since the internal server started
  replayed    \* history: jtis accepted twice since then

vars == <<now, mode, requests, handling, asserted, seen, accepted, replayed>>
historyVars == <<accepted, replayed>>
internalVars == <<seen, historyVars>>

NoAssertion == [sub |-> NoHeader]
Nobody == [sub |-> NoHeader, scopes |-> {}]
NoRequest == [phase |-> "none"]
Senders == Requests \cup Copies

(* Phases in which the gateway has a request open to the internal server.  *)
Upstream == {"sent", "received", "relaying"}

InPhase(r, phases) == requests[r].phase \in phases

-----------------------------------------------------------------------------
Init ==
  /\ now = 0
  /\ mode \in {"assertion", "network"}
  /\ requests = [r \in Requests |-> NoRequest]
  /\ handling = [p \in Senders |-> NoRequest]
  /\ asserted = [j \in Jtis |-> NoAssertion]
  /\ seen = {} /\ accepted = {} /\ replayed = {}

Tick ==
  /\ now < MaxTime
  /\ now' = now + 1
  /\ UNCHANGED <<mode, requests, handling, asserted, internalVars>>

(* A request comes to the gateway, with an x-gateway-assertion of its own  *)
(* perhaps.                                                                *)
Arrive(r, token, smuggled) ==
  /\ InPhase(r, {"none"}) /\ handling[r] = NoRequest
  /\ requests' = [requests EXCEPT ![r] =
       [phase |-> "guard", token |-> token, smuggled |-> smuggled, connected |-> TRUE,
        jti |-> NoHeader]]
  /\ UNCHANGED <<now, mode, handling, asserted, internalVars>>

(* The gateway's own clock decides about tokens.                           *)
Verdict(token, keysKnown) ==
  JwtVerdict(ClaimsOf[token], Keys, keysKnown, Verifier,
             KeycloakEffectiveScopes(ClaimsOf[token]), now + Skew)

Answered(r) == requests' = [requests EXCEPT ![r] = NoRequest]

(* 401, 403, or 500 when the keys cannot be fetched.                       *)
GuardRefuses(r, keysKnown) ==
  /\ InPhase(r, {"guard"})
  /\ Verdict(requests[r].token, keysKnown) # "granted"
  /\ Answered(r)
  /\ UNCHANGED <<now, mode, handling, asserted, internalVars>>

(* What the gateway says of the bearer of a token.                         *)
(* Mutant of Identity: the scopes as granted, without the role policy.     *)
IdentityAsGranted(token) ==
  [sub |-> ClaimsOf[token].sub, scopes |-> TokenScopes(ClaimsOf[token]),
   exp |-> now + Skew + AssertionTtl]

Identity(token) ==
  [sub |-> ClaimsOf[token].sub, scopes |-> KeycloakEffectiveScopes(ClaimsOf[token]),
   exp |-> now + Skew + AssertionTtl]

(* The guard lets the request through and signAssertion() begins.          *)
Sign(r) ==
  /\ InPhase(r, {"guard"})
  /\ Verdict(requests[r].token, TRUE) = "granted"
  /\ \E j \in Jtis :
       /\ asserted[j] = NoAssertion
       /\ asserted' = [asserted EXCEPT ![j] = Identity(requests[r].token)]
       /\ requests' = [requests EXCEPT ![r].phase = "signing", ![r].jti = j]
  /\ UNCHANGED <<now, mode, handling, internalVars>>

(* Mutant of AssertionHeader: a header of the client wins.                 *)
SmuggledHeader(r) ==
  IF requests[r].smuggled # NoHeader THEN requests[r].smuggled ELSE requests[r].jti

(* The allow-list does not copy the client's header; the gateway's is set. *)
AssertionHeader(r) == requests[r].jti

(* The signature is there: the upstream request is sent, and from now on   *)
(* the close of the response is listened to.                               *)
Forward(r) ==
  /\ InPhase(r, {"signing"})
  /\ requests' = [requests EXCEPT ![r].phase = "sent"]
  /\ UNCHANGED <<now, mode, handling, asserted, internalVars>>

-----------------------------------------------------------------------------
(* The client hangs up.  Once the listener is there, the upstream request  *)
(* is destroyed; before, the event is over when it is registered.          *)
Closed(r) ==
  requests' = [requests EXCEPT ![r] =
    IF @.phase \in Upstream THEN NoRequest ELSE [@ EXCEPT !.connected = FALSE]]

HangUp(r) ==
  /\ ~InPhase(r, {"none"})
  /\ requests[r].connected
  /\ Closed(r)
  /\ UNCHANGED <<now, mode, handling, asserted, internalVars>>

Handled(header, user) ==
  [phase |-> "verifying", carries |-> header, user |-> user, servedAs |-> Nobody]

(* The internal server has the proxied request, without x-forwarded-user,  *)
(* which is not on the allow-list.  jwtVerify() is awaited.                *)
Receive(r) ==
  /\ InPhase(r, {"sent"})
  /\ requests' = [requests EXCEPT ![r].phase = "received"]
  /\ handling' = [handling EXCEPT ![r] = Handled(AssertionHeader(r), NoHeader)]
  /\ UNCHANGED <<now, mode, asserted, internalVars>>

(* A copy of a request reaches the internal server: with an assertion the  *)
(* gateway made, a forged one, or none, and any user; only the header the  *)
(* mode looks at is told apart.                                            *)
SendCopy(c, header, user) ==
  /\ handling[c] = NoRequest
  /\ IF mode = "assertion" THEN user = NoHeader ELSE header = NoHeader
  /\ header \in Jtis => asserted[header] # NoAssertion
  /\ handling' = [handling EXCEPT ![c] = Handled(header, user)]
  /\ UNCHANGED <<now, mode, requests, asserted, internalVars>>

(* jwtVerify() of the assertion: the secret, issuer, audience, and expiry. *)
AssertionVerified(header) ==
  /\ header \in Jtis
  /\ asserted[header] # NoAssertion
  /\ now < asserted[header].exp + Tolerance

(* Mutant of ForgetAt: remembered for the lifetime of the assertion only.  *)
ForgetAfterTtl == now + AssertionTtl

ForgetAt == now + ReplayWindow

(* Expired memories go, whatever the assertion.                            *)
Remembered == {s \in seen : s.forgetAt > now}

Replayed(header) == \E s \in Remembered : s.jti = header

(* verifyAssertion() from where jwtVerify() returns, in one piece.         *)
Trusts(header) == AssertionVerified(header) /\ ~Replayed(header)

RecordTrusted(header) ==
  /\ seen' = Remembered \cup {[jti |-> header, forgetAt |-> ForgetAt]}
  /\ accepted' = accepted \cup {header}
  /\ replayed' = IF header \in accepted THEN replayed \cup {header} ELSE replayed

RecordRefused(header) ==
  /\ seen' = IF AssertionVerified(header) THEN Remembered ELSE seen
  /\ UNCHANGED historyVars

Verifying(p) == handling[p].phase = "verifying"

Serve(p, identity) ==
  handling' = [handling EXCEPT ![p].phase = "served", ![p].servedAs = identity]

(* A plain 401.                                                            *)
Unauthorized(p) == handling' = [handling EXCEPT ![p].phase = "over"]

(* What the assertion says of its subject.                                 *)
AssertedIdentity(header) == [sub |-> asserted[header].sub, scopes |-> asserted[header].scopes]

TrustGatewayAssertion(p) ==
  LET header == handling[p].carries IN
  /\ mode = "assertion" /\ Verifying(p)
  /\ \/ Trusts(header) /\ RecordTrusted(header) /\ Serve(p, AssertedIdentity(header))
     \/ ~Trusts(header) /\ RecordRefused(header) /\ Unauthorized(p)
  /\ UNCHANGED <<now, mode, requests, asserted>>

(* Whoever the header names, with whatever scopes it claims.               *)
ForwardedIdentity(user) == [sub |-> user, scopes |-> {SCOPE_TOOLS, SCOPE_ADMIN}]

TrustForwardedHeaders(p) ==
  LET user == handling[p].user IN
  /\ mode = "network" /\ Verifying(p)
  /\ IF user = NoHeader THEN Unauthorized(p) ELSE Serve(p, ForwardedIdentity(user))
  /\ UNCHANGED <<now, mode, requests, asserted, internalVars>>

(* The internal server ends a response, of itself or because the           *)
(* connection of the request closed.                                       *)
Finish(p) ==
  /\ handling[p].phase = "served"
  /\ handling' = [handling EXCEPT ![p].phase = "over"]
  /\ UNCHANGED <<now, mode, requests, asserted, internalVars>>

(* Nobody waits for the response that is over.                             *)
Vanish(p) ==
  /\ handling[p].phase = "over"
  /\ p \in Requests => InPhase(p, {"none"})
  /\ handling' = [handling EXCEPT ![p] = NoRequest]
  /\ UNCHANGED <<now, mode, requests, asserted, internalVars>>

-----------------------------------------------------------------------------
(* The head of the response is relayed and flushed; the body follows.      *)
RelayHead(r) ==
  /\ InPhase(r, {"received"})
  /\ handling[r].phase \in {"served", "over"}
  /\ requests' = [requests EXCEPT ![r].phase = "relaying"]
  /\ UNCHANGED <<now, mode, handling, asserted, internalVars>>

RelayEnd(r) ==
  /\ InPhase(r, {"relaying"})
  /\ handling[r].phase = "over"
  /\ Answered(r)
  /\ UNCHANGED <<now, mode, handling, asserted, internalVars>>

(* The upstream request fails: 502, or the response is destroyed when its  *)
(* head is out.                                                            *)
UpstreamError(r) ==
  /\ \/ InPhase(r, {"sent"})
     \/ InPhase(r, {"received", "relaying"}) /\ handling[r] = NoRequest
  /\ Answered(r)
  /\ UNCHANGED <<now, mode, handling, asserted, internalVars>>

(* The internal server restarts: its requests and its memory of jtis are   *)
(* gone.                                                                   *)
RestartInternal ==
  /\ handling' = [p \in Senders |-> NoRequest]
  /\ seen' = {} /\ accepted' = {} /\ replayed' = {}
  /\ UNCHANGED <<now, mode, requests, asserted>>

Headers == Jtis \cup {Forged, NoHeader}

Next ==
  \/ Tick
  \/ \E r \in Requests, t \in Tokens, h \in {Forged, NoHeader} : Arrive(r, t, h)
  \/ \E r \in Requests, known \in BOOLEAN : GuardRefuses(r, known)
  \/ \E r \in Requests : Sign(r)
  \/ \E r \in Requests : Forward(r)
  \/ \E r \in Requests : HangUp(r)
  \/ \E r \in Requests : Receive(r)
  \/ \E c \in Copies, h \in Headers, u \in {NoHeader, "alice"} : SendCopy(c, h, u)
  \/ \E p \in Senders : TrustGatewayAssertion(p)
  \/ \E p \in Senders : TrustForwardedHeaders(p)
  \/ \E p \in Senders : Finish(p)
  \/ \E p \in Senders : Vanish(p)
  \/ \E r \in Requests : RelayHead(r)
  \/ \E r \in Requests : RelayEnd(r)
  \/ \E r \in Requests : UpstreamError(r)
  \/ RestartInternal

Spec == Init /\ [][Next]_vars

-----------------------------------------------------------------------------
Subjects == {ClaimsOf[t].sub : t \in Tokens}
Scopes == (UNION {TokenScopes(ClaimsOf[t]) : t \in Tokens}) \cup {SCOPE_TOOLS, SCOPE_ADMIN}
Identities == [sub : Subjects \cup {NoHeader, "alice"}, scopes : SUBSET Scopes]

RequestType ==
  [phase : {"guard", "signing"} \cup Upstream, token : Tokens, smuggled : {Forged, NoHeader},
   connected : BOOLEAN, jti : Jtis \cup {NoHeader}]
HandlingType ==
  [phase : {"verifying", "served", "over"}, carries : Headers, user : {NoHeader, "alice"},
   servedAs : Identities]
AssertionType == [sub : Subjects, scopes : SUBSET Scopes, exp : Int]

(* Type invariant; what is proxied carries an assertion of the gateway.    *)
TypeOK ==
  /\ now \in 0..MaxTime
  /\ mode \in {"assertion", "network"}
  /\ requests \in [Requests -> RequestType \cup {NoRequest}]
  /\ handling \in [Senders -> HandlingType \cup {NoRequest}]
  /\ asserted \in [Jtis -> AssertionType \cup {NoAssertion}]
  /\ \A r \in Requests : requests[r] # NoRequest =>
       /\ ~InPhase(r, {"guard"}) => requests[r].jti \in Jtis
       /\ handling[r] # NoRequest => handling[r].carries = requests[r].jti
  /\ seen \subseteq [jti : Jtis, forgetAt : Nat]
  /\ accepted \subseteq Jtis /\ replayed \subseteq accepted

(* An assertion is good once, however many copies of it arrive, when, and  *)
(* in whatever order their verifications end, until the internal server    *)
(* restarts.                                                               *)
AcceptedOnce == replayed = {}

(* What the internal server serves in the default mode, it serves as the   *)
(* subject of a token the gateway verified, with no more than that         *)
(* subject's effective scopes; a proxied request as its own caller.        *)
ServedAsVerified ==
  mode = "assertion" =>
  \A p \in Senders : handling[p].phase = "served" =>
    \E t \in Tokens :
      /\ handling[p].servedAs = [sub |-> ClaimsOf[t].sub,
                                scopes |-> KeycloakEffectiveScopes(ClaimsOf[t])]
      /\ ClaimsOf[t].key \in Keys
      /\ p \in Requests /\ ~InPhase(p, {"none"}) => requests[p].token = t

(* "Client hung up -> stop talking to the backend", gateway.ts:141: no      *)
(* request to the internal server is open for a client that is gone.  It   *)
(* may be: the close event of a client that left during signAssertion() is *)
(* over before anyone listens for it.                                      *)
HungUpStops ==
  \A r \in Requests : InPhase(r, Upstream) => requests[r].connected

-----------------------------------------------------------------------------
(* What the safety properties rest on; AuthGateway_proofs proves it.       *)

(* The assertion j says what the gateway may say of the bearer of token t. *)
States(j, t) ==
  /\ asserted[j] # NoAssertion
  /\ ClaimsOf[t].key \in Keys
  /\ asserted[j].sub = ClaimsOf[t].sub
  /\ asserted[j].scopes = KeycloakEffectiveScopes(ClaimsOf[t])

(* Assertions are about verified tokens and expire within their lifetime.  *)
AssertionsStated ==
  \A j \in Jtis : asserted[j] # NoAssertion =>
    /\ asserted[j].exp <= now + Skew + AssertionTtl
    /\ \E t \in Tokens : States(j, t)

(* A jti is remembered until its assertion is not acceptable any more.     *)
MemoryCovers ==
  \A s \in seen : asserted[s.jti] # NoAssertion /\ asserted[s.jti].exp + Tolerance <= s.forgetAt

(* What was accepted is remembered, or is too old to be accepted.          *)
AcceptedRemembered ==
  \A j \in accepted :
    /\ asserted[j] # NoAssertion
    /\ (\E s \in seen : s.jti = j) \/ asserted[j].exp + Tolerance <= now

(* A request carries the assertion about its own token, and the internal   *)
(* server has nothing of it before it is proxied.                          *)
RequestsSigned ==
  \A r \in Requests : requests[r] # NoRequest =>
    /\ ~InPhase(r, {"guard"}) => States(requests[r].jti, requests[r].token)
    /\ InPhase(r, {"guard", "signing", "sent"}) => handling[r] = NoRequest

(* In the default mode a request is served as what its assertion says.     *)
ServedIsAsserted ==
  mode = "assertion" =>
  \A p \in Senders : handling[p].phase = "served" =>
    /\ handling[p].carries \in Jtis
    /\ asserted[handling[p].carries] # NoAssertion
    /\ handling[p].servedAs = AssertedIdentity(handling[p].carries)

IInv ==
  /\ TypeOK /\ AssertionsStated /\ MemoryCovers /\ AcceptedRemembered /\ AcceptedOnce
  /\ RequestsSigned /\ ServedIsAsserted
=============================================================================
