------------------------- MODULE AuthGateway_proofs -------------------------
(***************************************************************************)
(* Proofs about AuthGateway, for every value of its constants.             *)
(***************************************************************************)
EXTENDS AuthGateway, TLAPS

(* An empty slot is neither a request, nor one being handled.              *)
LEMMA NoRequestApart == NoRequest \notin RequestType /\ NoRequest \notin HandlingType
BY DEF NoRequest, RequestType, HandlingType, Upstream

(* A slot is empty when its phase says so.                                 *)
LEMMA EmptySlot ==
  ASSUME TypeOK
  PROVE  /\ \A r \in Requests : InPhase(r, {"none"}) <=> requests[r] = NoRequest
         /\ \A r \in Requests : requests[r] # NoRequest => requests[r] \in RequestType
         /\ \A p \in Senders : handling[p].phase \in {"verifying", "served", "over"} =>
              handling[p] \in HandlingType
BY NoRequestApart DEF TypeOK, InPhase, NoRequest, RequestType, HandlingType, Upstream

(* Time passing and steps that make, accept and forget no assertion leave  *)
(* what is known of the assertions alone.                                  *)
LEMMA AssertionsUntouched ==
  ASSUME IInv, now' \in {now, now + 1},
         asserted' = asserted, seen' = seen, accepted' = accepted, replayed' = replayed
  PROVE  AssertionsStated' /\ MemoryCovers' /\ AcceptedRemembered' /\ AcceptedOnce'
<1>1. now \in Int
  BY DEF IInv, TypeOK
<1>2. \A j \in Jtis : asserted[j] # NoAssertion => asserted[j].exp \in Int
  BY DEF IInv, TypeOK, AssertionType
<1>3. AssertionsStated'
  BY <1>1, <1>2, GatewayConstants DEF IInv, AssertionsStated, States
<1>4. MemoryCovers'
  BY DEF IInv, MemoryCovers
<1>5. AcceptedRemembered'
  BY <1>1, <1>2, GatewayConstants DEF IInv, TypeOK, AcceptedRemembered
<1>6. QED
  BY <1>3, <1>4, <1>5 DEF IInv, AcceptedOnce

(* Steps that leave requests, their handling and the assertions alone.     *)
LEMMA RequestsUntouched ==
  ASSUME IInv, requests' = requests, handling' = handling, asserted' = asserted,
         mode' = mode
  PROVE  RequestsSigned' /\ ServedIsAsserted'
BY DEF IInv, RequestsSigned, States, ServedIsAsserted, AssertedIdentity, InPhase

-----------------------------------------------------------------------------
LEMMA InitIInv == Init => IInv
<1> SUFFICES ASSUME Init PROVE IInv
  OBVIOUS
<1>1. TypeOK
  BY GatewayConstants DEF Init, TypeOK
<1>2. AssertionsStated /\ MemoryCovers /\ AcceptedRemembered /\ AcceptedOnce
  BY DEF Init, AssertionsStated, MemoryCovers, AcceptedRemembered, AcceptedOnce
<1>3. RequestsSigned /\ ServedIsAsserted
  BY DEF Init, RequestsSigned, ServedIsAsserted, InPhase, Upstream, NoRequest
<1>4. QED
  BY <1>1, <1>2, <1>3 DEF IInv

LEMMA TickIInv == ASSUME IInv, Tick PROVE IInv'
<1>1. TypeOK'
  BY GatewayConstants DEF IInv, TypeOK, Tick, internalVars, historyVars, InPhase
<1>2. QED
  BY <1>1, AssertionsUntouched, RequestsUntouched DEF Tick, internalVars, historyVars, IInv

(* What one slot of a request changes to when the rest stays as it is.     *)
SlotKept(r, request) ==
  request = NoRequest
  \/ /\ request \in RequestType
     /\ request.phase # "guard" => request.jti \in Jtis /\ States(request.jti, request.token)
     /\ handling[r] # NoRequest => handling[r].carries = request.jti
     /\ request.phase \in {"guard", "signing", "sent"} => handling[r] = NoRequest

(* A step of the gateway on one request.                                   *)
LEMMA SlotStep ==
  ASSUME IInv, NEW r \in Requests, NEW request, SlotKept(r, request),
         requests' = [requests EXCEPT ![r] = request],
         UNCHANGED <<now, mode, handling, asserted, internalVars>>
  PROVE  IInv'
<1> USE DEF internalVars, historyVars
<1>1. requests'[r] = request /\ \A q \in Requests \ {r} : requests'[q] = requests[q]
  BY DEF IInv, TypeOK
<1>2. requests' \in [Requests -> RequestType \cup {NoRequest}]
  BY DEF IInv, TypeOK, SlotKept
<1>3. TypeOK'
  <2>1. ASSUME NEW q \in Requests, requests'[q] # NoRequest
        PROVE  /\ requests'[q].phase # "guard" => requests'[q].jti \in Jtis
               /\ handling[q] # NoRequest => handling[q].carries = requests'[q].jti
    BY <1>1, <2>1 DEF IInv, TypeOK, InPhase, SlotKept
  <2>2. QED
    BY <1>2, <2>1 DEF IInv, TypeOK, InPhase
<1>4. RequestsSigned'
  <2>1. ASSUME NEW q \in Requests, requests'[q] # NoRequest
        PROVE  /\ requests'[q].phase # "guard" => States(requests[q].jti, requests[q].token)'
               /\ requests'[q].phase \in {"guard", "signing", "sent"} => handling[q] = NoRequest
    BY <1>1, <2>1 DEF IInv, RequestsSigned, InPhase, SlotKept, States
  <2>2. QED
    BY <2>1 DEF RequestsSigned, InPhase
<1>5. ServedIsAsserted'
  BY DEF IInv, ServedIsAsserted, AssertedIdentity
<1>6. QED
  BY <1>3, <1>4, <1>5, AssertionsUntouched DEF IInv

LEMMA ArriveIInv ==
  ASSUME IInv, NEW r \in Requests, NEW t \in Tokens, NEW h \in {Forged, NoHeader}, Arrive(r, t, h)
  PROVE  IInv'
<1> DEFINE request == [phase |-> "guard", token |-> t, smuggled |-> h, connected |-> TRUE,
                       jti |-> NoHeader]
<1>1. request \in RequestType /\ handling[r] = NoRequest
  BY DEF RequestType, Arrive
<1>2. SlotKept(r, request)
  BY <1>1 DEF SlotKept, Upstream
<1>3. QED
  BY <1>2, SlotStep DEF Arrive

(* An answered request leaves its slot empty.                              *)
LEMMA AnsweredIInv ==
  ASSUME IInv, NEW r \in Requests, Answered(r),
         UNCHANGED <<now, mode, handling, asserted, internalVars>>
  PROVE  IInv'
BY SlotStep DEF Answered, SlotKept

LEMMA ForwardIInv == ASSUME IInv, NEW r \in Requests, Forward(r) PROVE IInv'
<1> DEFINE request == [requests[r] EXCEPT !.phase = "sent"]
<1>1. requests[r] \in RequestType /\ requests[r].phase = "signing"
  BY EmptySlot DEF IInv, Forward, InPhase, NoRequest
<1>2. /\ request \in RequestType /\ request.phase = "sent" /\ request.jti = requests[r].jti
      /\ request.token = requests[r].token /\ request.connected = requests[r].connected
  BY <1>1 DEF RequestType, Upstream
<1>3. requests[r].jti \in Jtis /\ States(requests[r].jti, requests[r].token) /\ handling[r] = NoRequest
  BY <1>1 DEF IInv, TypeOK, RequestsSigned, InPhase, NoRequest
<1>4. SlotKept(r, request)
  BY <1>2, <1>3 DEF SlotKept
<1>5. QED
  BY <1>4, SlotStep DEF Forward

LEMMA HangUpIInv == ASSUME IInv, NEW r \in Requests, HangUp(r) PROVE IInv'
<1> DEFINE request == IF requests[r].phase \in Upstream THEN NoRequest
                      ELSE [requests[r] EXCEPT !.connected = FALSE]
<1>1. requests' = [requests EXCEPT ![r] = request]
  BY DEF HangUp, Closed, IInv, TypeOK
<1>2. CASE requests[r].phase \in Upstream
  BY <1>1, <1>2, SlotStep DEF SlotKept, HangUp
<1>3. CASE requests[r].phase \notin Upstream
  <2>1. requests[r] \in RequestType /\ requests[r].phase # "none"
    BY EmptySlot DEF IInv, HangUp, InPhase
  <2>2. /\ request \in RequestType /\ request.phase = requests[r].phase
        /\ request.jti = requests[r].jti /\ request.token = requests[r].token
    BY <1>3, <2>1 DEF RequestType
  <2>3. /\ requests[r].phase # "guard" =>
             requests[r].jti \in Jtis /\ States(requests[r].jti, requests[r].token)
        /\ handling[r] # NoRequest => handling[r].carries = requests[r].jti
        /\ requests[r].phase \in {"guard", "signing", "sent"} => handling[r] = NoRequest
    BY <2>1 DEF IInv, TypeOK, RequestsSigned, InPhase, NoRequest
  <2>4. SlotKept(r, request)
    BY <1>3, <2>2, <2>3 DEF SlotKept
  <2>5. QED
    BY <1>1, <2>4, SlotStep DEF HangUp
<1>4. QED
  BY <1>2, <1>3

LEMMA RelayHeadIInv == ASSUME IInv, NEW r \in Requests, RelayHead(r) PROVE IInv'
<1> DEFINE request == [requests[r] EXCEPT !.phase = "relaying"]
<1>1. requests[r] \in RequestType /\ requests[r].phase = "received"
  BY EmptySlot DEF IInv, RelayHead, InPhase, NoRequest
<1>2. /\ request \in RequestType /\ request.phase = "relaying" /\ request.jti = requests[r].jti
      /\ request.token = requests[r].token /\ request.connected = requests[r].connected
  BY <1>1 DEF RequestType, Upstream
<1>3. /\ requests[r].jti \in Jtis /\ States(requests[r].jti, requests[r].token)
      /\ handling[r] # NoRequest => handling[r].carries = requests[r].jti
  BY <1>1 DEF IInv, TypeOK, RequestsSigned, InPhase, NoRequest, Upstream
<1>4. SlotKept(r, request)
  BY <1>2, <1>3 DEF SlotKept, RelayHead
<1>5. QED
  BY <1>4, SlotStep DEF RelayHead

-----------------------------------------------------------------------------
(* KeycloakEffectiveScopes() gives no scope the token has not.             *)
LEMMA EffectiveWithin ==
  ASSUME NEW t \in Tokens
  PROVE  KeycloakEffectiveScopes(ClaimsOf[t]) \in SUBSET Scopes
BY DEF KeycloakEffectiveScopes, TokenScopes, Scopes

LEMMA SignIInv == ASSUME IInv, NEW r \in Requests, Sign(r) PROVE IInv'
<1>0. PICK t \in Tokens : t = requests[r].token
  BY EmptySlot DEF IInv, Sign, InPhase, RequestType, NoRequest
<1>1. PICK j \in Jtis :
        /\ asserted[j] = NoAssertion
        /\ asserted' = [asserted EXCEPT ![j] = Identity(t)]
        /\ requests' = [requests EXCEPT ![r].phase = "signing", ![r].jti = j]
  BY <1>0 DEF Sign
<1> DEFINE request == [requests[r] EXCEPT !.phase = "signing", !.jti = j]
<1>2. /\ requests[r] \in RequestType /\ requests[r].phase = "guard"
      /\ handling[r] = NoRequest
  BY EmptySlot DEF IInv, Sign, InPhase, RequestsSigned, NoRequest
<1>3. /\ request \in RequestType /\ request.phase = "signing" /\ request.jti = j
      /\ request.token = t
  BY <1>0, <1>2 DEF RequestType
<1>4. /\ requests' \in [Requests -> RequestType \cup {NoRequest}]
      /\ requests'[r] = request /\ \A q \in Requests \ {r} : requests'[q] = requests[q]
  BY <1>1, <1>3 DEF IInv, TypeOK
<1>5. now \in Int /\ Skew \in Int /\ AssertionTtl \in Int
  BY GatewayConstants DEF IInv, TypeOK
<1>6. Identity(t) \in AssertionType /\ Identity(t).exp = now + Skew + AssertionTtl
  BY <1>5, EffectiveWithin DEF Identity, AssertionType, Subjects
<1>7. Identity(t) # NoAssertion
  BY <1>6 DEF AssertionType, NoAssertion
<1>8. asserted' \in [Jtis -> AssertionType \cup {NoAssertion}]
  BY <1>1, <1>6 DEF IInv, TypeOK
<1>9. asserted'[j] = Identity(t) /\ \A i \in Jtis \ {j} : asserted'[i] = asserted[i]
  BY <1>1 DEF IInv, TypeOK
<1>10. ClaimsOf[t].key \in Keys
  BY <1>0 DEF Sign, Verdict, JwtVerdict, JwtVerified
<1>11. States(j, t)'
  BY <1>7, <1>9, <1>10 DEF States, Identity
<1>12. \A i \in Jtis : asserted[i] # NoAssertion => i # j /\ asserted'[i] = asserted[i]
  BY <1>1, <1>9
<1>13. \A i \in Jtis, u \in Tokens : States(i, u) => States(i, u)'
  BY <1>12 DEF States
<1>14. TypeOK'
  <2>1. ASSUME NEW q \in Requests, requests'[q] # NoRequest
        PROVE  /\ requests'[q].phase # "guard" => requests'[q].jti \in Jtis
               /\ handling[q] # NoRequest => handling[q].carries = requests'[q].jti
    BY <1>2, <1>3, <1>4, <2>1 DEF IInv, TypeOK, InPhase
  <2>2. QED
    BY <1>4, <1>8, <2>1 DEF IInv, TypeOK, Sign, InPhase, internalVars, historyVars
<1>15. AssertionsStated'
  <2>1. ASSUME NEW i \in Jtis, asserted'[i] # NoAssertion
        PROVE  /\ asserted'[i].exp <= now + Skew + AssertionTtl
               /\ \E u \in Tokens : States(i, u)'
    <3>1. CASE i = j
      BY <1>5, <1>6, <1>9, <1>11, <3>1
    <3>2. CASE i # j
      BY <1>9, <1>13, <2>1, <3>2 DEF IInv, AssertionsStated
    <3>3. QED
      BY <3>1, <3>2
  <2>2. QED
    BY <2>1 DEF AssertionsStated, Sign
<1>16. MemoryCovers' /\ AcceptedRemembered' /\ AcceptedOnce'
  <2>1. \A s \in seen : s.jti \in Jtis
    BY DEF IInv, TypeOK
  <2>2. MemoryCovers'
    BY <1>12, <2>1 DEF IInv, MemoryCovers, Sign, internalVars
  <2>3. AcceptedRemembered'
    BY <1>12 DEF IInv, TypeOK, AcceptedRemembered, Sign, internalVars, historyVars
  <2>4. QED
    BY <2>2, <2>3 DEF IInv, AcceptedOnce, Sign, internalVars, historyVars
<1>17. RequestsSigned'
  <2>1. ASSUME NEW q \in Requests, requests'[q] # NoRequest
        PROVE  /\ requests'[q].phase # "guard" => States(requests[q].jti, requests[q].token)'
               /\ requests'[q].phase \in {"guard", "signing", "sent"} => handling[q] = NoRequest
    <3>1. CASE q = r
      BY <1>2, <1>3, <1>4, <1>11, <3>1 DEF States
    <3>2. CASE q # r
      <4>1. requests'[q] = requests[q] /\ requests[q] # NoRequest
        BY <1>4, <2>1, <3>2
      <4>2. requests[q].phase # "guard" =>
              requests[q].jti \in Jtis /\ States(requests[q].jti, requests[q].token)
        BY <4>1 DEF IInv, TypeOK, RequestsSigned, InPhase
      <4>3. requests[q].phase # "guard" => States(requests[q].jti, requests[q].token)'
        BY <1>12, <4>1, <4>2 DEF States
      <4>4. requests[q].phase \in {"guard", "signing", "sent"} => handling[q] = NoRequest
        BY <4>1 DEF IInv, RequestsSigned, InPhase
      <4>5. QED
        BY <4>1, <4>3, <4>4
    <3>3. QED
      BY <3>1, <3>2
  <2>2. handling' = handling
    BY DEF Sign
  <2>3. QED
    BY <2>1, <2>2 DEF RequestsSigned, InPhase
<1>18. ServedIsAsserted'
  BY <1>12 DEF IInv, ServedIsAsserted, AssertedIdentity, Sign
<1>19. QED
  BY <1>14, <1>15, <1>16, <1>17, <1>18 DEF IInv

-----------------------------------------------------------------------------
(* What the internal server may make of a slot when the gateway stands     *)
(* still.                                                                  *)
HandlingKept(p, h) ==
  h = NoRequest
  \/ /\ h \in HandlingType
     /\ p \in Requests /\ requests[p] # NoRequest =>
          h.carries = requests[p].jti /\ handling[p] # NoRequest
     /\ mode = "assertion" /\ h.phase = "served" =>
          /\ h.carries \in Jtis /\ asserted[h.carries] # NoAssertion
          /\ h.servedAs = AssertedIdentity(h.carries)

LEMMA HandlingStep ==
  ASSUME IInv, NEW p \in Senders, NEW h, HandlingKept(p, h),
         handling' = [handling EXCEPT ![p] = h],
         UNCHANGED <<now, mode, requests, asserted>>,
         seen' \subseteq [jti : Jtis, forgetAt : Nat],
         accepted' \subseteq Jtis, replayed' \subseteq accepted'
  PROVE  TypeOK' /\ RequestsSigned' /\ ServedIsAsserted'
<1>1. handling'[p] = h /\ \A q \in Senders \ {p} : handling'[q] = handling[q]
  BY DEF IInv, TypeOK
<1>2. handling' \in [Senders -> HandlingType \cup {NoRequest}]
  BY DEF IInv, TypeOK, HandlingKept
<1>3. Requests \subseteq Senders
  BY DEF Senders
<1>4. ASSUME NEW r \in Requests, requests[r] # NoRequest
      PROVE  handling'[r] # NoRequest =>
               handling'[r].carries = requests[r].jti /\ handling[r] # NoRequest
  BY <1>1, <1>3, <1>4 DEF IInv, TypeOK, HandlingKept
<1>5. TypeOK'
  BY <1>2, <1>4 DEF IInv, TypeOK, InPhase
<1>6. RequestsSigned'
  BY <1>4 DEF IInv, RequestsSigned, InPhase, States
<1>7. ServedIsAsserted'
  BY <1>1 DEF IInv, ServedIsAsserted, AssertedIdentity, HandlingKept, NoRequest
<1>8. QED
  BY <1>5, <1>6, <1>7

(* What a slot that is not empty holds.                                    *)
LEMMA Handling ==
  ASSUME IInv, NEW p \in Senders, handling[p] # NoRequest
  PROVE  /\ handling[p] \in HandlingType
         /\ p \in Requests /\ requests[p] # NoRequest => handling[p].carries = requests[p].jti
BY DEF IInv, TypeOK

(* What is received is nobody's yet.                                       *)
LEMMA HandledType ==
  ASSUME NEW header \in Headers, NEW user \in {NoHeader, "alice"}
  PROVE  /\ Handled(header, user) \in HandlingType
         /\ Handled(header, user).carries = header
         /\ Handled(header, user).phase = "verifying"
BY DEF Handled, HandlingType, Nobody, Identities

LEMMA ReceiveIInv == ASSUME IInv, NEW r \in Requests, Receive(r) PROVE IInv'
<1> DEFINE request == [requests[r] EXCEPT !.phase = "received"]
           h == Handled(requests[r].jti, NoHeader)
<1>1. requests[r] \in RequestType /\ requests[r] # NoRequest /\ requests[r].phase = "sent"
  BY EmptySlot DEF IInv, Receive, InPhase, NoRequest
<1>2. /\ request \in RequestType /\ request.phase = "received" /\ request.jti = requests[r].jti
      /\ request.token = requests[r].token /\ request.connected = requests[r].connected
  BY <1>1 DEF RequestType, Upstream
<1>3. /\ requests[r].jti \in Jtis /\ States(requests[r].jti, requests[r].token)
  BY <1>1 DEF IInv, TypeOK, RequestsSigned, InPhase, Upstream
<1>4. h \in HandlingType /\ h.carries = requests[r].jti /\ h.phase = "verifying"
  BY <1>3, HandledType DEF Headers
<1>5. /\ requests'[r] = request /\ \A q \in Requests \ {r} : requests'[q] = requests[q]
      /\ requests' \in [Requests -> RequestType \cup {NoRequest}]
  BY <1>2 DEF IInv, TypeOK, Receive
<1>6. /\ handling'[r] = h /\ \A q \in Senders \ {r} : handling'[q] = handling[q]
      /\ handling' \in [Senders -> HandlingType \cup {NoRequest}]
  BY <1>4 DEF IInv, TypeOK, Receive, AssertionHeader, Senders
<1>7. Requests \subseteq Senders
  BY DEF Senders
<1>8. TypeOK'
  <2>1. ASSUME NEW q \in Requests, requests'[q] # NoRequest
        PROVE  /\ requests'[q].phase # "guard" => requests'[q].jti \in Jtis
               /\ handling'[q] # NoRequest => handling'[q].carries = requests'[q].jti
    <3>1. CASE q = r
      BY <1>2, <1>3, <1>4, <1>5, <1>6, <3>1
    <3>2. CASE q # r
      BY <1>5, <1>6, <1>7, <2>1, <3>2 DEF IInv, TypeOK, InPhase
    <3>3. QED
      BY <3>1, <3>2
  <2>2. QED
    BY <1>5, <1>6, <2>1 DEF IInv, TypeOK, Receive, InPhase, internalVars, historyVars
<1>9. RequestsSigned'
  <2>1. asserted' = asserted
    BY DEF Receive
  <2>2. ASSUME NEW q \in Requests, requests'[q] # NoRequest
        PROVE  /\ requests'[q].phase # "guard" => States(requests[q].jti, requests[q].token)
               /\ requests'[q].jti = requests[q].jti /\ requests'[q].token = requests[q].token
               /\ requests'[q].phase \in {"guard", "signing", "sent"} => handling'[q] = NoRequest
    <3>1. CASE q = r
      BY <1>2, <1>3, <1>5, <3>1
    <3>2. CASE q # r
      BY <1>5, <1>6, <1>7, <2>2, <3>2 DEF IInv, RequestsSigned, InPhase
    <3>3. QED
      BY <3>1, <3>2
  <2>3. QED
    BY <2>1, <2>2 DEF RequestsSigned, InPhase, States
<1>10. ServedIsAsserted'
  BY <1>4, <1>6 DEF IInv, ServedIsAsserted, AssertedIdentity, Receive
<1>11. QED
  BY <1>8, <1>9, <1>10, AssertionsUntouched DEF IInv, Receive, internalVars, historyVars

LEMMA SendCopyIInv ==
  ASSUME IInv, NEW c \in Copies, NEW header \in Headers, NEW user \in {NoHeader, "alice"},
         SendCopy(c, header, user)
  PROVE  IInv'
<1>1. c \in Senders /\ c \notin Requests
  BY GatewayConstants DEF Senders
<1>2. HandlingKept(c, Handled(header, user))
  BY <1>1, HandledType DEF HandlingKept
<1>3. QED
  BY <1>1, <1>2, HandlingStep, AssertionsUntouched
  DEF SendCopy, internalVars, historyVars, IInv, TypeOK

(* A handling that is over is as good as it was.                            *)
LEMMA OverKept ==
  ASSUME IInv, NEW p \in Senders, handling[p] # NoRequest
  PROVE  HandlingKept(p, [handling[p] EXCEPT !.phase = "over"])
<1> DEFINE h == [handling[p] EXCEPT !.phase = "over"]
<1>1. handling[p] \in HandlingType
  BY Handling
<1>2. h \in HandlingType /\ h.phase = "over" /\ h.carries = handling[p].carries
  BY <1>1 DEF HandlingType
<1>3. QED
  BY <1>2, Handling DEF HandlingKept

LEMMA FinishIInv == ASSUME IInv, NEW p \in Senders, Finish(p) PROVE IInv'
<1>1. handling[p] # NoRequest
  BY DEF Finish, NoRequest
<1>2. QED
  BY <1>1, OverKept, HandlingStep, AssertionsUntouched
  DEF Finish, internalVars, historyVars, IInv, TypeOK

LEMMA VanishIInv == ASSUME IInv, NEW p \in Senders, Vanish(p) PROVE IInv'
BY HandlingStep, AssertionsUntouched
DEF Vanish, HandlingKept, internalVars, historyVars, IInv, TypeOK

LEMMA TrustForwardedHeadersIInv ==
  ASSUME IInv, NEW p \in Senders, TrustForwardedHeaders(p) PROVE IInv'
<1> DEFINE user == handling[p].user
           h == [handling[p] EXCEPT !.phase = "served", !.servedAs = ForwardedIdentity(user)]
<1>1. handling[p] # NoRequest /\ mode = "network"
  BY DEF TrustForwardedHeaders, Verifying, NoRequest
<1>2. handling[p] \in HandlingType
  BY <1>1, Handling
<1>3. ForwardedIdentity(user) \in Identities
  <2>1. user \in {NoHeader, "alice"}
    BY <1>2 DEF HandlingType
  <2>2. SCOPE_TOOLS \in Scopes /\ SCOPE_ADMIN \in Scopes
    BY DEF Scopes
  <2>3. QED
    BY <2>1, <2>2 DEF ForwardedIdentity, Identities
<1>4. h \in HandlingType /\ h.carries = handling[p].carries
  BY <1>2, <1>3 DEF HandlingType
<1>5. HandlingKept(p, h)
  BY <1>1, <1>4, Handling DEF HandlingKept
<1>6. PICK kept : HandlingKept(p, kept) /\ handling' = [handling EXCEPT ![p] = kept]
  <2>1. CASE user = NoHeader
    BY <1>1, <2>1, OverKept DEF TrustForwardedHeaders, Unauthorized
  <2>2. CASE user # NoHeader
    <3>1. handling' = [handling EXCEPT ![p] = h]
      BY <2>2 DEF TrustForwardedHeaders, Serve
    <3>2. QED
      BY <1>5, <3>1
  <2>3. QED
    BY <2>1, <2>2
<1>7. QED
  BY <1>6, HandlingStep, AssertionsUntouched
  DEF TrustForwardedHeaders, internalVars, historyVars, IInv, TypeOK

(* The memory keeps what it says of assertions when the expired goes.      *)
LEMMA ForgettingCovers ==
  ASSUME IInv, NEW header \in Jtis, AssertionVerified(header)
  PROVE  header \in accepted => Replayed(header)
<1>1. now \in Int /\ asserted[header].exp \in Int /\ Tolerance \in Int
  BY GatewayConstants DEF IInv, TypeOK, AssertionVerified, AssertionType
<1>2. \A s \in seen : s.forgetAt \in Int /\ s.jti \in Jtis
  BY DEF IInv, TypeOK
<1>3. QED
  BY <1>1, <1>2
  DEF IInv, AcceptedRemembered, MemoryCovers, AssertionVerified, Replayed, Remembered

LEMMA TrustGatewayAssertionIInv ==
  ASSUME IInv, NEW p \in Senders, TrustGatewayAssertion(p) PROVE IInv'
<1> DEFINE header == handling[p].carries
           h == [handling[p] EXCEPT !.phase = "served", !.servedAs = AssertedIdentity(header)]
<1>1. handling[p] # NoRequest /\ mode = "assertion"
  BY DEF TrustGatewayAssertion, Verifying, NoRequest
<1>2. handling[p] \in HandlingType
  BY <1>1, Handling
<1>3. UNCHANGED <<now, mode, requests, asserted>>
  BY DEF TrustGatewayAssertion
<1>4. /\ now \in Nat /\ ReplayWindow \in Nat /\ Tolerance \in Int /\ Skew \in Int
      /\ AssertionTtl \in Int
  BY GatewayConstants DEF IInv, TypeOK
<1>5. /\ \A s \in seen : s.jti \in Jtis /\ s.forgetAt \in Int
      /\ \A j \in Jtis : asserted[j] # NoAssertion => asserted[j].exp \in Int
      /\ accepted \subseteq Jtis
  BY DEF IInv, TypeOK, AssertionType
<1>6. AssertionsStated'
  BY <1>3 DEF IInv, AssertionsStated, States
<1>7. Remembered \subseteq seen /\ \A s \in seen \ Remembered : s.forgetAt <= now
  BY <1>4, <1>5 DEF Remembered
<1>8. CASE Trusts(header) /\ RecordTrusted(header) /\ Serve(p, AssertedIdentity(header))
  <2>1. header \in Jtis /\ asserted[header] # NoAssertion /\ asserted[header] \in AssertionType
    BY <1>8 DEF Trusts, AssertionVerified, IInv, TypeOK
  <2>2. header \notin accepted
    BY <1>8, <2>1, ForgettingCovers DEF Trusts
  <2>3. AssertedIdentity(header) \in Identities
    BY <2>1 DEF AssertedIdentity, AssertionType, Identities
  <2>4. /\ h \in HandlingType /\ h.carries = header
        /\ h.servedAs = AssertedIdentity(header)
    BY <1>2, <2>3 DEF HandlingType
  <2>5. HandlingKept(p, h)
    BY <1>1, <2>1, <2>4, Handling DEF HandlingKept
  <2>6. handling' = [handling EXCEPT ![p] = h]
    BY <1>8 DEF Serve
  <2>7. /\ seen' = Remembered \cup {[jti |-> header, forgetAt |-> now + ReplayWindow]}
        /\ accepted' = accepted \cup {header} /\ replayed' = replayed
    BY <1>8, <2>2 DEF RecordTrusted, ForgetAt
  <2>8. seen' \subseteq [jti : Jtis, forgetAt : Nat] /\ replayed' \subseteq accepted'
    BY <1>4, <1>7, <2>1, <2>7 DEF IInv, TypeOK
  <2>9. asserted[header].exp + Tolerance <= now + ReplayWindow
    BY <1>4, <1>5, <2>1, WindowCovers DEF IInv, AssertionsStated
  <2>10. MemoryCovers'
    BY <1>3, <1>7, <2>1, <2>7, <2>9 DEF IInv, MemoryCovers
  <2>11. AcceptedRemembered'
    <3>1. ASSUME NEW j \in accepted'
          PROVE  /\ asserted[j] # NoAssertion
                 /\ (\E s \in seen' : s.jti = j) \/ asserted[j].exp + Tolerance <= now
      <4>1. CASE j = header
        <5>1. [jti |-> header, forgetAt |-> now + ReplayWindow].jti = header
          OBVIOUS
        <5>2. QED
          BY <2>1, <2>7, <4>1, <5>1
      <4>2. CASE j # header
        <5>1. j \in accepted /\ asserted[j] # NoAssertion /\ asserted[j].exp \in Int
          BY <1>5, <2>7, <3>1, <4>2 DEF IInv, AcceptedRemembered
        <5>2. CASE \E s \in Remembered : s.jti = j
          BY <2>7, <5>1, <5>2
        <5>3. ASSUME NEW s \in seen \ Remembered, s.jti = j
              PROVE  asserted[j].exp + Tolerance <= now
          BY <1>4, <1>5, <1>7, <5>1, <5>3 DEF IInv, MemoryCovers
        <5>4. QED
          BY <5>1, <5>2, <5>3 DEF IInv, AcceptedRemembered
      <4>3. QED
        BY <4>1, <4>2
    <3>2. QED
      BY <1>3, <3>1 DEF AcceptedRemembered
  <2>12. accepted' \subseteq Jtis /\ AcceptedOnce'
    BY <1>5, <2>1, <2>7 DEF IInv, AcceptedOnce
  <2>13. QED
    BY <1>3, <1>6, <2>5, <2>6, <2>8, <2>10, <2>11, <2>12, HandlingStep DEF IInv
<1>9. CASE ~Trusts(header) /\ RecordRefused(header) /\ Unauthorized(p)
  <2>1. seen' \in {seen, Remembered} /\ accepted' = accepted /\ replayed' = replayed
    BY <1>9 DEF RecordRefused, historyVars
  <2>2. seen' \subseteq seen /\ \A s \in seen \ seen' : s.forgetAt <= now
    BY <1>7, <2>1
  <2>3. MemoryCovers'
    BY <1>3, <2>2 DEF IInv, MemoryCovers
  <2>4. AcceptedRemembered'
    <3>1. ASSUME NEW j \in accepted
          PROVE  (\E s \in seen' : s.jti = j) \/ asserted[j].exp + Tolerance <= now
      <4>1. asserted[j] # NoAssertion /\ asserted[j].exp \in Int
        BY <1>5 DEF IInv, AcceptedRemembered
      <4>2. ASSUME NEW s \in seen \ seen', s.jti = j
            PROVE  asserted[j].exp + Tolerance <= now
        BY <1>4, <1>5, <2>2, <4>1, <4>2 DEF IInv, MemoryCovers
      <4>3. QED
        BY <4>2 DEF IInv, AcceptedRemembered
    <3>2. QED
      BY <1>3, <2>1, <3>1 DEF IInv, AcceptedRemembered
  <2>5. seen' \subseteq [jti : Jtis, forgetAt : Nat] /\ accepted' \subseteq Jtis
        /\ replayed' \subseteq accepted' /\ AcceptedOnce'
    BY <2>1, <2>2 DEF IInv, TypeOK, AcceptedOnce
  <2>6. QED
    BY <1>1, <1>3, <1>6, <1>9, <2>3, <2>4, <2>5, OverKept, HandlingStep
    DEF IInv, Unauthorized
<1>10. QED
  BY <1>8, <1>9 DEF TrustGatewayAssertion

LEMMA RestartInternalIInv == ASSUME IInv, RestartInternal PROVE IInv'
<1>1. TypeOK'
  BY DEF IInv, TypeOK, RestartInternal, InPhase, Senders
<1>2. AssertionsStated' /\ MemoryCovers' /\ AcceptedRemembered' /\ AcceptedOnce'
  BY DEF IInv, RestartInternal, AssertionsStated, States, MemoryCovers, AcceptedRemembered,
         AcceptedOnce
<1>3. RequestsSigned'
  BY DEF IInv, RestartInternal, RequestsSigned, States, InPhase, Senders
<1>4. ServedIsAsserted'
  BY DEF RestartInternal, ServedIsAsserted, NoRequest
<1>5. QED
  BY <1>1, <1>2, <1>3, <1>4 DEF IInv

-----------------------------------------------------------------------------
LEMMA NextIInv == ASSUME IInv, [Next]_vars PROVE IInv'
<1>1. CASE Tick
  BY <1>1, TickIInv
<1>2. CASE \E r \in Requests, t \in Tokens, h \in {Forged, NoHeader} : Arrive(r, t, h)
  BY <1>2, ArriveIInv
<1>3. CASE \E r \in Requests, known \in BOOLEAN : GuardRefuses(r, known)
  BY <1>3, AnsweredIInv DEF GuardRefuses
<1>4. CASE \E r \in Requests : Sign(r)
  BY <1>4, SignIInv
<1>5. CASE \E r \in Requests : Forward(r)
  BY <1>5, ForwardIInv
<1>6. CASE \E r \in Requests : HangUp(r)
  BY <1>6, HangUpIInv
<1>7. CASE \E r \in Requests : Receive(r)
  BY <1>7, ReceiveIInv
<1>8. CASE \E c \in Copies, h \in Headers, u \in {NoHeader, "alice"} : SendCopy(c, h, u)
  BY <1>8, SendCopyIInv
<1>9. CASE \E p \in Senders : TrustGatewayAssertion(p)
  BY <1>9, TrustGatewayAssertionIInv
<1>10. CASE \E p \in Senders : TrustForwardedHeaders(p)
  BY <1>10, TrustForwardedHeadersIInv
<1>11. CASE \E p \in Senders : Finish(p)
  BY <1>11, FinishIInv
<1>12. CASE \E p \in Senders : Vanish(p)
  BY <1>12, VanishIInv
<1>13. CASE \E r \in Requests : RelayHead(r)
  BY <1>13, RelayHeadIInv
<1>14. CASE \E r \in Requests : RelayEnd(r)
  BY <1>14, AnsweredIInv DEF RelayEnd
<1>15. CASE \E r \in Requests : UpstreamError(r)
  BY <1>15, AnsweredIInv DEF UpstreamError
<1>16. CASE RestartInternal
  BY <1>16, RestartInternalIInv
<1>17. CASE UNCHANGED vars
  <2>1. TypeOK'
    BY <1>17 DEF vars, internalVars, historyVars, IInv, TypeOK, InPhase
  <2>2. QED
    BY <1>17, <2>1, AssertionsUntouched, RequestsUntouched
    DEF vars, internalVars, historyVars, IInv
<1>18. QED
  BY <1>1, <1>2, <1>3, <1>4, <1>5, <1>6, <1>7, <1>8, <1>9, <1>10, <1>11, <1>12, <1>13, <1>14,
     <1>15, <1>16, <1>17
  DEF Next

(* The inductive invariant of the gateway and the internal server.         *)
THEOREM GatewayInvariant == Spec => []IInv
<1>1. QED
  BY InitIInv, NextIInv, PTL DEF Spec

(* The records of requests, assertions and memories keep their types, and  *)
(* what the internal server handles for the gateway carries the assertion  *)
(* signed for that request.                                                *)
THEOREM TypeCorrect == Spec => []TypeOK
<1>1. IInv => TypeOK
  BY DEF IInv
<1>2. QED
  BY <1>1, GatewayInvariant, PTL

(* An assertion is accepted once between restarts of the internal server,  *)
(* whatever the skew, when the replay window covers its lifetime, the      *)
(* tolerance and the skew.                                                 *)
THEOREM AssertionsAreGoodOnce == Spec => []AcceptedOnce
<1>1. IInv => AcceptedOnce
  BY DEF IInv
<1>2. QED
  BY <1>1, GatewayInvariant, PTL

(* In the default mode everything is served as the subject of a verified   *)
(* token, with its effective scopes, a proxied request as its own caller.  *)
THEOREM ServedAsCaller == Spec => []ServedAsVerified
<1>1. ASSUME IInv PROVE ServedAsVerified
  <2> SUFFICES ASSUME mode = "assertion", NEW p \in Senders, handling[p].phase = "served"
               PROVE  \E t \in Tokens :
                        /\ handling[p].servedAs =
                             [sub |-> ClaimsOf[t].sub,
                              scopes |-> KeycloakEffectiveScopes(ClaimsOf[t])]
                        /\ ClaimsOf[t].key \in Keys
                        /\ p \in Requests /\ ~InPhase(p, {"none"}) => requests[p].token = t
    BY DEF ServedAsVerified
  <2> DEFINE j == handling[p].carries
  <2>1. handling[p] # NoRequest
    BY DEF NoRequest
  <2>2. j \in Jtis /\ asserted[j] # NoAssertion /\ handling[p].servedAs = AssertedIdentity(j)
    BY <1>1 DEF IInv, ServedIsAsserted
  <2>3. CASE p \in Requests /\ ~InPhase(p, {"none"})
    <3>1. requests[p] \in RequestType /\ requests[p] # NoRequest
      BY <1>1, <2>3, EmptySlot DEF IInv
    <3>2. requests[p].token \in Tokens /\ j = requests[p].jti /\ ~InPhase(p, {"guard"})
      BY <1>1, <2>1, <2>3, <3>1 DEF IInv, TypeOK, RequestsSigned, RequestType, InPhase
    <3>3. States(j, requests[p].token)
      BY <1>1, <2>3, <3>1, <3>2 DEF IInv, RequestsSigned
    <3>4. QED
      BY <2>2, <3>2, <3>3 DEF States, AssertedIdentity
  <2>4. CASE ~(p \in Requests /\ ~InPhase(p, {"none"}))
    BY <1>1, <2>2, <2>4 DEF IInv, AssertionsStated, States, AssertedIdentity
  <2>5. QED
    BY <2>3, <2>4
<1>2. QED
  BY <1>1, GatewayInvariant, PTL
=============================================================================
