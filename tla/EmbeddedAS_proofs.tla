-------------------------- MODULE EmbeddedAS_proofs --------------------------
(***************************************************************************)
(* Proofs about EmbeddedAS, for every value of its constants.              *)
(***************************************************************************)
EXTENDS EmbeddedAS, TLAPS

(* NowSec is a natural number.                                             *)
LEMMA NowSecNat == ASSUME now \in Nat PROVE NowSec \in Nat
BY ConstantsOK DEF NowSec

(* The records issueTokens adds have the types of their maps.              *)
LEMMA IssueTokensType ==
  ASSUME TypeOK, NEW n \in Pairs, NEW client \in Clients,
         NEW scopes \in SUBSET SCOPES_SUPPORTED, NEW sub \in Users,
         NEW resource \in {None, Resource}, NEW family \in Pairs,
         NEW access \in SUBSET AccessType, NEW refresh \in SUBSET RefreshType,
         NEW source \in Codes \cup Pairs,
         NEW by \in TokenRequests \cup RefreshRequests,
         IssueTokens(n, [client |-> client, scopes |-> scopes, sub |-> sub,
                         resource |-> resource, family |-> family],
                     access, refresh, source, by)
  PROVE  /\ accessTokens' \subseteq AccessType
         /\ refreshTokens' \subseteq RefreshType
         /\ drawn' \subseteq Txns \cup Codes \cup Pairs
         /\ issued' \subseteq IssueType
<1> DEFINE g == [client |-> client, scopes |-> scopes, sub |-> sub,
                 resource |-> resource, family |-> family]
<1>1. NowSec + AccessTtl \in Nat /\ NowSec + RefreshTtl \in Nat /\ now \in Nat
  BY NowSecNat, ConstantsOK DEF TypeOK
<1>2. AccessRecord(n, g) \in AccessType
  BY <1>1 DEF AccessRecord, AccessType
<1>3. RefreshRecord(n, g) \in RefreshType
  BY <1>1 DEF RefreshRecord, RefreshType
<1>4. [id |-> n, family |-> family, source |-> source, scopes |-> scopes,
       by |-> by, at |-> now] \in IssueType
  BY <1>1 DEF IssueType
<1>5. QED
  BY <1>2, <1>3, <1>4 DEF IssueTokens, TypeOK

(* What is left of the maps after a prune.                                 *)
LEMMA LiveSubsets ==
  /\ LiveTxns \subseteq txns /\ LiveCodes \subseteq codes /\ LiveUsed \subseteq usedCodes
  /\ LiveAccess \subseteq accessTokens /\ LiveRefresh \subseteq refreshTokens
BY DEF LiveTxns, LiveCodes, LiveUsed, LiveAccess, LiveRefresh

(* The first half of a code request keeps the types.                       *)
LEMMA PresentCodeType ==
  ASSUME TypeOK, NEW r \in Requests, NEW code \in Codes, NEW q \in TokenRequests,
         PresentCode(r, code, q)
  PROVE  TypeOK'
<1>1. accessTokens' \subseteq AccessType /\ refreshTokens' \subseteq RefreshType
  BY LiveSubsets DEF PresentCode, ChallengeReused, ChallengeUnknown, ChallengeFound,
     Without, TypeOK
<1>2. inflight' \in [Requests -> InflightType \cup {Idle}]
  <2>1. CASE UNCHANGED inflight
    BY <2>1 DEF TypeOK
  <2>2. CASE ChallengeFound(r, code, q)
    <3>1. PICK record \in LiveCodes : inflight' = [inflight EXCEPT ![r] =
            [code |-> code, challenge |-> record.challenge, request |-> q]]
      BY <2>2 DEF ChallengeFound
    <3>2. [code |-> code, challenge |-> record.challenge, request |-> q] \in InflightType
      BY LiveSubsets DEF InflightType, TypeOK, CodeType
    <3>3. QED
      BY <3>1, <3>2 DEF TypeOK
  <2>3. QED
    BY <2>1, <2>2 DEF PresentCode, ChallengeReused, ChallengeUnknown
<1>3. ended' \subseteq Pairs /\ reused' \subseteq Codes
  BY LiveSubsets DEF PresentCode, ChallengeReused, ChallengeUnknown, ChallengeFound,
     TypeOK, UsedType
<1>4. QED
  BY <1>1, <1>2, <1>3, LiveSubsets DEF PresentCode, TypeOK

(* The second half of a code request keeps the types.                      *)
LEMMA ExchangeCodeType ==
  ASSUME TypeOK, NEW r \in Requests, ExchangeCode(r)
  PROVE  TypeOK'
<1> DEFINE code == inflight[r].code
           q    == inflight[r].request
<1>1. code \in Codes /\ q \in TokenRequests
  BY DEF ExchangeCode, TypeOK, InflightType
<1>2. inflight' \in [Requests -> InflightType \cup {Idle}]
  BY DEF ExchangeCode, TypeOK
<1>3. CASE ExchangeGone(code) \/ ExchangeRefused(code, q)
  BY <1>1, <1>2, <1>3 DEF ExchangeGone, ExchangeRefused, ExchangeCode, TypeOK, tokens
<1>4. CASE ExchangeSucceeds(code, q)
  <2>1. PICK record \in ExchangeableCodes(code), n \in Pairs \ drawn :
          /\ codes' = codes \ {record}
          /\ usedCodes' = usedCodes \cup
               {[code |-> code, family |-> n, expiresAt |-> now + UsedCodeMemory]}
          /\ IssueTokens(n, [client |-> record.client, scopes |-> record.scopes,
                             sub |-> record.sub, resource |-> record.resource,
                             family |-> n],
                         accessTokens, refreshTokens, code, q)
    BY <1>4 DEF ExchangeSucceeds
  <2>2. record \in CodeType
    BY DEF ExchangeableCodes, TypeOK
  <2>3. /\ accessTokens' \subseteq AccessType /\ refreshTokens' \subseteq RefreshType
        /\ drawn' \subseteq Txns \cup Codes \cup Pairs
        /\ issued' \subseteq IssueType
    <3>1. /\ record.client \in Clients /\ record.scopes \in SUBSET SCOPES_SUPPORTED
          /\ record.sub \in Users /\ record.resource \in {None, Resource}
      BY <2>2 DEF CodeType
    <3>2. accessTokens \in SUBSET AccessType /\ refreshTokens \in SUBSET RefreshType
      BY DEF TypeOK
    <3>3. QED
      BY <1>1, <2>1, <3>1, <3>2, IssueTokensType
  <2>4. usedCodes' \subseteq UsedType
    BY <1>1, <2>1, ConstantsOK DEF TypeOK, UsedType
  <2>5. QED
    BY <1>2, <1>4, <2>1, <2>3, <2>4 DEF ExchangeCode, ExchangeSucceeds, TypeOK
<1>5. QED
  BY <1>3, <1>4 DEF ExchangeCode

(* A refresh request keeps the types.                                      *)
LEMMA RefreshTokenType ==
  ASSUME TypeOK, NEW t \in Pairs, NEW q \in RefreshRequests, RefreshToken(t, q)
  PROVE  TypeOK'
<1>1. CASE RefreshRefused(t, q)
  BY <1>1, LiveSubsets DEF RefreshRefused, RefreshToken, TypeOK
<1>2. CASE RefreshReplayed(t)
  <2>1. PICK record \in LiveRefresh :
          /\ accessTokens'  = Without(LiveAccess, record.family)
          /\ refreshTokens' = Without(LiveRefresh, record.family)
          /\ ended' = ended \cup {record.family}
          /\ UNCHANGED <<drawn, issued>>
    BY <1>2 DEF RefreshReplayed
  <2>2. record.family \in Pairs
    BY LiveSubsets DEF TypeOK, RefreshType
  <2>3. QED
    BY <2>1, <2>2, LiveSubsets DEF RefreshToken, Without, TypeOK
<1>3. CASE RefreshSucceeds(t, q)
  <2>1. PICK record \in LiveRefresh, n \in Pairs \ drawn :
          /\ RefreshAccepts(record, q)
          /\ IssueTokens(n, [client |-> record.client,
                             scopes |-> NarrowedScopes(record, q),
                             sub |-> record.sub, resource |-> record.resource,
                             family |-> record.family],
                         LiveAccess, (LiveRefresh \ {record}) \cup {Rotate(record)},
                         t, q)
          /\ UNCHANGED ended
    BY <1>3 DEF RefreshSucceeds
  <2>2. record \in RefreshType
    BY LiveSubsets DEF TypeOK
  <2>3. /\ record.client \in Clients /\ record.sub \in Users
        /\ record.resource \in {None, Resource} /\ record.family \in Pairs
        /\ Rotate(record) \in RefreshType
    BY <2>2 DEF RefreshType, Rotate
  <2>4. NarrowedScopes(record, q) \in SUBSET SCOPES_SUPPORTED
    BY <2>1, <2>2 DEF NarrowedScopes, RefreshAccepts, RefreshType
  <2>5. /\ LiveAccess \in SUBSET AccessType
        /\ (LiveRefresh \ {record}) \cup {Rotate(record)} \in SUBSET RefreshType
    BY <2>3, LiveSubsets DEF TypeOK
  <2>6. /\ accessTokens' \subseteq AccessType /\ refreshTokens' \subseteq RefreshType
        /\ drawn' \subseteq Txns \cup Codes \cup Pairs
        /\ issued' \subseteq IssueType
    BY <2>1, <2>3, <2>4, <2>5, IssueTokensType
  <2>7. QED
    BY <2>1, <2>6, LiveSubsets DEF RefreshToken, TypeOK
<1>4. QED
  BY <1>1, <1>2, <1>3 DEF RefreshToken

(* The pages keep the types.                                               *)
LEMMA PagesType ==
  ASSUME TypeOK,
         \/ \E q \in AuthorizeRequests : Authorize(q)
         \/ \E txn \in txns : ExpireTxn(txn)
         \/ \E txn \in txns, u \in Users : Authenticate(txn, u)
         \/ \E txn \in txns : ConsentView(txn)
         \/ \E txn \in txns, page \in consentPages, accept \in BOOLEAN :
              Decide(txn, page, accept)
  PROVE  TypeOK'
<1>1. ASSUME NEW q \in AuthorizeRequests, Authorize(q)
      PROVE  TypeOK'
  <2>1. CASE txns' = LiveTxns /\ UNCHANGED drawn
    BY <1>1, <2>1, LiveSubsets DEF Authorize, TypeOK, history
  <2>2. ASSUME NEW id \in Txns, AuthorizeAccepts(q),
               txns' = LiveTxns \cup {PendingAuthorization(id, q)},
               drawn' = drawn \cup {id}
        PROVE  TypeOK'
    <3>1. /\ q.client \in Clients /\ q.uri \in Uris /\ q.challenge \in Verifiers
          /\ q.scopes \in SUBSET SCOPES_SUPPORTED /\ q.resource \in {None, Resource}
      BY <2>2, RequestsOK DEF AuthorizeAccepts, ForeignResource
    <3>2. now + TxnTtl \in Nat
      BY ConstantsOK DEF TypeOK
    <3>3. {SCOPE_TOOLS} \in SUBSET SCOPES_SUPPORTED
      BY DEF SCOPES_SUPPORTED
    <3>4. PendingAuthorization(id, q) \in TxnType
      BY <3>1, <3>2, <3>3 DEF PendingAuthorization, TxnType
    <3>5. QED
      BY <1>1, <2>2, <3>4, LiveSubsets DEF Authorize, TypeOK, history
  <2>3. QED
    BY <1>1, <2>1, <2>2 DEF Authorize
<1>2. ASSUME NEW txn \in txns, ExpireTxn(txn)
      PROVE  TypeOK'
  BY <1>2 DEF ExpireTxn, TypeOK, tokens, history
<1>3. ASSUME NEW txn \in txns, NEW u \in Users, Authenticate(txn, u)
      PROVE  TypeOK'
  <2>1. [txn EXCEPT !.sub = u] \in TxnType
    BY DEF TypeOK, TxnType
  <2>2. QED
    BY <1>3, <2>1 DEF Authenticate, TypeOK, tokens, history
<1>4. ASSUME NEW txn \in txns, ConsentView(txn)
      PROVE  TypeOK'
  <2>1. [txn |-> txn.id, sub |-> txn.sub] \in [txn : Txns, sub : Users]
    BY <1>4 DEF ConsentView, ConsentPage, TypeOK, TxnType
  <2>2. QED
    BY <1>4, <2>1 DEF ConsentView, ConsentPage, TypeOK, tokens, history
<1>5. ASSUME NEW txn \in txns, NEW page \in consentPages, NEW accept \in BOOLEAN,
             Decide(txn, page, accept)
      PROVE  TypeOK'
  <2>1. CASE UNCHANGED <<codes, drawn, approvals>>
    BY <1>5, <2>1 DEF Decide, TypeOK, tokens
  <2>2. ASSUME NEW code \in Codes,
               codes' = codes \cup {CodeRecord(code, txn)},
               drawn' = drawn \cup {code},
               approvals' = approvals \cup {Approval(CodeRecord(code, txn), page)}
        PROVE  TypeOK'
    <3>1. /\ txn \in TxnType /\ txn.sub \in Users /\ page.sub \in Users
          /\ now + CodeTtl \in Nat
      BY <1>5, ConstantsOK DEF Decide, TypeOK, TxnType
    <3>2. CodeRecord(code, txn) \in CodeType
      BY <3>1 DEF CodeRecord, CodeType, TxnType, GrantedScopes
    <3>3. Approval(CodeRecord(code, txn), page) \in ApprovalType
      BY <3>1, <3>2 DEF Approval, ApprovalType, CodeType
    <3>4. QED
      BY <1>5, <2>2, <3>2, <3>3 DEF Decide, TypeOK, tokens
  <2>3. QED
    BY <1>5, <2>1, <2>2 DEF Decide
<1>6. QED
  BY <1>1, <1>2, <1>3, <1>4, <1>5

(* Revocation, verification, time and restarts keep the types.             *)
LEMMA OtherType ==
  ASSUME TypeOK,
         \/ Tick
         \/ \E c \in Clients : RegisterClient(c)
         \/ \E r \in Requests : PkceFails(r)
         \/ \E record \in accessTokens : VerifyExpired(record)
         \/ \E record \in accessTokens, c \in Clients : RevokeAccess(record, c)
         \/ \E record \in refreshTokens, c \in Clients : RevokeRefresh(record, c)
         \/ Restart
         \/ UNCHANGED vars
  PROVE  TypeOK'
<1>1. CASE Tick
  BY <1>1 DEF Tick, TypeOK, tokens, history
<1>2. ASSUME NEW c \in Clients, RegisterClient(c)
      PROVE  TypeOK'
  BY <1>2 DEF RegisterClient, TypeOK, tokens, history
<1>3. ASSUME NEW r \in Requests, PkceFails(r)
      PROVE  TypeOK'
  BY <1>3 DEF PkceFails, TypeOK, tokens, history
<1>4. ASSUME NEW record \in accessTokens, VerifyExpired(record)
      PROVE  TypeOK'
  BY <1>4 DEF VerifyExpired, TypeOK, history
<1>5. ASSUME NEW record \in accessTokens, NEW c \in Clients, RevokeAccess(record, c)
      PROVE  TypeOK'
  BY <1>5 DEF RevokeAccess, TypeOK, history
<1>6. ASSUME NEW record \in refreshTokens, NEW c \in Clients, RevokeRefresh(record, c)
      PROVE  TypeOK'
  <2>1. record.family \in Pairs
    BY DEF TypeOK, RefreshType
  <2>2. QED
    BY <1>6, <2>1 DEF RevokeRefresh, Without, TypeOK
<1>7. CASE Restart
  <2>1. {i.family : i \in issued} \subseteq Pairs
    BY DEF TypeOK, IssueType
  <2>2. QED
    BY <1>7, <2>1, ConstantsOK DEF Restart, TypeOK
<1>8. CASE UNCHANGED vars
  BY <1>8 DEF vars, tokens, history, TypeOK
<1>9. QED
  BY <1>1, <1>2, <1>3, <1>4, <1>5, <1>6, <1>7, <1>8

(* Every map of provider.ts always holds records of its declared type: in  *)
(* particular no scope outside SCOPES_SUPPORTED and no foreign resource    *)
(* ever reaches a transaction, a code or a token.                          *)
THEOREM TypeCorrect == Spec => []TypeOK
<1>1. Init => TypeOK
  BY ConstantsOK DEF Init, TypeOK
<1>2. TypeOK /\ [Next]_vars => TypeOK'
  BY PresentCodeType, ExchangeCodeType, RefreshTokenType, PagesType, OtherType DEF Next
<1>3. QED
  BY <1>1, <1>2, PTL DEF Spec
-----------------------------------------------------------------------------
(* The inductive invariant.  All steps but three only let records go:      *)
(* nothing is approved or issued, and short of a restart codes and refresh *)
(* tokens go only when they expired or their family ended.                 *)
Forgets ==
  /\ codes' \subseteq codes /\ usedCodes' \subseteq usedCodes
  /\ accessTokens' \subseteq accessTokens /\ refreshTokens' \subseteq refreshTokens
  /\ approvals' = approvals /\ issued' = issued /\ drawn \subseteq drawn'
  /\ ended \subseteq ended' /\ ended' \subseteq drawn'
  /\ \A x \in accessTokens' \cup refreshTokens' : x.family \notin ended'
  /\ \A r \in Requests : inflight'[r] # Idle =>
       \/ inflight'[r] = inflight[r]
       \/ \E x \in codes : x.code = inflight'[r].code /\ x.challenge = inflight'[r].challenge
  /\ now' \in Nat /\ now' >= now /\ NowSec' \in Nat /\ NowSec' >= NowSec
  /\ \/ Restart
     \/ /\ \A x \in codes : x \in codes' \/ x.expiresAt < now
        /\ \A used \in usedCodes : used \in usedCodes' \/ used.expiresAt < now
        /\ \A x \in refreshTokens :
             x \in refreshTokens' \/ x.expiresAt <= NowSec \/ x.family \in ended'

LEMMA ForgettingStep ==
  ASSUME IInv, TypeOK', Forgets
  PROVE  IInv'
<1>1. DrawnIds'
  <2>1. \A r \in Requests : inflight'[r] # Idle => inflight'[r].code \in drawn'
    BY DEF IInv, DrawnIds, Forgets
  <2>2. QED
    BY <2>1 DEF IInv, DrawnIds, Forgets
<1>2. UniqueKeys'
  BY DEF IInv, UniqueKeys, Forgets
<1>3. Unredeemed'
  BY DEF IInv, Unredeemed, Redeemed, Forgets
<1>4. CodesApproved'
  <2>1. \A x \in codes' : \E a \in approvals' :
       /\ a.code = x.code /\ a.client = x.client /\ a.uri = x.uri
       /\ a.challenge = x.challenge /\ a.scopes = x.scopes
       /\ a.resource = x.resource /\ a.sub = x.sub
    BY DEF IInv, CodesApproved, Forgets
  <2>2. ASSUME NEW r \in Requests, NEW a \in approvals',
               inflight'[r] # Idle, inflight'[r].code = a.code
        PROVE  inflight'[r].challenge = a.challenge
    <3>1. CASE inflight'[r] = inflight[r]
      BY <2>2, <3>1 DEF IInv, CodesApproved, Forgets
    <3>2. CASE \E x \in codes : x.code = inflight'[r].code /\ x.challenge = inflight'[r].challenge
      BY <2>2, <3>2 DEF IInv, CodesApproved, UniqueKeys, Forgets
    <3>3. QED
      BY <2>2, <3>1, <3>2 DEF Forgets
  <2>3. QED
    BY <2>1, <2>2 DEF CodesApproved
<1>5. IssuedRecords'
  BY DEF IInv, IssuedRecords, RefreshExpiry, Forgets
<1>6. Remembered'
  <2> SUFFICES ASSUME NEW i \in issued', i.family \notin ended'
               PROVE  /\ i.source \in Codes /\ now' <= i.at + UsedCodeMemory =>
                           \E used \in usedCodes' :
                             /\ used.code = i.source /\ used.family = i.family
                             /\ used.expiresAt = i.at + UsedCodeMemory
                      /\ \A j \in issued' : j.id = i.source /\ NowSec' < RefreshExpiry(j) =>
                           \E x \in refreshTokens' :
                             /\ x.id = j.id /\ x.family = i.family /\ x.rotated
                             /\ x.expiresAt = RefreshExpiry(j)
    BY DEF Remembered, RefreshExpiry
  <2>1. /\ i \in issued /\ i.family \notin ended /\ i.at \in Nat /\ now \in Nat
        /\ ~Restart
    BY DEF Forgets, IInv, TypeOK, IssueType, Restart
  <2>2. ASSUME i.source \in Codes, now' <= i.at + UsedCodeMemory
        PROVE  \E used \in usedCodes' :
                 /\ used.code = i.source /\ used.family = i.family
                 /\ used.expiresAt = i.at + UsedCodeMemory
    <3>1. now <= i.at + UsedCodeMemory
      BY <2>1, <2>2, ConstantsOK DEF Forgets
    <3>2. PICK used \in usedCodes : /\ used.code = i.source /\ used.family = i.family
                                    /\ used.expiresAt = i.at + UsedCodeMemory
      BY <2>1, <2>2, <3>1 DEF IInv, Remembered
    <3>3. ~(used.expiresAt < now)
      BY <2>1, <3>1, <3>2, ConstantsOK
    <3>4. QED
      BY <2>1, <3>2, <3>3 DEF Forgets
  <2>3. ASSUME NEW j \in issued', j.id = i.source, NowSec' < RefreshExpiry(j)
        PROVE  \E x \in refreshTokens' :
                 /\ x.id = j.id /\ x.family = i.family /\ x.rotated
                 /\ x.expiresAt = RefreshExpiry(j)
    <3>1. j \in issued /\ RefreshExpiry(j) \in Nat /\ NowSec \in Nat
      BY NowSecNat, ConstantsOK DEF RefreshExpiry, Forgets, IInv, TypeOK, IssueType
    <3>2. NowSec < RefreshExpiry(j)
      BY <2>3, <3>1 DEF Forgets
    <3>3. PICK x \in refreshTokens :
                 /\ x.id = j.id /\ x.family = i.family /\ x.rotated
                 /\ x.expiresAt = RefreshExpiry(j)
      BY <2>1, <2>3, <3>1, <3>2 DEF IInv, Remembered
    <3>4. ~(x.expiresAt <= NowSec)
      BY <3>1, <3>2, <3>3
    <3>5. QED
      BY <2>1, <3>3, <3>4 DEF Forgets
  <2>4. QED
    BY <2>2, <2>3
<1>7. SingleUse' /\ EndedStaysDead' /\ OneLiveRefresh' /\ RedeemedByOwner'
  BY DEF IInv, SingleUse, EndedStaysDead, OneLiveRefresh, RedeemedByOwner, Forgets
<1>8. WithinConsent'
  BY DEF IInv, WithinConsent, Within, Forgets
<1>9. QED
  BY <1>1, <1>2, <1>3, <1>4, <1>5, <1>6, <1>7, <1>8 DEF IInv

(* Time only moves the second forward.                                     *)
LEMMA NowSecMonotone ==
  ASSUME now \in Nat, now' = now + 1
  PROVE  NowSec' \in Nat /\ NowSec' >= NowSec
BY ConstantsOK DEF NowSec

(* The part of Forgets that says what may leave is met by a prune.         *)
LEMMA PruneForgets ==
  ASSUME TypeOK
  PROVE  /\ \A x \in codes : x \in LiveCodes \/ x.expiresAt < now
         /\ \A used \in usedCodes : used \in LiveUsed \/ used.expiresAt < now
         /\ \A x \in refreshTokens : x \in LiveRefresh \/ x.expiresAt <= NowSec
<1>1. /\ now \in Nat /\ NowSec \in Nat
      /\ \A used \in usedCodes \cup codes : used.expiresAt \in Nat
      /\ \A x \in refreshTokens : x.expiresAt \in Nat
  BY NowSecNat DEF TypeOK, CodeType, UsedType, RefreshType
<1>2. QED
  BY <1>1 DEF LiveCodes, LiveUsed, LiveRefresh

(* Facts about the present state that every Forgets step starts from.      *)
LEMMA ForgetsBase ==
  ASSUME IInv
  PROVE  /\ now \in Nat /\ now >= now /\ NowSec \in Nat /\ NowSec >= NowSec
         /\ ended \subseteq drawn
         /\ \A x \in accessTokens \cup refreshTokens :
              x.family \notin ended /\ x.family \in drawn
BY NowSecNat DEF IInv, TypeOK, DrawnIds, EndedStaysDead

(* The steps that leave all but the pending transactions, the pages, the   *)
(* clients and the clock alone.                                            *)
LEMMA PlainStepsForget ==
  ASSUME IInv,
         \/ Tick
         \/ \E c \in Clients : RegisterClient(c)
         \/ \E txn \in txns : ExpireTxn(txn)
         \/ \E txn \in txns, u \in Users : Authenticate(txn, u)
         \/ \E txn \in txns : ConsentView(txn)
         \/ \E r \in Requests : PkceFails(r)
         \/ UNCHANGED vars
  PROVE  Forgets
<1>1. CASE Tick
  <2>1. /\ now' \in Nat /\ now' >= now /\ NowSec' \in Nat /\ NowSec' >= NowSec
    BY <1>1, NowSecMonotone, ForgetsBase DEF Tick
  <2>2. QED
    BY <1>1, <2>1, ForgetsBase DEF Tick, tokens, history, Forgets
<1>2. CASE \/ \E c \in Clients : RegisterClient(c)
           \/ \E txn \in txns : ExpireTxn(txn)
           \/ \E txn \in txns, u \in Users : Authenticate(txn, u)
           \/ \E txn \in txns : ConsentView(txn)
           \/ UNCHANGED vars
  <2>1. /\ UNCHANGED <<now, codes, usedCodes, tokens, inflight, history>>
        /\ UNCHANGED drawn
    BY <1>2 DEF RegisterClient, ExpireTxn, Authenticate, ConsentView, vars
  <2>2. NowSec' = NowSec
    BY <2>1 DEF NowSec
  <2>3. QED
    BY <2>1, <2>2, ForgetsBase DEF tokens, history, Forgets
<1>3. ASSUME NEW r \in Requests, PkceFails(r)
      PROVE  Forgets
  <2>1. NowSec' = NowSec
    BY <1>3 DEF PkceFails, NowSec
  <2>2. \A s \in Requests : inflight'[s] # Idle => inflight'[s] = inflight[s]
    BY <1>3 DEF PkceFails, IInv, TypeOK
  <2>3. QED
    BY <1>3, <2>1, <2>2, ForgetsBase DEF PkceFails, tokens, history, Forgets
<1>4. QED
  BY <1>1, <1>2, <1>3

LEMMA AuthorizeForgets ==
  ASSUME IInv, NEW q \in AuthorizeRequests, Authorize(q)
  PROVE  Forgets
<1>1. NowSec' = NowSec /\ drawn \subseteq drawn'
  BY DEF Authorize, NowSec
<1>2. QED
  BY <1>1, ForgetsBase, LiveSubsets, PruneForgets DEF Authorize, history, Forgets, IInv

(* Denying, or having nothing to grant.                                    *)
LEMMA DenialForgets ==
  ASSUME IInv, NEW txn \in txns, NEW page \in consentPages, NEW accept \in BOOLEAN,
         Decide(txn, page, accept), UNCHANGED <<codes, drawn, approvals>>
  PROVE  Forgets
<1>1. NowSec' = NowSec
  BY DEF Decide, NowSec
<1>2. QED
  BY <1>1, ForgetsBase DEF Decide, tokens, Forgets

(* The first half of a code request, reuse of a spent code included.       *)
LEMMA PresentCodeForgets ==
  ASSUME IInv, NEW r \in Requests, NEW code \in Codes, NEW q \in TokenRequests,
         PresentCode(r, code, q)
  PROVE  Forgets
<1>1. NowSec' = NowSec /\ now' = now /\ drawn' = drawn /\ approvals' = approvals
      /\ issued' = issued /\ codes' \subseteq codes /\ usedCodes' \subseteq usedCodes
  BY LiveSubsets DEF PresentCode, NowSec
<1>2. /\ \A used \in usedCodes : used \in usedCodes' \/ used.expiresAt < now
      /\ \A x \in codes : x \in codes' \/ x.expiresAt < now
  BY PruneForgets DEF PresentCode, IInv
<1>3. CASE ChallengeReused(code)
  <2>1. PICK used \in LiveUsed :
          /\ accessTokens'  = Without(LiveAccess, used.family)
          /\ refreshTokens' = Without(LiveRefresh, used.family)
          /\ ended'  = ended \cup {used.family}
          /\ UNCHANGED inflight
    BY <1>3 DEF ChallengeReused
  <2>2. used.family \in drawn
    BY LiveSubsets DEF IInv, DrawnIds
  <2>3. /\ accessTokens' \subseteq accessTokens /\ refreshTokens' \subseteq refreshTokens
        /\ \A x \in accessTokens' \cup refreshTokens' : x.family \notin ended'
        /\ \A x \in refreshTokens :
             x \in refreshTokens' \/ x.expiresAt <= NowSec \/ x.family \in ended'
    BY <2>1, LiveSubsets, PruneForgets, ForgetsBase DEF Without, IInv
  <2>4. QED
    BY <1>1, <1>2, <2>1, <2>2, <2>3, ForgetsBase DEF Forgets
<1>4. CASE ChallengeUnknown(code)
  BY <1>1, <1>2, <1>4, LiveSubsets, PruneForgets, ForgetsBase
     DEF ChallengeUnknown, Forgets, IInv
<1>5. CASE ChallengeFound(r, code, q)
  <2>1. PICK record \in codes :
          /\ record.code = code
          /\ inflight' = [inflight EXCEPT ![r] =
               [code |-> code, challenge |-> record.challenge, request |-> q]]
    BY <1>5, LiveSubsets DEF ChallengeFound
  <2>2. \A s \in Requests : inflight'[s] # Idle =>
          \/ inflight'[s] = inflight[s]
          \/ \E x \in codes : x.code = inflight'[s].code /\ x.challenge = inflight'[s].challenge
    BY <2>1 DEF IInv, TypeOK
  <2>3. QED
    BY <1>1, <1>2, <1>5, <2>2, LiveSubsets, PruneForgets, ForgetsBase
       DEF ChallengeFound, Forgets, IInv
<1>6. QED
  BY <1>3, <1>4, <1>5 DEF PresentCode

(* An exchange that issues nothing.                                        *)
LEMMA FailedExchangeForgets ==
  ASSUME IInv, NEW r \in Requests, ExchangeCode(r),
         \/ ExchangeGone(inflight[r].code)
         \/ ExchangeRefused(inflight[r].code, inflight[r].request)
  PROVE  Forgets
<1>1. NowSec' = NowSec
  BY DEF ExchangeCode, NowSec
<1>2. \A s \in Requests : inflight'[s] # Idle => inflight'[s] = inflight[s]
  BY DEF ExchangeCode, IInv, TypeOK
<1>3. \A x \in codes : x \in codes' \/ x.expiresAt < now
  BY DEF ExchangeGone, ExchangeRefused, ExchangeableCodes, IInv, TypeOK, CodeType
<1>4. QED
  BY <1>1, <1>2, <1>3, ForgetsBase
     DEF ExchangeCode, ExchangeGone, ExchangeRefused, tokens, Forgets

(* A refresh that issues nothing, replay of a rotated token included.      *)
LEMMA FailedRefreshForgets ==
  ASSUME IInv, NEW t \in Pairs, NEW q \in RefreshRequests, RefreshToken(t, q),
         RefreshRefused(t, q) \/ RefreshReplayed(t)
  PROVE  Forgets
<1>1. NowSec' = NowSec
  BY DEF RefreshToken, NowSec
<1>2. CASE RefreshRefused(t, q)
  BY <1>1, <1>2, LiveSubsets, PruneForgets, ForgetsBase
     DEF RefreshToken, RefreshRefused, Forgets, IInv
<1>3. CASE RefreshReplayed(t)
  <2>1. PICK record \in LiveRefresh :
          /\ accessTokens'  = Without(LiveAccess, record.family)
          /\ refreshTokens' = Without(LiveRefresh, record.family)
          /\ ended' = ended \cup {record.family}
          /\ UNCHANGED <<drawn, issued>>
    BY <1>3 DEF RefreshReplayed
  <2>2. record.family \in drawn
    BY LiveSubsets, ForgetsBase
  <2>3. /\ accessTokens' \subseteq accessTokens /\ refreshTokens' \subseteq refreshTokens
        /\ \A x \in accessTokens' \cup refreshTokens' : x.family \notin ended'
        /\ \A x \in refreshTokens :
             x \in refreshTokens' \/ x.expiresAt <= NowSec \/ x.family \in ended'
    BY <2>1, LiveSubsets, PruneForgets, ForgetsBase DEF Without, IInv
  <2>4. QED
    BY <1>1, <2>1, <2>2, <2>3, PruneForgets, LiveSubsets, ForgetsBase
       DEF RefreshToken, Forgets, IInv
<1>4. QED
  BY <1>2, <1>3

(* Verification, revocation and restarts.                                  *)
LEMMA RevocationForgets ==
  ASSUME IInv,
         \/ \E record \in accessTokens : VerifyExpired(record)
         \/ \E record \in accessTokens, c \in Clients : RevokeAccess(record, c)
         \/ \E record \in refreshTokens, c \in Clients : RevokeRefresh(record, c)
         \/ Restart
  PROVE  Forgets
<1>1. CASE \/ \E record \in accessTokens : VerifyExpired(record)
           \/ \E record \in accessTokens, c \in Clients : RevokeAccess(record, c)
  <2>1. /\ accessTokens' \subseteq accessTokens /\ NowSec' = NowSec
        /\ UNCHANGED <<now, codes, usedCodes, refreshTokens, inflight, drawn, history>>
    BY <1>1 DEF VerifyExpired, RevokeAccess, NowSec
  <2>2. QED
    BY <2>1, ForgetsBase DEF history, Forgets
<1>2. ASSUME NEW record \in refreshTokens, NEW c \in Clients, RevokeRefresh(record, c)
      PROVE  Forgets
  <2>1. NowSec' = NowSec /\ record.family \in drawn
    BY <1>2, ForgetsBase DEF RevokeRefresh, NowSec
  <2>2. QED
    BY <1>2, <2>1, ForgetsBase DEF RevokeRefresh, Without, Forgets
<1>3. CASE Restart
  <2>1. NowSec' = NowSec /\ \A r \in Requests : inflight'[r] = Idle
    BY <1>3 DEF Restart, NowSec
  <2>2. ended' \subseteq drawn
    BY <1>3, ForgetsBase DEF Restart, IInv, DrawnIds
  <2>3. QED
    BY <1>3, <2>1, <2>2, ForgetsBase DEF Restart, Forgets
<1>4. QED
  BY <1>1, <1>2, <1>3

-----------------------------------------------------------------------------
(* The three steps that add something.                                     *)

(* An accepted consent adds one code and its approval, under a fresh code. *)
LEMMA ConsentStep ==
  ASSUME IInv, TypeOK', NEW txn \in txns, NEW page \in consentPages,
         Decide(txn, page, TRUE), NEW code \in Codes \ drawn,
         codes' = codes \cup {CodeRecord(code, txn)}, drawn' = drawn \cup {code},
         approvals' = approvals \cup {Approval(CodeRecord(code, txn), page)}
  PROVE  IInv'
<1> DEFINE record == CodeRecord(code, txn)
           a0     == Approval(record, page)
<1>1. /\ now' = now /\ NowSec' = NowSec
      /\ UNCHANGED <<usedCodes, accessTokens, refreshTokens, inflight, issued, ended>>
  BY DEF Decide, tokens, NowSec
<1>2. /\ record.code = code /\ a0.code = code
      /\ a0.client = record.client /\ a0.uri = record.uri
      /\ a0.challenge = record.challenge /\ a0.scopes = record.scopes
      /\ a0.resource = record.resource /\ a0.sub = record.sub
      /\ a0.scopes \subseteq Grantable[a0.sub]
  BY DEF CodeRecord, Approval, GrantedScopes
<1> HIDE DEF record, a0
<1>3. DrawnIds'
  BY <1>1, <1>2 DEF IInv, DrawnIds, record, a0
<1>4. UniqueKeys'
  BY <1>1, <1>2 DEF IInv, UniqueKeys, DrawnIds, record, a0
<1>5. Unredeemed'
  BY <1>1, <1>2 DEF IInv, Unredeemed, DrawnIds, Redeemed, record
<1>6. CodesApproved'
  <2>1. \A x \in codes' : \E a \in approvals' :
       /\ a.code = x.code /\ a.client = x.client /\ a.uri = x.uri
       /\ a.challenge = x.challenge /\ a.scopes = x.scopes
       /\ a.resource = x.resource /\ a.sub = x.sub
    BY <1>2 DEF IInv, CodesApproved, record, a0
  <2>2. \A r \in Requests, a \in approvals' :
       inflight'[r] # Idle /\ inflight'[r].code = a.code =>
         inflight'[r].challenge = a.challenge
    BY <1>1, <1>2 DEF IInv, CodesApproved, DrawnIds, record, a0
  <2>3. QED
    BY <2>1, <2>2 DEF CodesApproved
<1>7. IssuedRecords' /\ Remembered'
  BY <1>1 DEF IInv, IssuedRecords, Remembered, RefreshExpiry
<1>8. SingleUse' /\ EndedStaysDead' /\ OneLiveRefresh'
  BY <1>1 DEF IInv, SingleUse, EndedStaysDead, OneLiveRefresh
<1>9. WithinConsent'
  BY <1>1, <1>2 DEF IInv, WithinConsent, Within, record, a0
<1>10. RedeemedByOwner'
  BY <1>1, <1>2 DEF IInv, RedeemedByOwner, DrawnIds, record, a0
<1>11. QED
  BY <1>3, <1>4, <1>5, <1>6, <1>7, <1>8, <1>9, <1>10 DEF IInv

(* The redemption of a code starts a family under a fresh pair.            *)
LEMMA ExchangeStep ==
  ASSUME IInv, TypeOK', NEW r \in Requests, ExchangeCode(r),
         ExchangeSucceeds(inflight[r].code, inflight[r].request)
  PROVE  IInv'
<1> DEFINE code == inflight[r].code
           q    == inflight[r].request
<1>1. PICK record \in ExchangeableCodes(code), n \in Pairs \ drawn :
        /\ CodeAccepts(record, q)
        /\ codes' = codes \ {record}
        /\ usedCodes' = usedCodes \cup
             {[code |-> code, family |-> n, expiresAt |-> now + UsedCodeMemory]}
        /\ IssueTokens(n, [client |-> record.client, scopes |-> record.scopes,
                           sub |-> record.sub, resource |-> record.resource,
                           family |-> n],
                       accessTokens, refreshTokens, code, q)
  BY DEF ExchangeSucceeds
<1> DEFINE grant == [client |-> record.client, scopes |-> record.scopes,
                     sub |-> record.sub, resource |-> record.resource, family |-> n]
           access  == AccessRecord(n, grant)
           refresh == RefreshRecord(n, grant)
           issue   == [id |-> n, family |-> n, source |-> code,
                       scopes |-> record.scopes, by |-> q, at |-> now]
           spent   == [code |-> code, family |-> n, expiresAt |-> now + UsedCodeMemory]
<1>2. /\ record \in codes /\ record.code = code /\ code \in Codes /\ code \in drawn
      /\ n \notin Codes /\ q.verifier = inflight[r].challenge /\ inflight[r] # Idle
  BY ConstantsOK DEF ExchangeableCodes, ExchangeCode, IInv, TypeOK, CodeType, DrawnIds
<1>3. /\ accessTokens' = accessTokens \cup {access}
      /\ refreshTokens' = refreshTokens \cup {refresh}
      /\ drawn' = drawn \cup {n} /\ issued' = issued \cup {issue}
      /\ codes' = codes \ {record} /\ usedCodes' = usedCodes \cup {spent}
  BY <1>1 DEF IssueTokens
<1>4. /\ now' = now /\ NowSec' = NowSec /\ approvals' = approvals /\ ended' = ended
      /\ \A s \in Requests : inflight'[s] # Idle => inflight'[s] = inflight[s]
  BY DEF ExchangeCode, NowSec, IInv, TypeOK
<1>5. /\ access.id = n /\ access.family = n /\ refresh.id = n /\ refresh.family = n
      /\ ~refresh.rotated /\ refresh.expiresAt = NowSec + RefreshTtl
      /\ issue.id = n /\ issue.family = n /\ issue.source = code /\ issue.at = now
      /\ issue.by = q /\ spent.code = code /\ spent.family = n
      /\ spent.expiresAt = now + UsedCodeMemory
      /\ RefreshExpiry(issue) = refresh.expiresAt
  BY DEF AccessRecord, RefreshRecord, RefreshExpiry, NowSec
<1>6. /\ access.client = record.client /\ access.sub = record.sub
      /\ access.resource = record.resource /\ access.scopes = record.scopes
      /\ refresh.client = record.client /\ refresh.sub = record.sub
      /\ refresh.resource = record.resource /\ refresh.scopes = record.scopes
  BY DEF AccessRecord, RefreshRecord
<1>7. ~Redeemed(code)
  BY <1>2 DEF IInv, Unredeemed
<1> HIDE DEF access, refresh, issue, spent
<1>8. DrawnIds'
  BY <1>2, <1>3, <1>4, <1>5 DEF IInv, DrawnIds
<1>9. UniqueKeys'
  BY <1>2, <1>3, <1>4, <1>5 DEF IInv, UniqueKeys, DrawnIds
<1>10. Unredeemed'
  BY <1>2, <1>3, <1>4, <1>5, ConstantsOK
     DEF IInv, Unredeemed, UniqueKeys, DrawnIds, Redeemed, TypeOK, RefreshType
<1>11. CodesApproved'
  BY <1>3, <1>4 DEF IInv, CodesApproved
<1>12. IssuedRecords'
  BY <1>2, <1>3, <1>4, <1>5 DEF IInv, IssuedRecords, DrawnIds, RefreshExpiry
<1>13. Remembered'
  <2> SUFFICES ASSUME NEW i \in issued', i.family \notin ended'
               PROVE  /\ i.source \in Codes /\ now <= i.at + UsedCodeMemory =>
                           \E used \in usedCodes' :
                             /\ used.code = i.source /\ used.family = i.family
                             /\ used.expiresAt = i.at + UsedCodeMemory
                      /\ \A j \in issued' : j.id = i.source /\ NowSec < RefreshExpiry(j) =>
                           \E x \in refreshTokens' :
                             /\ x.id = j.id /\ x.family = i.family /\ x.rotated
                             /\ x.expiresAt = RefreshExpiry(j)
    BY <1>4 DEF Remembered, RefreshExpiry
  <2>1. CASE i \in issued
    <3>1. \A j \in issued' : j.id = i.source => j \in issued
      BY <1>3, <1>5, <2>1 DEF IInv, DrawnIds
    <3>2. QED
      BY <1>3, <1>4, <2>1, <3>1 DEF IInv, Remembered
  <2>2. CASE i = issue
    <3>1. \A j \in issued' : j.id # i.source
      BY <1>2, <1>3, <1>5, <2>2, ConstantsOK DEF IInv, TypeOK, IssueType
    <3>2. QED
      BY <1>3, <1>5, <2>2, <3>1
  <2>3. QED
    BY <1>3, <2>1, <2>2
<1>14. SingleUse'
  BY <1>3, <1>5, <1>7 DEF IInv, SingleUse, Redeemed
<1>15. EndedStaysDead' /\ OneLiveRefresh'
  BY <1>3, <1>4, <1>5 DEF IInv, EndedStaysDead, OneLiveRefresh, DrawnIds
<1>16. PICK a \in approvals :
         /\ a.code = code /\ a.client = record.client /\ a.uri = record.uri
         /\ a.challenge = record.challenge /\ a.scopes = record.scopes
         /\ a.resource = record.resource /\ a.sub = record.sub
  BY <1>2 DEF IInv, CodesApproved
<1>17. WithinConsent'
  <2>1. /\ Within(access, a) /\ Within(refresh, a)
    BY <1>6, <1>16 DEF Within
  <2>2. \A x \in {access, refresh} : \E i \in issued', b \in approvals' :
          i.id = x.family /\ i.source = b.code /\ Within(x, b)
    BY <1>3, <1>4, <1>5, <1>16, <2>1
  <2>3. \A x \in accessTokens \cup refreshTokens : \E i \in issued', b \in approvals' :
          i.id = x.family /\ i.source = b.code /\ Within(x, b)
    BY <1>3, <1>4 DEF IInv, WithinConsent
  <2>4. QED
    BY <1>3, <1>4, <2>2, <2>3 DEF IInv, WithinConsent, Within
<1>18. RedeemedByOwner'
  <2>1. /\ q.client = a.client /\ q.verifier = a.challenge /\ q.uri \in {None, a.uri}
    BY <1>1, <1>2, <1>16 DEF CodeAccepts, IInv, CodesApproved
  <2>2. \A b \in approvals : b.code = code => b = a
    BY <1>16 DEF IInv, UniqueKeys
  <2>3. QED
    BY <1>3, <1>4, <1>5, <2>1, <2>2 DEF IInv, RedeemedByOwner
<1>19. QED
  BY <1>8, <1>9, <1>10, <1>11, <1>12, <1>13, <1>14, <1>15, <1>17, <1>18 DEF IInv

(* A refresh rotates one token of a living family and adds a fresh pair.   *)
LEMMA RefreshStep ==
  ASSUME IInv, TypeOK', NEW t \in Pairs, NEW q \in RefreshRequests,
         RefreshToken(t, q), RefreshSucceeds(t, q)
  PROVE  IInv'
<1>1. PICK record \in LiveRefresh, n \in Pairs \ drawn :
        /\ record.id = t /\ ~record.rotated /\ RefreshAccepts(record, q)
        /\ IssueTokens(n, [client |-> record.client, scopes |-> NarrowedScopes(record, q),
                           sub |-> record.sub, resource |-> record.resource,
                           family |-> record.family],
                       LiveAccess, (LiveRefresh \ {record}) \cup {Rotate(record)}, t, q)
        /\ UNCHANGED ended
  BY DEF RefreshSucceeds
<1> DEFINE grant == [client |-> record.client, scopes |-> NarrowedScopes(record, q),
                     sub |-> record.sub, resource |-> record.resource,
                     family |-> record.family]
           access  == AccessRecord(n, grant)
           refresh == RefreshRecord(n, grant)
           old     == Rotate(record)
           issue   == [id |-> n, family |-> record.family, source |-> t,
                       scopes |-> grant.scopes, by |-> q, at |-> now]
<1>2. /\ record \in refreshTokens /\ record \in RefreshType
      /\ record.family \in drawn /\ record.family \notin ended /\ t \in drawn /\ t # n
      /\ record.expiresAt > NowSec /\ NowSec \in Nat /\ now \in Nat
  BY <1>1, LiveSubsets, ForgetsBase DEF LiveRefresh, IInv, TypeOK, DrawnIds
<1>3. /\ accessTokens' = LiveAccess \cup {access}
      /\ refreshTokens' = (LiveRefresh \ {record}) \cup {old, refresh}
      /\ drawn' = drawn \cup {n} /\ issued' = issued \cup {issue} /\ ended' = ended
  BY <1>1 DEF IssueTokens
<1>4. /\ now' = now /\ NowSec' = NowSec /\ approvals' = approvals /\ inflight' = inflight
      /\ codes' = LiveCodes /\ usedCodes' = LiveUsed
  BY DEF RefreshToken, NowSec
<1>5. /\ access.id = n /\ access.family = record.family
      /\ refresh.id = n /\ refresh.family = record.family /\ ~refresh.rotated
      /\ issue.id = n /\ issue.family = record.family /\ issue.source = t
      /\ issue.at = now /\ RefreshExpiry(issue) = refresh.expiresAt
  BY DEF AccessRecord, RefreshRecord, RefreshExpiry, NowSec
<1>6. /\ old.id = t /\ old.family = record.family /\ old.rotated
      /\ old.expiresAt = record.expiresAt /\ old.client = record.client
      /\ old.sub = record.sub /\ old.resource = record.resource
      /\ old.scopes = record.scopes
  BY <1>1, <1>2 DEF Rotate, RefreshType
<1>7. /\ access.client = record.client /\ access.sub = record.sub
      /\ access.resource = record.resource /\ access.scopes \subseteq record.scopes
      /\ refresh.client = record.client /\ refresh.sub = record.sub
      /\ refresh.resource = record.resource /\ refresh.scopes \subseteq record.scopes
  BY <1>1 DEF AccessRecord, RefreshRecord, NarrowedScopes, RefreshAccepts
<1>8. ~Redeemed(t)
  BY <1>1, <1>2 DEF IInv, Unredeemed
<1>9. \A x \in refreshTokens' : x = old \/ x = refresh \/ (x \in refreshTokens /\ x.id # t)
  BY <1>1, <1>2, <1>3, LiveSubsets DEF IInv, UniqueKeys
<1> HIDE DEF access, refresh, old, issue
<1>10. DrawnIds'
  BY <1>2, <1>3, <1>4, <1>5, <1>6, LiveSubsets DEF IInv, DrawnIds
<1>11. UniqueKeys'
  BY <1>2, <1>3, <1>4, <1>5, <1>6, <1>9, LiveSubsets DEF IInv, UniqueKeys, DrawnIds
<1>12. Unredeemed'
  <2>1. \A x \in codes' : ~Redeemed(x.code)'
    BY <1>3, <1>4, <1>5, LiveSubsets, ConstantsOK
       DEF IInv, Unredeemed, Redeemed, TypeOK, CodeType
  <2>2. \A x \in refreshTokens' : ~x.rotated => ~Redeemed(x.id)'
    BY <1>2, <1>3, <1>5, <1>6, <1>9 DEF IInv, Unredeemed, Redeemed, DrawnIds
  <2>3. QED
    BY <2>1, <2>2 DEF Unredeemed
<1>13. CodesApproved'
  BY <1>4, LiveSubsets DEF IInv, CodesApproved
<1>14. IssuedRecords'
  <2>1. ASSUME NEW x \in refreshTokens', NEW i \in issued', i.id = x.id
        PROVE  x.family = i.family /\ x.expiresAt = RefreshExpiry(i)
    <3>1. CASE i = issue
      BY <1>2, <1>5, <1>6, <1>9, <2>1, <3>1 DEF IInv, DrawnIds
    <3>2. CASE i \in issued
      BY <1>1, <1>2, <1>5, <1>6, <1>9, <2>1, <3>2 DEF IInv, IssuedRecords, DrawnIds
    <3>3. QED
      BY <1>3, <3>1, <3>2
  <2>2. QED
    BY <2>1 DEF IssuedRecords, RefreshExpiry
<1>15. Remembered'
  <2> SUFFICES ASSUME NEW i \in issued', i.family \notin ended
               PROVE  /\ i.source \in Codes /\ now <= i.at + UsedCodeMemory =>
                           \E used \in usedCodes' :
                             /\ used.code = i.source /\ used.family = i.family
                             /\ used.expiresAt = i.at + UsedCodeMemory
                      /\ \A j \in issued' : j.id = i.source /\ NowSec < RefreshExpiry(j) =>
                           \E x \in refreshTokens' :
                             /\ x.id = j.id /\ x.family = i.family /\ x.rotated
                             /\ x.expiresAt = RefreshExpiry(j)
    BY <1>3, <1>4 DEF Remembered, RefreshExpiry
  <2>1. CASE i \in issued
    <3>1. ASSUME i.source \in Codes, now <= i.at + UsedCodeMemory
          PROVE  \E used \in usedCodes' :
                   /\ used.code = i.source /\ used.family = i.family
                   /\ used.expiresAt = i.at + UsedCodeMemory
      BY <1>2, <1>4, <2>1, <3>1 DEF IInv, Remembered, LiveUsed
    <3>2. ASSUME NEW j \in issued', j.id = i.source, NowSec < RefreshExpiry(j)
          PROVE  \E x \in refreshTokens' :
                   /\ x.id = j.id /\ x.family = i.family /\ x.rotated
                   /\ x.expiresAt = RefreshExpiry(j)
      <4>1. j \in issued
        BY <1>3, <1>5, <2>1, <3>2 DEF IInv, DrawnIds
      <4>2. PICK x \in refreshTokens : /\ x.id = j.id /\ x.family = i.family /\ x.rotated
                                       /\ x.expiresAt = RefreshExpiry(j)
        BY <2>1, <3>2, <4>1 DEF IInv, Remembered
      <4>3. x \in LiveRefresh /\ x # record
        BY <1>1, <1>2, <3>2, <4>2 DEF LiveRefresh
      <4>4. QED
        BY <1>3, <4>2, <4>3
    <3>3. QED
      BY <3>1, <3>2
  <2>2. CASE i = issue
    <3>1. ASSUME NEW j \in issued', j.id = t
          PROVE  old \in refreshTokens' /\ old.expiresAt = RefreshExpiry(j)
      BY <1>1, <1>2, <1>3, <1>5, <1>6, <3>1 DEF IInv, IssuedRecords
    <3>2. t \notin Codes
      BY ConstantsOK
    <3>3. QED
      BY <1>5, <1>6, <2>2, <3>1, <3>2
  <2>3. QED
    BY <1>3, <2>1, <2>2
<1>16. SingleUse'
  BY <1>3, <1>5, <1>8 DEF IInv, SingleUse, Redeemed
<1>17. EndedStaysDead'
  BY <1>2, <1>3, <1>5, <1>6, LiveSubsets DEF IInv, EndedStaysDead
<1>18. OneLiveRefresh'
  BY <1>1, <1>2, <1>3, <1>5, <1>6, <1>9 DEF IInv, OneLiveRefresh
<1>19. WithinConsent'
  <2>1. PICK i \in issued, a \in approvals :
          i.id = record.family /\ i.source = a.code /\ Within(record, a)
    BY <1>2 DEF IInv, WithinConsent
  <2>2. Within(access, a) /\ Within(refresh, a) /\ Within(old, a)
    BY <1>6, <1>7, <2>1 DEF Within
  <2>3. \A x \in {access, refresh, old} : \E j \in issued', b \in approvals' :
          j.id = x.family /\ j.source = b.code /\ Within(x, b)
    BY <1>3, <1>4, <1>5, <1>6, <2>1, <2>2
  <2>4. \A x \in accessTokens \cup refreshTokens : \E j \in issued', b \in approvals' :
          j.id = x.family /\ j.source = b.code /\ Within(x, b)
    BY <1>3, <1>4 DEF IInv, WithinConsent
  <2>5. \A x \in accessTokens' \cup refreshTokens' : \E j \in issued', b \in approvals' :
          j.id = x.family /\ j.source = b.code /\ Within(x, b)
    BY <1>3, <2>3, <2>4, LiveSubsets
  <2>6. QED
    BY <1>4, <2>5 DEF IInv, WithinConsent, Within
<1>20. RedeemedByOwner'
  BY <1>3, <1>4, <1>5, ConstantsOK DEF IInv, RedeemedByOwner, TypeOK, ApprovalType
<1>21. QED
  BY <1>10, <1>11, <1>12, <1>13, <1>14, <1>15, <1>16, <1>17, <1>18, <1>19, <1>20 DEF IInv

-----------------------------------------------------------------------------
LEMMA InitIInv == Init => IInv
<1> SUFFICES ASSUME Init PROVE IInv
  OBVIOUS
<1>1. TypeOK
  BY ConstantsOK DEF Init, TypeOK
<1>2. \A r \in Requests : inflight[r] = Idle
  BY DEF Init
<1>3. QED
  BY <1>1, <1>2 DEF Init, IInv, DrawnIds, UniqueKeys, Unredeemed, CodesApproved,
     IssuedRecords, Remembered, SingleUse, EndedStaysDead, OneLiveRefresh,
     WithinConsent, RedeemedByOwner

(* Every step only forgets, or is one of the three growing steps.          *)
LEMMA StepKinds ==
  ASSUME IInv, [Next]_vars
  PROVE  \/ Forgets
         \/ \E txn \in txns, page \in consentPages, code \in Codes \ drawn :
              /\ Decide(txn, page, TRUE)
              /\ codes' = codes \cup {CodeRecord(code, txn)}
              /\ drawn' = drawn \cup {code}
              /\ approvals' = approvals \cup {Approval(CodeRecord(code, txn), page)}
         \/ \E r \in Requests :
              ExchangeCode(r) /\ ExchangeSucceeds(inflight[r].code, inflight[r].request)
         \/ \E t \in Pairs, q \in RefreshRequests :
              RefreshToken(t, q) /\ RefreshSucceeds(t, q)
<1>1. CASE \/ Tick
           \/ \E c \in Clients : RegisterClient(c)
           \/ \E txn \in txns : ExpireTxn(txn)
           \/ \E txn \in txns, u \in Users : Authenticate(txn, u)
           \/ \E txn \in txns : ConsentView(txn)
           \/ \E r \in Requests : PkceFails(r)
           \/ UNCHANGED vars
  BY <1>1, PlainStepsForget
<1>2. CASE \E q \in AuthorizeRequests : Authorize(q)
  BY <1>2, AuthorizeForgets
<1>3. ASSUME NEW txn \in txns, NEW page \in consentPages, NEW accept \in BOOLEAN,
             Decide(txn, page, accept)
      PROVE  \/ Forgets
             \/ \E code \in Codes \ drawn :
                  /\ Decide(txn, page, TRUE)
                  /\ codes' = codes \cup {CodeRecord(code, txn)}
                  /\ drawn' = drawn \cup {code}
                  /\ approvals' = approvals \cup {Approval(CodeRecord(code, txn), page)}
  <2>1. CASE UNCHANGED <<codes, drawn, approvals>>
    BY <1>3, <2>1, DenialForgets
  <2>2. CASE ~UNCHANGED <<codes, drawn, approvals>>
    <3>1. accept = TRUE
      BY <1>3, <2>2 DEF Decide
    <3>2. \E code \in Codes \ drawn :
            /\ codes' = codes \cup {CodeRecord(code, txn)}
            /\ drawn' = drawn \cup {code}
            /\ approvals' = approvals \cup {Approval(CodeRecord(code, txn), page)}
      BY <1>3, <2>2 DEF Decide
    <3>3. QED
      BY <1>3, <3>1, <3>2
  <2>3. QED
    BY <2>1, <2>2
<1>4. CASE \E r \in Requests, code \in Codes, q \in TokenRequests : PresentCode(r, code, q)
  BY <1>4, PresentCodeForgets
<1>5. ASSUME NEW r \in Requests, ExchangeCode(r)
      PROVE  Forgets \/ ExchangeSucceeds(inflight[r].code, inflight[r].request)
  BY <1>5, FailedExchangeForgets DEF ExchangeCode
<1>6. ASSUME NEW t \in Pairs, NEW q \in RefreshRequests, RefreshToken(t, q)
      PROVE  Forgets \/ RefreshSucceeds(t, q)
  BY <1>6, FailedRefreshForgets DEF RefreshToken
<1>7. CASE \/ \E record \in accessTokens : VerifyExpired(record)
           \/ \E record \in accessTokens, c \in Clients : RevokeAccess(record, c)
           \/ \E record \in refreshTokens, c \in Clients : RevokeRefresh(record, c)
           \/ Restart
  BY <1>7, RevocationForgets
<1>8. QED
  BY <1>1, <1>2, <1>3, <1>4, <1>5, <1>6, <1>7 DEF Next

LEMMA NextIInv == IInv /\ [Next]_vars => IInv'
<1> SUFFICES ASSUME IInv, [Next]_vars PROVE IInv'
  OBVIOUS
<1>1. TypeOK'
  BY PresentCodeType, ExchangeCodeType, RefreshTokenType, PagesType, OtherType
     DEF Next, IInv
<1>2. QED
  BY <1>1, StepKinds, ForgettingStep, ConsentStep, ExchangeStep, RefreshStep

(* IInv is an invariant.                                                   *)
THEOREM InductiveInvariant == Spec => []IInv
<1>1. QED
  BY InitIInv, NextIInv, PTL DEF Spec

(* No code and no refresh token is ever redeemed twice, however the token  *)
(* requests that present it interleave.                                    *)
THEOREM RedemptionIsSingleUse == Spec => []SingleUse
BY InductiveInvariant, PTL DEF IInv

(* A family that was revoked or lost has no token left, for ever.          *)
THEOREM RevocationIsFinal == Spec => []EndedStaysDead
BY InductiveInvariant, PTL DEF IInv

(* A family never holds two refresh tokens that could both be redeemed.    *)
THEOREM RotationIsLinear == Spec => []OneLiveRefresh
BY InductiveInvariant, PTL DEF IInv

(* No token exceeds the consent it descends from, nor a consent its user.  *)
THEOREM ConsentBoundsTokens == Spec => []WithinConsent
BY InductiveInvariant, PTL DEF IInv

(* A code is redeemed only by the client, with the verifier and for the    *)
(* redirect_uri of the authorization behind it.                            *)
THEOREM CodesAreBound == Spec => []RedeemedByOwner
BY InductiveInvariant, PTL DEF IInv

(* A replayed code or refresh token of a living family is recognised as    *)
(* long as the code promises to remember it.                               *)
THEOREM ReplaysAreRecognised == Spec => []ReplayRecognisable
<1>1. IInv => ReplayRecognisable
  BY DEF IInv, Remembered, ReplayRecognisable
<1>2. QED
  BY <1>1, InductiveInvariant, PTL

-----------------------------------------------------------------------------
(* The access tokens a step adds are fresh, and seconds do not go back.    *)
LEMMA AccessIsFresh ==
  ASSUME IInv, [Next]_vars
  PROVE  /\ \A x \in accessTokens' : x \in accessTokens \/ x.id \notin drawn
         /\ NowSec \in Nat /\ NowSec' \in Nat /\ NowSec' >= NowSec
<1>0. NowSec \in Nat /\ NowSec >= NowSec
  BY ForgetsBase
<1>1. CASE Forgets
  BY <1>0, <1>1 DEF Forgets
<1>2. ASSUME NEW txn \in txns, NEW page \in consentPages, Decide(txn, page, TRUE)
      PROVE  accessTokens' = accessTokens /\ NowSec' = NowSec
  BY <1>2 DEF Decide, tokens, NowSec
<1>3. ASSUME NEW r \in Requests, ExchangeCode(r),
             ExchangeSucceeds(inflight[r].code, inflight[r].request)
      PROVE  /\ \A x \in accessTokens' : x \in accessTokens \/ x.id \notin drawn
             /\ NowSec' = NowSec
  BY <1>3 DEF ExchangeCode, ExchangeSucceeds, IssueTokens, AccessRecord, NowSec
<1>4. ASSUME NEW t \in Pairs, NEW q \in RefreshRequests, RefreshToken(t, q),
             RefreshSucceeds(t, q)
      PROVE  /\ \A x \in accessTokens' : x \in accessTokens \/ x.id \notin drawn
             /\ NowSec' = NowSec
  BY <1>4, LiveSubsets DEF RefreshToken, RefreshSucceeds, IssueTokens, AccessRecord, NowSec
<1>5. QED
  BY <1>0, <1>1, <1>2, <1>3, <1>4, StepKinds

(* Once an issued access token is not accepted it never is again.          *)
THEOREM AccessNeverResurrects == Spec => NoResurrection
<1>1. IInv /\ [Next]_vars => [\A i \in issued : ~Accepted(i.id) => ~Accepted(i.id)']_vars
  <2> SUFFICES ASSUME IInv, [Next]_vars, NEW i \in issued, Accepted(i.id)'
               PROVE  Accepted(i.id)
    OBVIOUS
  <2>1. PICK x \in accessTokens' :
          x.id = i.id /\ x.expiresAt > NowSec' /\ SCOPE_TOOLS \in x.scopes
    BY DEF Accepted
  <2>2. x \in accessTokens /\ x.expiresAt \in Nat
    BY <2>1, AccessIsFresh DEF IInv, DrawnIds, TypeOK, AccessType
  <2>3. QED
    BY <2>1, <2>2, AccessIsFresh DEF Accepted
<1>2. QED
  BY <1>1, InductiveInvariant, PTL DEF Spec, NoResurrection

(* Short of a restart, no code and no refresh token is lost but by expiry, *)
(* redemption or the end of its own family.                                *)
THEOREM TokensAreNotLost == Spec => NothingLost
<1> DEFINE Kept == /\ \A x \in codes : x \in codes' \/ x.expiresAt < now \/ Redeemed(x.code)'
                   /\ \A x \in refreshTokens :
                        \/ \E y \in refreshTokens' : y.id = x.id
                        \/ x.expiresAt <= NowSec
                        \/ x.family \in ended'
<1>1. IInv /\ [Next]_vars => Restart \/ Kept
  <2> SUFFICES ASSUME IInv, [Next]_vars PROVE Restart \/ Kept
    OBVIOUS
  <2>1. CASE Forgets
    BY <2>1 DEF Forgets
  <2>2. ASSUME NEW txn \in txns, NEW page \in consentPages, NEW code \in Codes,
               Decide(txn, page, TRUE), codes' = codes \cup {CodeRecord(code, txn)}
        PROVE  Kept
    BY <2>2 DEF Decide, tokens
  <2>3. ASSUME NEW r \in Requests, ExchangeCode(r),
               ExchangeSucceeds(inflight[r].code, inflight[r].request)
        PROVE  Kept
    <3>1. \A x \in codes : x \in codes' \/ Redeemed(x.code)'
      <4>1. PICK record \in codes, n \in Pairs :
              /\ record.code = inflight[r].code
              /\ codes' = codes \ {record}
              /\ issued' = issued \cup
                   {[id |-> n, family |-> n, source |-> inflight[r].code,
                     scopes |-> record.scopes, by |-> inflight[r].request, at |-> now]}
        BY <2>3 DEF ExchangeSucceeds, ExchangeableCodes, IssueTokens
      <4> DEFINE entry ==
            [id |-> n, family |-> n, source |-> inflight[r].code,
             scopes |-> record.scopes, by |-> inflight[r].request, at |-> now]
      <4>2. entry \in issued' /\ entry.source = record.code
        BY <4>1
      <4>3. Redeemed(record.code)'
        <5> HIDE DEF entry
        <5> QED
          BY <4>2 DEF Redeemed
      <4>4. QED
        BY <4>1, <4>3
    <3>2. refreshTokens \subseteq refreshTokens'
      BY <2>3 DEF ExchangeSucceeds, IssueTokens
    <3>3. QED
      BY <3>1, <3>2
  <2>4. ASSUME NEW t \in Pairs, NEW q \in RefreshRequests, RefreshToken(t, q),
               RefreshSucceeds(t, q)
        PROVE  Kept
    <3>1. PICK record \in LiveRefresh :
            (LiveRefresh \ {record}) \cup {Rotate(record)} \subseteq refreshTokens'
      BY <2>4 DEF RefreshSucceeds, IssueTokens
    <3>2. Rotate(record).id = record.id
      <4>1. record \in RefreshType
        BY LiveSubsets DEF IInv, TypeOK
      <4>2. QED
        BY <4>1 DEF Rotate, RefreshType
    <3>3. \A x \in codes : x \in codes' \/ x.expiresAt < now
      BY <2>4, PruneForgets DEF RefreshToken, IInv
    <3>4. QED
      BY <3>1, <3>2, <3>3, PruneForgets DEF IInv
  <2>5. QED
    BY <2>1, <2>2, <2>3, <2>4, StepKinds
<1>2. QED
  BY <1>1, InductiveInvariant, PTL DEF Spec, NothingLost
-----------------------------------------------------------------------------
(* The server implements GrantChain.                                       *)

(* Membership in Redeemable, now and after a step.                         *)
LEMMA RedeemableMembers ==
  /\ \A o : o \in Redeemable <=>
       \/ \E x \in codes : o = [source |-> x.code, family |-> None]
       \/ \E x \in refreshTokens : ~x.rotated /\ o = [source |-> x.id, family |-> x.family]
  /\ \A o : o \in Redeemable' <=>
       \/ \E x \in codes' : o = [source |-> x.code, family |-> None]
       \/ \E x \in refreshTokens' : ~x.rotated /\ o = [source |-> x.id, family |-> x.family]
BY DEF Redeemable

(* Whatever only lets records go withdraws offers.                         *)
LEMMA ForgettingWithdraws ==
  ASSUME IInv, IInv', Forgets
  PROVE  Chain!Withdraw
<1>1. Redeemable' \subseteq Redeemable
  BY RedeemableMembers DEF Forgets
<1>2. None \notin ended'
  BY ConstantsOK DEF IInv, TypeOK
<1>3. \A o \in Redeemable' : o.family \notin ended'
  BY <1>2, RedeemableMembers DEF Forgets
<1>4. QED
  BY <1>1, <1>3 DEF Chain!Withdraw, Forgets

(* An accepted consent offers one code.                                    *)
LEMMA ConsentOffers ==
  ASSUME IInv, NEW txn \in txns, NEW page \in consentPages, NEW code \in Codes \ drawn,
         Decide(txn, page, TRUE), codes' = codes \cup {CodeRecord(code, txn)},
         drawn' = drawn \cup {code}
  PROVE  Chain!Consent(code)
<1>1. refreshTokens' = refreshTokens /\ ended' = ended
  BY DEF Decide, tokens
<1> DEFINE record == CodeRecord(code, txn)
           offer  == [source |-> code, family |-> None]
<1>2. record.code = code
  BY DEF CodeRecord
<1>3. Redeemable' = Redeemable \cup {offer}
  <2> HIDE DEF record
  <2>1. \A x \in codes' : x \in codes \/ x.code = code
    BY <1>2 DEF record
  <2>2. offer \in Redeemable'
    <3>1. record \in codes'
      BY DEF record
    <3>2. QED
      BY <1>2, <3>1, RedeemableMembers
  <2>3. \A o \in Redeemable : o \in Redeemable'
    BY <1>1, RedeemableMembers
  <2>4. \A o \in Redeemable' : o \in Redeemable \cup {offer}
    BY <1>1, <2>1, RedeemableMembers
  <2>5. QED
    BY <2>2, <2>3, <2>4
<1>4. QED
  BY <1>1, <1>3 DEF Chain!Consent, Chain!Offer

(* A successful exchange redeems the code for the head of a family.        *)
LEMMA ExchangeRedeems ==
  ASSUME IInv, IInv', NEW r \in Requests, ExchangeCode(r),
         ExchangeSucceeds(inflight[r].code, inflight[r].request)
  PROVE  \E x \in Redeemable, n \in Pairs : Chain!Redeem(x, n)
<1> DEFINE grant(record, n) ==
             [client |-> record.client, scopes |-> record.scopes, sub |-> record.sub,
              resource |-> record.resource, family |-> n]
<1>1. PICK record \in codes, n \in Pairs \ drawn :
        /\ codes' = codes \ {record}
        /\ refreshTokens' = refreshTokens \cup {RefreshRecord(n, grant(record, n))}
        /\ drawn' = drawn \cup {n}
  BY DEF ExchangeSucceeds, ExchangeableCodes, IssueTokens
<1> DEFINE spent == [source |-> record.code, family |-> None]
           head  == [source |-> n, family |-> n]
<1>2. ended' = ended
  BY DEF ExchangeCode
<1>3. spent \in Redeemable /\ spent.family \notin ended
  BY RedeemableMembers, ConstantsOK DEF IInv, TypeOK
<1>4. LET fresh == RefreshRecord(n, grant(record, n))
      IN fresh.id = n /\ fresh.family = n /\ fresh.rotated = FALSE
  BY DEF RefreshRecord
<1>5. head \in Redeemable'
  BY <1>1, <1>4, RedeemableMembers
<1>6. \A x \in codes' : x.code # record.code
  BY <1>1 DEF IInv, UniqueKeys
<1>7. \A x \in refreshTokens : x.family # None
  BY ConstantsOK DEF IInv, TypeOK, RefreshType
<1>8. Redeemable' \subseteq (Redeemable \ {spent}) \cup {head}
  <2> SUFFICES ASSUME NEW o \in Redeemable', o # head PROVE o \in Redeemable /\ o # spent
    OBVIOUS
  <2>1. CASE \E x \in codes' : o = [source |-> x.code, family |-> None]
    BY <1>1, <1>6, <2>1, RedeemableMembers
  <2>2. CASE \E x \in refreshTokens' :
               ~x.rotated /\ o = [source |-> x.id, family |-> x.family]
    <3>1. PICK x \in refreshTokens :
            ~x.rotated /\ o = [source |-> x.id, family |-> x.family]
      BY <1>1, <1>4, <2>2
    <3>2. QED
      BY <1>7, <3>1, RedeemableMembers
  <2>3. QED
    BY <2>1, <2>2, RedeemableMembers
<1>9. Chain!Redeem(spent, n)
  BY <1>1, <1>2, <1>3, <1>5, <1>8 DEF Chain!Redeem, Chain!Offer
<1>10. QED
  BY <1>3, <1>9

(* A successful refresh redeems a token for the next of its family.        *)
LEMMA RefreshRedeems ==
  ASSUME IInv, IInv', NEW t \in Pairs, NEW q \in RefreshRequests,
         RefreshToken(t, q), RefreshSucceeds(t, q)
  PROVE  \E x \in Redeemable, n \in Pairs : Chain!Redeem(x, n)
<1> DEFINE grant(record) ==
             [client |-> record.client, scopes |-> NarrowedScopes(record, q),
              sub |-> record.sub, resource |-> record.resource,
              family |-> record.family]
<1>1. PICK record \in refreshTokens, n \in Pairs \ drawn :
        /\ ~record.rotated
        /\ refreshTokens' = (LiveRefresh \ {record}) \cup {Rotate(record)}
                              \cup {RefreshRecord(n, grant(record))}
        /\ drawn' = drawn \cup {n} /\ ended' = ended
  BY LiveSubsets DEF RefreshSucceeds, IssueTokens
<1> DEFINE spent == [source |-> record.id, family |-> record.family]
           next  == [source |-> n, family |-> record.family]
<1>2. record.family # None /\ Rotate(record).rotated = TRUE
  BY ConstantsOK DEF IInv, TypeOK, RefreshType, Rotate
<1>3. spent \in Redeemable /\ spent.family \notin ended
  BY <1>1, RedeemableMembers DEF IInv, EndedStaysDead
<1>4. LET fresh == RefreshRecord(n, grant(record))
      IN fresh.id = n /\ fresh.family = record.family /\ fresh.rotated = FALSE
  BY DEF RefreshRecord
<1>5. next \in Redeemable'
  BY <1>1, <1>4, RedeemableMembers
<1>6. \A x \in LiveRefresh \ {record} : x \in refreshTokens /\ x.id # record.id
  BY LiveSubsets DEF IInv, UniqueKeys
<1>7. codes' \subseteq codes
  BY LiveSubsets DEF RefreshToken
<1>8. Redeemable' \subseteq (Redeemable \ {spent}) \cup {next}
  <2> SUFFICES ASSUME NEW o \in Redeemable', o # next PROVE o \in Redeemable /\ o # spent
    OBVIOUS
  <2>1. CASE \E x \in codes' : o = [source |-> x.code, family |-> None]
    BY <1>2, <1>7, <2>1, RedeemableMembers
  <2>2. CASE \E x \in refreshTokens' :
               ~x.rotated /\ o = [source |-> x.id, family |-> x.family]
    <3>1. PICK x \in LiveRefresh \ {record} :
            ~x.rotated /\ o = [source |-> x.id, family |-> x.family]
      BY <1>1, <1>2, <1>4, <2>2
    <3>2. QED
      BY <1>6, <3>1, RedeemableMembers
  <2>3. QED
    BY <2>1, <2>2, RedeemableMembers
<1>9. Chain!Redeem(spent, n)
  BY <1>1, <1>2, <1>3, <1>5, <1>8 DEF Chain!Redeem, Chain!Offer
<1>10. QED
  BY <1>3, <1>9

(* The server implements the chains: every step redeems one offer for one  *)
(* successor, makes one new offer, or only withdraws.                      *)
THEOREM ServerImplementsChain == Spec => ImplementsChain
<1>1. Init => Chain!Init
  BY RedeemableMembers DEF Init, Redeemable, Chain!Init
<1>2. IInv /\ [Next]_vars => [Chain!Next]_(Chain!vars)
  <2> SUFFICES ASSUME IInv, [Next]_vars PROVE Chain!Next
    OBVIOUS
  <2>1. IInv'
    BY NextIInv
  <2>2. QED
    BY <2>1, StepKinds, ForgettingWithdraws, ConsentOffers, ExchangeRedeems,
       RefreshRedeems DEF Chain!Next
<1>3. QED
  BY <1>1, <1>2, InductiveInvariant, PTL DEF Spec, ImplementsChain, Chain!Spec
=============================================================================
