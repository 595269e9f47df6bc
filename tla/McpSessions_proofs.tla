------------------------- MODULE McpSessions_proofs -------------------------
(***************************************************************************)
(* Proofs about McpSessions, for every value of its constants.             *)
(***************************************************************************)
EXTENDS McpSessions, FiniteSetTheorems, TLAPS

(* The open streams of a session are counted by a natural number.          *)
LEMMA OpenFinite ==
  ASSUME NEW id
  PROVE  IsFiniteSet(Open(id)) /\ Cardinality(Open(id)) \in Nat
<1>1. Open(id) \subseteq Requests /\ IsFiniteSet(Requests)
  BY ConstantsOK DEF Open
<1>2. QED
  BY <1>1, FS_Subset, FS_CardinalityType

LEMMA SeenType == ASSUME TypeOK, NEW id, Seen(id) PROVE age' \in [Ids -> 0..Over]
<1>1. 0 \in 0..Over
  BY ConstantsOK DEF Over
<1>2. QED
  BY <1>1 DEF TypeOK, Seen

(* A request in its guard, or an empty slot, is no open stream; what       *)
(* happens to it leaves the streams alone.                                 *)
LEMMA QuietRequest ==
  ASSUME TypeOK, NEW r \in Requests, NEW request \in RequestType \cup {NoRequest},
         requests[r] = NoRequest \/ InPhase(r, "guard"),
         request = NoRequest \/ request.phase = "guard",
         requests' = [requests EXCEPT ![r] = request]
  PROVE  /\ requests' \in [Requests -> RequestType \cup {NoRequest}]
         /\ \A id : Open(id)' = Open(id)
         /\ \A q \in Requests : InPhase(q, "stream")' => InPhase(q, "stream") /\ requests'[q] = requests[q]
<1>1. requests' \in [Requests -> RequestType \cup {NoRequest}]
  BY DEF TypeOK
<1>2. \A q \in Requests : q # r => requests'[q] = requests[q]
  BY DEF TypeOK
<1>3. requests'[r] = request
  BY DEF TypeOK
<1>4. QED
  BY <1>1, <1>2, <1>3 DEF Open, InPhase

(* A step that changes neither the streams, nor the counters, nor the      *)
(* ownership of a session with streams keeps the invariants about them.    *)
LEMMA StreamsUntouched ==
  ASSUME IInv, streams' = streams, lost' = lost,
         \A id : Open(id)' = Open(id),
         \A q \in Requests : InPhase(q, "stream")' =>
           /\ InPhase(q, "stream") /\ requests'[q] = requests[q]
           /\ requests[q].id \in sessions'
           /\ subject'[requests[q].id] = subject[requests[q].id]
  PROVE  StreamsCounted' /\ StreamsBelong'
BY DEF IInv, StreamsCounted, StreamsBelong

LEMMA InitIInv == Init => IInv
<1> SUFFICES ASSUME Init PROVE IInv
  OBVIOUS
<1>1. \A id : Open(id) = {}
  BY DEF Init, Open
<1>2. TypeOK
  BY ConstantsOK DEF Init, TypeOK, Over
<1>3. StreamsCounted
  BY <1>1, FS_EmptySet DEF Init, StreamsCounted
<1>4. RequestsKnown /\ StreamsBelong
  BY DEF Init, RequestsKnown, StreamsBelong, InPhase
<1>5. QED
  BY <1>2, <1>3, <1>4 DEF IInv

(* Handlers and arrivals after which no stream differs.                    *)
LEMMA QuietSteps ==
  ASSUME IInv, NEW r \in Requests,
         \/ \E s \in Subjects : ArriveFirst(r, s)
         \/ \E s \in Subjects, id \in Ids, kind \in Kinds : Arrive(r, kind, id, s)
         \/ GuardRefuses(r) \/ HangUpEarly(r) \/ SessionRefused(r) \/ Use(r)
  PROVE  IInv'
<1> DEFINE Answers(request) ==
             /\ requests' = [requests EXCEPT ![r] = request]
             /\ requests[r] = NoRequest \/ InPhase(r, "guard")
             /\ request = NoRequest \/ request.phase = "guard"
             /\ request # NoRequest /\ request.kind # "initialize" => request.id \in minted
<1>1. PICK request \in RequestType \cup {NoRequest} : Answers(request)
  <2>1. ASSUME NEW s \in Subjects, ArriveFirst(r, s)
        PROVE  \E request \in RequestType \cup {NoRequest} : Answers(request)
    <3> DEFINE new == Request("initialize", NoSession, s)
    <3>1. new \in RequestType /\ new.phase = "guard" /\ new.kind = "initialize"
      BY DEF Request, RequestType, Phases
    <3>2. requests[r] = NoRequest /\ requests' = [requests EXCEPT ![r] = new]
      BY <2>1 DEF ArriveFirst
    <3> HIDE DEF new
    <3>3. QED
      BY <3>1, <3>2
  <2>2. ASSUME NEW s \in Subjects, NEW id \in Ids, NEW kind \in Kinds, Arrive(r, kind, id, s)
        PROVE  \E request \in RequestType \cup {NoRequest} : Answers(request)
    <3> DEFINE new == Request(kind, id, s)
    <3>1. new \in RequestType /\ new.phase = "guard" /\ new.id = id
      BY DEF Request, RequestType, Phases
    <3>2. /\ requests[r] = NoRequest /\ requests' = [requests EXCEPT ![r] = new]
          /\ id \in minted
      BY <2>2 DEF Arrive
    <3> HIDE DEF new
    <3>3. QED
      BY <3>1, <3>2
  <2>3. CASE HangUpEarly(r)
    <3> DEFINE left == [requests[r] EXCEPT !.connected = FALSE]
    <3>1. requests[r] \in RequestType /\ requests[r].phase = "guard"
      BY <2>3 DEF HangUpEarly, InPhase, IInv, TypeOK
    <3>2. /\ left \in RequestType /\ left.phase = "guard"
          /\ left.id = requests[r].id /\ left.kind = requests[r].kind
      BY <3>1 DEF RequestType
    <3>3. requests' = [requests EXCEPT ![r] = left]
      BY <2>3 DEF HangUpEarly, IInv, TypeOK
    <3> HIDE DEF left
    <3>4. QED
      BY <2>3, <3>2, <3>3 DEF HangUpEarly, IInv, RequestsKnown, InPhase
  <2>4. CASE GuardRefuses(r) \/ SessionRefused(r) \/ Use(r)
    <3>1. Answers(NoRequest)
      BY <2>4 DEF GuardRefuses, SessionRefused, Use, SessionFor, Answered
    <3>2. QED
      BY <3>1
  <2>5. QED
    BY <2>1, <2>2, <2>3, <2>4
<1>2. UNCHANGED <<sessions, minted, subject, streams, timer, lost>>
  BY DEF ArriveFirst, Arrive, GuardRefuses, HangUpEarly, SessionRefused, Use
<1>3. age' \in [Ids -> 0..Over]
  <2>1. CASE UNCHANGED age
    BY <2>1 DEF IInv, TypeOK
  <2>2. CASE Use(r)
    BY <2>2, SeenType DEF Use, IInv
  <2>3. QED
    BY <2>1, <2>2 DEF ArriveFirst, Arrive, GuardRefuses, HangUpEarly, SessionRefused
<1>4. /\ requests' \in [Requests -> RequestType \cup {NoRequest}]
      /\ \A i : Open(i)' = Open(i)
      /\ \A q \in Requests : InPhase(q, "stream")' =>
           InPhase(q, "stream") /\ requests'[q] = requests[q]
  BY <1>1, QuietRequest DEF IInv
<1>5. TypeOK'
  BY <1>2, <1>3, <1>4 DEF IInv, TypeOK
<1>6. RequestsKnown'
  BY <1>1, <1>2 DEF IInv, RequestsKnown, TypeOK
<1>7. StreamsCounted' /\ StreamsBelong'
  <2>1. \A q \in Requests : InPhase(q, "stream") => requests[q].id \in sessions
    BY DEF IInv, StreamsBelong
  <2>2. QED
    BY <1>2, <1>4, <2>1, StreamsUntouched
<1>8. QED
  BY <1>5, <1>6, <1>7 DEF IInv

LEMMA TickIInv == ASSUME IInv, Tick PROVE IInv'
<1>1. age' \in [Ids -> 0..Over] /\ timer' \in 0..SweepEvery
  BY ConstantsOK DEF Tick, IInv, TypeOK, Over
<1>2. TypeOK' /\ RequestsKnown'
  BY <1>1 DEF Tick, IInv, TypeOK, RequestsKnown
<1>3. StreamsCounted' /\ StreamsBelong'
  BY DEF Tick, IInv, StreamsCounted, StreamsBelong, Open, InPhase
<1>4. QED
  BY <1>2, <1>3 DEF IInv

(* A new session has no streams: nobody could name it before.              *)
LEMMA InitializeIInv == ASSUME IInv, NEW r \in Requests, Initialize(r) PROVE IInv'
<1>1. PICK id \in Ids \ minted :
        /\ sessions' = sessions \cup {id} /\ minted' = minted \cup {id}
        /\ subject' = [subject EXCEPT ![id] = requests[r].subject]
        /\ age' = [age EXCEPT ![id] = 0]
        /\ streams' = [streams EXCEPT ![id] = 0]
  BY DEF Initialize
<1>2. requests[r] \in RequestType /\ requests[r] # NoRequest
  BY DEF Initialize, InPhase, IInv, TypeOK
<1>3. /\ requests' \in [Requests -> RequestType \cup {NoRequest}]
      /\ \A i : Open(i)' = Open(i)
      /\ \A q \in Requests : InPhase(q, "stream")' =>
           InPhase(q, "stream") /\ requests'[q] = requests[q]
  BY QuietRequest DEF Initialize, Answered, IInv
<1>4. Open(id) = {}
  BY DEF Open, IInv, RequestsKnown
<1>5. streams[id] = 0 /\ id \notin lost
  BY <1>4, FS_EmptySet DEF IInv, StreamsCounted, TypeOK
<1>6. streams' = streams
  BY <1>1, <1>5 DEF IInv, TypeOK
<1>7. TypeOK'
  BY <1>1, <1>2, <1>3, <1>6, ConstantsOK DEF Initialize, IInv, TypeOK, RequestType, Over
<1>8. RequestsKnown'
  BY <1>1 DEF Initialize, Answered, IInv, RequestsKnown, TypeOK
<1>9. StreamsCounted' /\ StreamsBelong'
  <2>1. ASSUME NEW q \in Requests, InPhase(q, "stream")
        PROVE  requests[q].id \in sessions' /\ subject'[requests[q].id] = subject[requests[q].id]
    BY <1>1, <2>1 DEF IInv, StreamsBelong, TypeOK
  <2>2. QED
    BY <1>3, <1>6, <2>1, StreamsUntouched DEF Initialize
<1>10. QED
  BY <1>7, <1>8, <1>9 DEF IInv
(* What sessionFor() found.                                                *)
LEMMA SessionFound ==
  ASSUME IInv, NEW r \in Requests, NEW kind, SessionFor(r, kind)
  PROVE  /\ requests[r] \in RequestType /\ requests[r] # NoRequest
         /\ requests[r].phase = "guard" /\ requests[r].kind = kind
         /\ requests[r].id \in sessions /\ requests[r].id \in Ids
         /\ subject[requests[r].id] = requests[r].subject
         /\ \A id : r \notin Open(id)
BY DEF SessionFor, InPhase, IInv, TypeOK, Open

LEMMA GetIInv == ASSUME IInv, NEW r \in Requests, Get(r) PROVE IInv'
<1>0. PICK id \in Ids : id = requests[r].id
  BY SessionFound DEF Get
<1>1. /\ requests[r] \in RequestType /\ requests[r] # NoRequest
      /\ requests[r].phase = "guard" /\ requests[r].kind = "get"
      /\ id \in sessions /\ id \in Ids /\ id \in minted
      /\ subject[id] = requests[r].subject
      /\ \A i : r \notin Open(i)
  BY <1>0, SessionFound DEF Get, IInv, TypeOK
<1>2. /\ streams' = [streams EXCEPT ![id] = @ + 1]
      /\ streams' \in [Ids -> Nat]
      /\ UNCHANGED <<sessions, minted, subject, timer>>
  BY <1>0, <1>1 DEF Get, IInv, TypeOK
<1>3. age' \in [Ids -> 0..Over]
  BY SeenType DEF Get, IInv
<1>4. CASE requests[r].connected
  <2>1. PICK phase \in {"stream", "ending"} :
          requests' = [requests EXCEPT ![r].phase = phase] /\ lost' = lost
    BY <1>4 DEF Get
  <2> DEFINE opened == [requests[r] EXCEPT !.phase = phase]
  <2>2. /\ opened \in RequestType /\ opened # NoRequest
        /\ opened.phase = phase /\ opened.id = id
        /\ opened.kind = "get" /\ opened.subject = requests[r].subject
    BY <1>0, <1>1, NoRequestOK DEF RequestType, Phases
  <2>3. requests' = [requests EXCEPT ![r] = opened]
    BY <2>1 DEF IInv, TypeOK
  <2> HIDE DEF opened
  <2>4. requests'[r] = opened /\ \A q \in Requests : q # r => requests'[q] = requests[q]
    BY <2>3 DEF IInv, TypeOK
  <2>5. TypeOK'
    <3>1. requests' \in [Requests -> RequestType \cup {NoRequest}]
      BY <2>2, <2>3 DEF IInv, TypeOK
    <3>2. streams' \in [Ids -> Nat] /\ UNCHANGED <<sessions, minted, subject, timer, lost>>
      BY <1>2, <2>1
    <3>3. QED
      BY <1>3, <3>1, <3>2 DEF IInv, TypeOK
  <2>6. RequestsKnown'
    BY <1>1, <1>2, <2>2, <2>4 DEF IInv, RequestsKnown
  <2>7. Open(id)' = Open(id) \cup {r} /\ \A i : i # id => Open(i)' = Open(i)
    BY <1>1, <2>1, <2>2, <2>4 DEF Open
  <2>8. Cardinality(Open(id)') = Cardinality(Open(id)) + 1
    <3>1. r \notin Open(id) /\ IsFiniteSet(Open(id))
      BY <1>1, OpenFinite
    <3>2. Cardinality(Open(id) \cup {r}) = Cardinality(Open(id)) + 1
      BY <3>1, FS_AddElement
    <3>3. QED
      BY <2>7, <3>2
  <2>9. StreamsCounted'
    <3> SUFFICES ASSUME NEW i \in Ids
                 PROVE  /\ streams'[i] >= Cardinality(Open(i)')
                        /\ i \notin lost => streams'[i] = Cardinality(Open(i)')
      BY <2>1 DEF StreamsCounted
    <3>1. CASE i = id
      BY <1>1, <1>2, <2>8, <3>1, OpenFinite DEF IInv, StreamsCounted, TypeOK
    <3>2. CASE i # id
      BY <1>2, <2>7, <3>2 DEF IInv, StreamsCounted, TypeOK
    <3>3. QED
      BY <3>1, <3>2
  <2>10. StreamsBelong'
    BY <1>1, <1>2, <2>2, <2>4 DEF IInv, StreamsBelong, InPhase
  <2>11. QED
    BY <2>5, <2>6, <2>9, <2>10 DEF IInv
<1>5. CASE ~requests[r].connected
  <2>1. requests' = [requests EXCEPT ![r] = NoRequest] /\ lost' = lost \cup {id}
    BY <1>0, <1>5 DEF Get, Answered
  <2>2. /\ requests' \in [Requests -> RequestType \cup {NoRequest}]
        /\ \A i : Open(i)' = Open(i)
        /\ \A q \in Requests : InPhase(q, "stream")' =>
             InPhase(q, "stream") /\ requests'[q] = requests[q]
    BY <1>1, <2>1, QuietRequest DEF IInv, InPhase
  <2>3. TypeOK'
    BY <1>1, <1>2, <1>3, <2>1, <2>2 DEF IInv, TypeOK
  <2>4. RequestsKnown'
    BY <1>2, <2>1 DEF IInv, RequestsKnown, TypeOK
  <2>5. StreamsCounted'
    <3> SUFFICES ASSUME NEW i \in Ids
                 PROVE  /\ streams'[i] >= Cardinality(Open(i))
                        /\ i \notin lost' => streams'[i] = Cardinality(Open(i))
      BY <2>2 DEF StreamsCounted
    <3>1. CASE i = id
      BY <1>1, <1>2, <2>1, <3>1, OpenFinite DEF IInv, StreamsCounted, TypeOK
    <3>2. CASE i # id
      BY <1>2, <2>1, <3>2 DEF IInv, StreamsCounted, TypeOK
    <3>3. QED
      BY <3>1, <3>2
  <2>6. StreamsBelong'
    BY <1>2, <2>2 DEF IInv, StreamsBelong
  <2>7. QED
    BY <2>3, <2>4, <2>5, <2>6 DEF IInv
<1>6. QED
  BY <1>4, <1>5
(* The close handler of a GET takes one stream off the counter.            *)
LEMMA CloseIInv ==
  ASSUME IInv, NEW r \in Requests, HangUp(r) \/ End(r)
  PROVE  IInv'
<1>1. /\ requests[r] \in RequestType /\ requests[r] # NoRequest
      /\ requests[r].phase # "guard"
  BY DEF HangUp, End, InPhase, IInv, TypeOK
<1>2. PICK id \in Ids : id = requests[r].id /\ id \in minted
  BY <1>1 DEF IInv, RequestsKnown, TypeOK
<1>3. /\ streams' = [streams EXCEPT ![id] = @ - 1] /\ Seen(id)
      /\ requests' = [requests EXCEPT ![r] = NoRequest]
      /\ UNCHANGED <<sessions, minted, subject, timer, lost>>
  BY <1>2 DEF HangUp, End, StreamClosed, Answered
<1>4. requests'[r] = NoRequest /\ \A q \in Requests : q # r => requests'[q] = requests[q]
  BY <1>3 DEF IInv, TypeOK
<1>5. r \in Open(id) /\ \A i \in Ids : i # id => r \notin Open(i)
  BY <1>1, <1>2 DEF Open
<1>6. Open(id)' = Open(id) \ {r} /\ \A i : i # id => Open(i)' = Open(i)
  BY <1>1, <1>2, <1>4 DEF Open
<1>7. Cardinality(Open(id)') = Cardinality(Open(id)) - 1
  BY <1>5, <1>6, OpenFinite, FS_RemoveElement
<1>8. /\ Cardinality(Open(id)) \in Nat /\ Cardinality(Open(id)') \in Nat
      /\ streams[id] \in Nat /\ streams[id] >= Cardinality(Open(id))
  BY <1>6, OpenFinite, FS_RemoveElement, FS_CardinalityType DEF IInv, StreamsCounted, TypeOK
<1>9. streams' \in [Ids -> Nat]
  BY <1>3, <1>7, <1>8 DEF IInv, TypeOK
<1>10. TypeOK'
  BY <1>3, <1>4, <1>9, SeenType DEF IInv, TypeOK
<1>11. RequestsKnown'
  BY <1>3, <1>4 DEF IInv, RequestsKnown
<1>12. StreamsCounted'
  <2> SUFFICES ASSUME NEW i \in Ids
               PROVE  /\ streams'[i] >= Cardinality(Open(i)')
                      /\ i \notin lost => streams'[i] = Cardinality(Open(i)')
    BY <1>3 DEF StreamsCounted
  <2>1. CASE i = id
    BY <1>3, <1>7, <1>8, <2>1 DEF IInv, StreamsCounted, TypeOK
  <2>2. CASE i # id
    BY <1>3, <1>6, <2>2 DEF IInv, StreamsCounted, TypeOK
  <2>3. QED
    BY <2>1, <2>2
<1>13. StreamsBelong'
  BY <1>3, <1>4 DEF IInv, StreamsBelong, InPhase
<1>14. QED
  BY <1>10, <1>11, <1>12, <1>13 DEF IInv

(* Closing sessions ends their streams, which stay counted until their     *)
(* responses close.                                                        *)
LEMMA ClosedKeeps ==
  ASSUME IInv, NEW ids, NEW r, Closed(ids, r), r \notin Requests \/ InPhase(r, "guard"),
         UNCHANGED <<minted, subject, streams, lost>>
  PROVE  /\ sessions' \subseteq minted'
         /\ requests' \in [Requests -> RequestType \cup {NoRequest}]
         /\ RequestsKnown' /\ StreamsCounted' /\ StreamsBelong'
<1>1. ASSUME NEW q \in Requests, InPhase(q, "stream"), requests[q].id \in ids, q # r
      PROVE  /\ requests'[q] \in RequestType /\ requests'[q] # NoRequest
             /\ requests'[q].phase = "ending" /\ requests'[q].id = requests[q].id
             /\ requests'[q].kind = requests[q].kind
  <2>1. requests[q] \in RequestType /\ requests'[q] = [requests[q] EXCEPT !.phase = "ending"]
    BY <1>1 DEF Closed, InPhase, IInv, TypeOK
  <2>2. QED
    BY <2>1, NoRequestOK DEF RequestType, Phases
<1>2. ASSUME NEW q \in Requests, ~(InPhase(q, "stream") /\ requests[q].id \in ids), q # r
      PROVE  requests'[q] = requests[q]
  BY <1>2 DEF Closed
<1>3. r \in Requests => requests'[r] = NoRequest
  BY DEF Closed
<1>4. requests' \in [Requests -> RequestType \cup {NoRequest}]
  <2>1. ASSUME NEW q \in Requests PROVE requests'[q] \in RequestType \cup {NoRequest}
    BY <1>1, <1>2, <1>3 DEF IInv, TypeOK
  <2>2. requests' = [q \in Requests |-> requests'[q]]
    BY DEF Closed
  <2>3. QED
    BY <2>1, <2>2
<1>5. RequestsKnown'
  BY <1>1, <1>2, <1>3 DEF IInv, RequestsKnown, InPhase
<1>6. \A i : Open(i)' = Open(i)
  BY <1>1, <1>2, <1>3 DEF Open, InPhase
<1>7. StreamsCounted'
  BY <1>6 DEF IInv, StreamsCounted
<1>8. StreamsBelong'
  <2> SUFFICES ASSUME NEW q \in Requests, InPhase(q, "stream")'
               PROVE  /\ requests'[q].id \in sessions'
                      /\ subject'[requests'[q].id] = requests'[q].subject
    BY DEF StreamsBelong
  <2>1. q # r /\ requests'[q] = requests[q] /\ InPhase(q, "stream") /\ requests[q].id \notin ids
    BY <1>1, <1>2, <1>3 DEF InPhase
  <2>2. QED
    BY <2>1 DEF IInv, StreamsBelong, Closed
<1>9. QED
  BY <1>4, <1>5, <1>7, <1>8 DEF Closed, IInv, TypeOK
LEMMA DeleteIInv == ASSUME IInv, NEW r \in Requests, Delete(r) PROVE IInv'
<1>1. age' \in [Ids -> 0..Over]
  BY SeenType DEF Delete, IInv
<1>2. /\ sessions' \subseteq minted'
      /\ requests' \in [Requests -> RequestType \cup {NoRequest}]
      /\ RequestsKnown' /\ StreamsCounted' /\ StreamsBelong'
  BY ClosedKeeps DEF Delete, SessionFor
<1>3. TypeOK'
  BY <1>1, <1>2 DEF Delete, IInv, TypeOK
<1>4. QED
  BY <1>2, <1>3 DEF IInv

LEMMA SweepIInv == ASSUME IInv, Sweep PROVE IInv'
<1>1. /\ sessions' \subseteq minted'
      /\ requests' \in [Requests -> RequestType \cup {NoRequest}]
      /\ RequestsKnown' /\ StreamsCounted' /\ StreamsBelong'
  BY ConstantsOK, ClosedKeeps DEF Sweep
<1>2. TypeOK'
  BY <1>1, ConstantsOK DEF Sweep, IInv, TypeOK
<1>3. QED
  BY <1>1, <1>2 DEF IInv

LEMMA NextIInv == ASSUME IInv, [Next]_vars PROVE IInv'
<1>1. CASE Tick
  BY <1>1, TickIInv
<1>2. CASE Sweep
  BY <1>2, SweepIInv
<1>3. CASE \E r \in Requests, s \in Subjects : ArriveFirst(r, s)
  BY <1>3, QuietSteps
<1>4. CASE \E r \in Requests, s \in Subjects, id \in Ids, kind \in Kinds : Arrive(r, kind, id, s)
  BY <1>4, QuietSteps
<1>5. CASE \E r \in Requests : GuardRefuses(r) \/ HangUpEarly(r) \/ SessionRefused(r) \/ Use(r)
  BY <1>5, QuietSteps
<1>6. CASE \E r \in Requests : Initialize(r)
  BY <1>6, InitializeIInv
<1>7. CASE \E r \in Requests : Get(r)
  BY <1>7, GetIInv
<1>8. CASE \E r \in Requests : Delete(r)
  BY <1>8, DeleteIInv
<1>9. CASE \E r \in Requests : HangUp(r) \/ End(r)
  BY <1>9, CloseIInv
<1>10. CASE UNCHANGED vars
  BY <1>10 DEF vars, IInv, TypeOK, RequestsKnown, StreamsCounted, StreamsBelong, Open, InPhase
<1>11. QED
  BY <1>1, <1>2, <1>3, <1>4, <1>5, <1>6, <1>7, <1>8, <1>9, <1>10 DEF Next

(* The inductive invariant holds in every reachable state.                 *)
THEOREM SessionsInvariant == Spec => []IInv
<1>1. IInv /\ [Next]_vars => IInv'
  BY NextIInv
<1>2. QED
  BY <1>1, InitIInv, PTL DEF Spec

(* Types: in particular no close handler counts a session below zero.      *)
THEOREM TypeCorrect == Spec => []TypeOK
BY SessionsInvariant, PTL DEF IInv

(* The counter never misses an open stream, and is exact without a lost    *)
(* GET.                                                                    *)
THEOREM CounterIsSafe == Spec => []StreamsCounted
BY SessionsInvariant, PTL DEF IInv

(* Streams only exist in live sessions of their own principal.             *)
THEOREM StreamsAreOwned == Spec => []StreamsBelong
BY SessionsInvariant, PTL DEF IInv

(* No step takes a session in use away, but the DELETE of its principal.   *)
THEOREM SessionsInUseStay == Spec => UsedSessionsStay
<1> DEFINE Kept == \A id \in sessions \ sessions' :
                     Terminated(id) \/ (Open(id) = {} /\ age[id] > SessionIdle)
<1>1. IInv /\ [Next]_vars => [Kept]_vars
  <2> SUFFICES ASSUME IInv, Next, NEW id \in sessions, id \notin sessions'
               PROVE  Terminated(id) \/ (Open(id) = {} /\ age[id] > SessionIdle)
    BY DEF vars
  <2>1. (\E r \in Requests : Delete(r)) \/ Sweep
    BY DEF Next, Tick, ArriveFirst, Arrive, GuardRefuses, HangUpEarly, Initialize,
       SessionRefused, Use, Get, HangUp, End
  <2>2. ASSUME NEW r \in Requests, Delete(r) PROVE Terminated(id)
    BY <2>2, SessionFound DEF Delete, Closed, SessionFor, Terminated
  <2>3. CASE Sweep
    <3>1. streams[id] = 0 /\ age[id] > SessionIdle
      BY <2>3 DEF Sweep, Closed, IdleSessions
    <3>2. Cardinality(Open(id)) = 0
      BY <3>1, OpenFinite DEF IInv, StreamsCounted, TypeOK
    <3>3. QED
      BY <3>1, <3>2, OpenFinite, FS_EmptySet
  <2>4. QED
    BY <2>1, <2>2, <2>3
<1>2. QED
  BY <1>1, SessionsInvariant, PTL DEF Spec, UsedSessionsStay
=============================================================================
