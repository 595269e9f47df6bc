---------------------------- MODULE McpSessions ----------------------------
(***************************************************************************)
(* The stateful MCP endpoint of src/shared/http.ts, mountMcp(): sessions   *)
(* bound to the principal that initialized them, their notification        *)
(* streams (GET) and the sweeper of idle sessions.                         *)
(*                                                                         *)
(* Between the arrival of a request and its handler the bearer guard is    *)
(* awaited; everything else may happen meanwhile, the client hanging up    *)
(* included.  Each handler then runs in one piece up to handing the        *)
(* request to the transport of the SDK, which is external.                 *)
(*                                                                         *)
(* Time only enters through the difference to lastSeen, so the model keeps *)
(* the age of a session instead, which stops growing once it is over the   *)
(* limit.                                                                  *)
(***************************************************************************)
EXTENDS Integers, FiniteSets

CONSTANTS
  Subjects,     \* principals, subjectOf(req.auth)
  Ids,          \* pool of session ids
  Requests,     \* slots for concurrent requests
  NoRequest,    \* an empty slot
  NoSession,    \* no mcp-session-id header
  SessionIdle,  \* sessionIdleMs, in ticks
  SweepEvery,   \* the sweeper's interval, in ticks
  MaxStreams    \* bound on the counter streams

ASSUME ConstantsOK ==
  /\ SessionIdle \in Nat \ {0} /\ SweepEvery \in Nat \ {0} /\ MaxStreams \in Nat
  /\ IsFiniteSet(Requests) /\ NoRequest \notin Requests /\ NoSession \notin Ids
  /\ Subjects # {}

VARIABLES
  sessions,  \* keys of the sessions map
  minted,    \* session ids ever generated
  subject,   \* per id: the session object's subject
  age,       \* per id: time since lastSeen
  streams,   \* per id: the session object's streams
  requests,  \* per slot: the request in it
  timer,     \* ticks since the sweeper ran
  lost       \* history: sessions with a GET handled after its client hung up

vars == <<sessions, minted, subject, age, streams, requests, timer, lost>>

Over == SessionIdle + 1   \* lastSeen < cutoff
Kinds == {"post", "get", "delete"}   \* requests that name a session

(* A request is in its guard, or is a GET whose response is open: as the   *)
(* notification stream, or ending because the transport refused or closed. *)
Phases == {"guard", "stream", "ending"}
Request(kind, id, s) ==
  [kind |-> kind, id |-> id, subject |-> s, phase |-> "guard", connected |-> TRUE]

InPhase(r, phase) == requests[r] # NoRequest /\ requests[r].phase = phase

(* The GET requests whose close handler is registered for session id.      *)
Open(id) == {r \in Requests :
  requests[r] # NoRequest /\ requests[r].phase # "guard" /\ requests[r].id = id}

-----------------------------------------------------------------------------
Init ==
  /\ sessions = {} /\ minted = {}
  /\ subject = [id \in Ids |-> CHOOSE s \in Subjects : TRUE]
  /\ age = [id \in Ids |-> 0]
  /\ streams = [id \in Ids |-> 0]
  /\ requests = [r \in Requests |-> NoRequest]
  /\ timer = 0
  /\ lost = {}

(* Time passes.  A due timer may fire late.                                *)
Tick ==
  /\ age' = [id \in Ids |->
       IF id \in sessions /\ age[id] < Over THEN age[id] + 1 ELSE age[id]]
  /\ timer' = IF timer < SweepEvery THEN timer + 1 ELSE timer
  /\ UNCHANGED <<sessions, minted, subject, streams, requests, lost>>

(* A request without a session id arrives and waits for its guard.         *)
ArriveFirst(r, s) ==
  /\ requests[r] = NoRequest
  /\ requests' = [requests EXCEPT ![r] = Request("initialize", NoSession, s)]
  /\ UNCHANGED <<sessions, minted, subject, age, streams, timer, lost>>

(* A request for a session arrives.  Any principal may name any session id *)
(* it has learnt of, one that ended included.                              *)
Arrive(r, kind, id, s) ==
  /\ requests[r] = NoRequest
  /\ id \in minted
  /\ requests' = [requests EXCEPT ![r] = Request(kind, id, s)]
  /\ UNCHANGED <<sessions, minted, subject, age, streams, timer, lost>>

(* The response is over: the slot is free again.                           *)
Answered(r) == requests' = [requests EXCEPT ![r] = NoRequest]

(* The guard answers 401 or 403, or a POST is not well formed: nothing     *)
(* happens.                                                                *)
GuardRefuses(r) ==
  /\ InPhase(r, "guard")
  /\ Answered(r)
  /\ UNCHANGED <<sessions, minted, subject, age, streams, timer, lost>>

(* The client of a GET hangs up while the request waits for the guard: the *)
(* close event of the response finds no listener.  Nobody listens to it in *)
(* the other handlers.                                                     *)
HangUpEarly(r) ==
  /\ InPhase(r, "guard")
  /\ requests[r].kind = "get"
  /\ requests[r].connected
  /\ requests' = [requests EXCEPT ![r].connected = FALSE]
  /\ UNCHANGED <<sessions, minted, subject, age, streams, timer, lost>>

(* An initialize request: onsessioninitialized stores a new session.       *)
Initialize(r) ==
  /\ InPhase(r, "guard")
  /\ requests[r].kind = "initialize"
  /\ \E id \in Ids \ minted :
       /\ sessions' = sessions \cup {id}
       /\ minted' = minted \cup {id}
       /\ subject' = [subject EXCEPT ![id] = requests[r].subject]
       /\ age' = [age EXCEPT ![id] = 0]
       /\ streams' = [streams EXCEPT ![id] = 0]
  /\ Answered(r)
  /\ UNCHANGED <<timer, lost>>

-----------------------------------------------------------------------------
(* Mutant of SessionFor: any principal may use a session it can name.      *)
SessionForAnyone(r, kind) ==
  /\ InPhase(r, "guard")
  /\ requests[r].kind = kind
  /\ requests[r].id \in sessions

(* sessionFor() finds the session, of the same principal.                  *)
SessionFor(r, kind) ==
  /\ InPhase(r, "guard")
  /\ requests[r].kind = kind
  /\ requests[r].id \in sessions
  /\ subject[requests[r].id] = requests[r].subject

(* sessionFor() answers 404 or 403.                                        *)
SessionRefused(r) ==
  /\ InPhase(r, "guard")
  /\ requests[r].kind # "initialize"
  /\ ~SessionFor(r, requests[r].kind)
  /\ Answered(r)
  /\ UNCHANGED <<sessions, minted, subject, age, streams, timer, lost>>

(* lastSeen = Date.now().                                                  *)
Seen(id) == age' = [age EXCEPT ![id] = 0]

(* A POST, or a DELETE that the transport refuses.                         *)
Use(r) ==
  /\ \E kind \in {"post", "delete"} : SessionFor(r, kind)
  /\ Seen(requests[r].id)
  /\ Answered(r)
  /\ UNCHANGED <<sessions, minted, subject, streams, timer, lost>>

(* GET counts a stream and registers the close handler.  The transport     *)
(* opens the stream, or refuses a second one and ends the response.  When  *)
(* the client is gone the handler never fires.                             *)
Get(r) ==
  /\ SessionFor(r, "get")
  /\ LET id == requests[r].id IN
     /\ streams[id] < MaxStreams
     /\ streams' = [streams EXCEPT ![id] = @ + 1]
     /\ Seen(id)
  /\ \/ /\ requests[r].connected
        /\ \E phase \in {"stream", "ending"} :
             requests' = [requests EXCEPT ![r].phase = phase]
        /\ UNCHANGED lost
     \/ /\ ~requests[r].connected
        /\ lost' = lost \cup {requests[r].id}
        /\ Answered(r)
  /\ UNCHANGED <<sessions, minted, subject, timer>>

(* transport.close() of the sessions ids: onclose forgets them, and the    *)
(* SDK ends their streams; the request r that asked for it is answered.    *)
Closed(ids, r) ==
  /\ sessions' = sessions \ ids
  /\ requests' = [q \in Requests |->
       IF q = r THEN NoRequest
       ELSE IF InPhase(q, "stream") /\ requests[q].id \in ids
         THEN [requests[q] EXCEPT !.phase = "ending"]
         ELSE requests[q]]

Delete(r) ==
  /\ SessionFor(r, "delete")
  /\ Seen(requests[r].id)
  /\ Closed({requests[r].id}, r)
  /\ UNCHANGED <<minted, subject, streams, timer, lost>>

(* Mutant of StreamClosed: forgets to count the stream down.               *)
StreamStaysCounted(r) ==
  /\ requests[r] # NoRequest
  /\ Seen(requests[r].id)
  /\ UNCHANGED streams

(* Mutant of StreamClosed: counts the stream down by two events.           *)
StreamClosedTwice(r) ==
  /\ requests[r] # NoRequest
  /\ Seen(requests[r].id)
  /\ streams' = [streams EXCEPT ![requests[r].id] = @ - 2]

(* The close handler of a GET.                                             *)
StreamClosed(r) ==
  /\ requests[r] # NoRequest
  /\ Seen(requests[r].id)
  /\ streams' = [streams EXCEPT ![requests[r].id] = @ - 1]

(* The client closes its stream, or loses the connection.                  *)
HangUp(r) ==
  /\ InPhase(r, "stream")
  /\ StreamClosed(r)
  /\ Answered(r)
  /\ UNCHANGED <<sessions, minted, subject, timer, lost>>

(* A response the server ends is closed.                                   *)
End(r) ==
  /\ InPhase(r, "ending")
  /\ StreamClosed(r)
  /\ Answered(r)
  /\ UNCHANGED <<sessions, minted, subject, timer, lost>>

-----------------------------------------------------------------------------
(* Mutant of IdleSessions: does not look at the streams.                   *)
UnseenSessions == {id \in sessions : age[id] > SessionIdle}

(* What the sweeper closes.                                                *)
IdleSessions == {id \in sessions : streams[id] = 0 /\ age[id] > SessionIdle}

(* The sweeper's interval timer fires.                                     *)
Sweep ==
  /\ timer = SweepEvery
  /\ timer' = 0
  /\ Closed(IdleSessions, NoRequest)
  /\ UNCHANGED <<minted, subject, age, streams, lost>>

Next ==
  \/ Tick
  \/ \E r \in Requests, s \in Subjects : ArriveFirst(r, s)
  \/ \E r \in Requests, s \in Subjects, id \in Ids, kind \in Kinds : Arrive(r, kind, id, s)
  \/ \E r \in Requests : GuardRefuses(r)
  \/ \E r \in Requests : HangUpEarly(r)
  \/ \E r \in Requests : Initialize(r)
  \/ \E r \in Requests : SessionRefused(r)
  \/ \E r \in Requests : Use(r)
  \/ \E r \in Requests : Get(r)
  \/ \E r \in Requests : Delete(r)
  \/ \E r \in Requests : HangUp(r)
  \/ \E r \in Requests : End(r)
  \/ Sweep

(* The interval timer and the clock go on, and a response the server ended *)
(* is eventually closed.  Nothing is assumed of the clients.               *)
Fairness ==
  /\ WF_vars(Tick)
  /\ WF_vars(Sweep)
  /\ \A r \in Requests : WF_vars(End(r))

Spec == Init /\ [][Next]_vars

FairSpec == Spec /\ Fairness

-----------------------------------------------------------------------------
RequestType == [kind : Kinds \cup {"initialize"}, id : Ids \cup {NoSession},
                subject : Subjects, phase : Phases, connected : BOOLEAN]

ASSUME NoRequestOK == NoRequest \notin RequestType

(* Type invariant; the counter streams never goes below zero.              *)
TypeOK ==
  /\ sessions \subseteq minted
  /\ minted \subseteq Ids
  /\ subject \in [Ids -> Subjects]
  /\ age \in [Ids -> 0..Over]
  /\ streams \in [Ids -> Nat]
  /\ requests \in [Requests -> RequestType \cup {NoRequest}]
  /\ timer \in 0..SweepEvery
  /\ lost \subseteq minted

(* The counter streams is what the sweeper believes of a session: it never *)
(* misses a GET whose response is open, and it is exact unless a GET was   *)
(* handled after its client had gone.                                      *)
StreamsCounted ==
  \A id \in Ids :
    /\ streams[id] >= Cardinality(Open(id))
    /\ id \notin lost => streams[id] = Cardinality(Open(id))

(* An open notification stream belongs to a session that is still there,   *)
(* and to the principal who initialized it, however guards, deletions and  *)
(* sweeps interleave.                                                      *)
StreamsBelong ==
  \A r \in Requests : InPhase(r, "stream") =>
    /\ requests[r].id \in sessions
    /\ subject[requests[r].id] = requests[r].subject

(* The principal of a session asked for its end in this step.              *)
Terminated(id) ==
  \E r \in Requests :
    /\ InPhase(r, "guard") /\ requests'[r] = NoRequest
    /\ requests[r].kind = "delete" /\ requests[r].id = id
    /\ requests[r].subject = subject[id]

(* Part of the inductive invariant: a request that names a session names   *)
(* one that exists or existed, and only a GET stays open.                  *)
RequestsKnown ==
  \A r \in Requests : requests[r] # NoRequest =>
    /\ requests[r].kind # "initialize" => requests[r].id \in minted
    /\ requests[r].phase # "guard" => requests[r].kind = "get"

IInv == TypeOK /\ RequestsKnown /\ StreamsCounted /\ StreamsBelong

(* A session in use is not taken away: it ends by the DELETE of its own    *)
(* principal, or unseen for sessionIdleMs and without an open stream.      *)
UsedSessionsStay ==
  [][\A id \in sessions \ sessions' :
       Terminated(id) \/ (Open(id) = {} /\ age[id] > SessionIdle)]_vars

(* "They must not pile up": a session without an open stream that is not   *)
(* seen any more is swept, whatever happened to it before, short of a GET  *)
(* that was handled after its client had gone.                             *)
AbandonedAreSwept ==
  \A id \in Ids :
    []<>(id \notin sessions \/ Open(id) # {} \/ age[id] <= SessionIdle \/ id \in lost)

(* The same without the exception, as http.ts words it: "clients that      *)
(* crash without DELETE would otherwise leak a transport + McpServer".     *)
CrashedAreSwept ==
  \A id \in Ids :
    []<>(id \notin sessions \/ Open(id) # {} \/ age[id] <= SessionIdle)
=============================================================================
